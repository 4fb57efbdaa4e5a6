----------------------------- MODULE RecordsProofs -----------------------------
(***************************************************************************)
(* Records that several requests read, and then write back: the lines of   *)
(* an order, the invoices and the members of a tribe, and the stock of a   *)
(* sized product.                                                          *)
(* For the lines, every editor's claim on its line is counted (ItemsInv):  *)
(* the units it owes the shelf, and the share it is taking back, which the *)
(* wallet may hold on top of the order's figure until then.  For the       *)
(* invoices, every object of the bucket is traced to the errand that       *)
(* uploaded it (PapersInv).  For the stock, what a request read is still   *)
(* so while the version is, and what it changed by hand and has not logged *)
(* is summed over the requests (StockInv).  For the members of a tribe, a  *)
(* member is right for good or some request still owes it a look, unless   *)
(* an order was changed while it was recorded (MembersInv).  At the end:   *)
(* the types of all four.                                                  *)
(***************************************************************************)
EXTENDS MCRecords, SumProofs

-----------------------------------------------------------------------------
(***************************************************************************)
(* The lines of an order                                                   *)
(***************************************************************************)
\* Where an editor is: about to add, owing a move of stock, owing a share.
Adding == {"push", "take", "undo"}
Taking == {"take", "undo"}
Returning == {"tidy", "return"}
Reversing == {"tidy", "return", "net", "append"}

\* An editor at one of P with line l; some editor, some editor but r.
Is(q, P, l) == q.pc \in P /\ q.line = l
Has(e, P, l) == \E r \in Editors : Is(e[r], P, l)
Others(e, r, P, l) == \E x \in Editors : x # r /\ Is(e[x], P, l)
MovesAll(q) == q.pc # "idle" /\ q.line = NoLine

Board == [status: {"ON_SHELF", "GONE", "CANCELLED"}, deleted: BOOLEAN,
          approval: {"NONE", "PENDING", "APPROVED", "REJECTED"}]

ItemsTyped ==
    /\ placed \subseteq Bought /\ basket \subseteq placed \cup Extras
    /\ basket \subseteq AllLines /\ board \in Board
    /\ total \in Int /\ net \in Int /\ slips \in Nat
    /\ units \in [AllLines -> Int] /\ editor \in [Editors -> Editor]

\* What an editor works on, and the share it carries.
Carries(q, B, b, u, s) ==
    /\ q.pc \in Adding => q.line \in Extras
    /\ q.pc \in {"pull", "tidy", "return", "net"} =>
          q.line \in AllLines /\ q.amount = commissionOf(q.line)
    /\ q.pc = "net" \/ (q.pc = "append" /\ q.line # NoLine) => q.amount > 0
    /\ q.pc \in {"idle", "sum", "credit"} => q.line = NoLine
    /\ q.pc = "undo" => s > 0
    /\ q.line # NoLine => ~b.deleted /\ b.status # "CANCELLED" /\ b.approval # "REJECTED"
    /\ q.pc \in Reversing \cup {"push"} => q.line \notin B
    /\ q.pc = "push" => u[q.line] = 0

\* Two editors do not do the same to the same line.
Apart(q, p) ==
    /\ MovesAll(q) => p.pc = "idle"
    /\ q.line # NoLine /\ q.line = p.line =>
          /\ q.pc # "push"
          /\ q.pc \in Adding => p.pc \notin Adding
          /\ q.pc \in Reversing => p.pc \notin Reversing

Editing ==
    /\ \A r \in Editors : Carries(editor[r], basket, board, units, slips)
    /\ \A r, x \in Editors : r # x => Apart(editor[r], editor[x])

\* The units that are out, but for those an editor is yet to move.
One(p) == IF p THEN 1 ELSE 0
Holds(b) == b.status = "GONE" \/ (b.status = "ON_SHELF" /\ ~b.deleted)
UnitsFit(l, e, B, b, u) ==
    u[l] + One(Has(e, Taking, l)) - One(Has(e, Returning, l)) = One(l \in B /\ Holds(b))
StockFits ==
    \A l \in AllLines : l \in basket \/ slips = 0 => UnitsFit(l, editor, basket, board, units)

\* The lines an editor is taking back the share of, and what the wallet may hold
\* until then: the figure of the order, and those shares on top of it.
Reversed(e) == {l \in AllLines : Has(e, Reversing, l)}
gainOfAll(S) == SumFunctionOnSet([l \in AllLines |-> OrZero(commissionOf(l))], S)
Cap(e, t) == OrZero(t) + gainOfAll(Reversed(e))

\* The wallet holds no more than c, and just that if no line was sold at a loss.
Fits(n, c) == n <= c /\ (NoLoss => n = c)

\* A line's share is taken back in full; or, with a line sold at a loss, all of
\* what the wallet had.
Reverses(q, n) ==
    q.pc = "append" /\ q.line # NoLine =>
        q.amount = commissionOf(q.line) \/ (~NoLoss /\ n <= q.amount)

\* What a move of the whole order is about to do to the wallet.
Settles(q, b, t, n) ==
    /\ q.pc = "credit" => Fits(n, 0) /\ q.amount = t /\ t > 0 /\ ~b.deleted
    /\ q.pc = "sum" => b.deleted \/ b.status = "CANCELLED"
    /\ q.pc = "append" /\ q.line = NoLine =>
          q.amount = n /\ (b.deleted \/ b.status = "CANCELLED")
    /\ Reverses(q, n)

Unearned(e, b, n) ==
    b.approval = "PENDING" => n = 0 /\ \A r \in Editors : e[r].pc \notin {"credit", "append"}
Settled(e, b, t, n) ==
    (\A r \in Editors : ~MovesAll(e[r])) =>
        /\ b.deleted => Fits(n, 0)
        /\ ~b.deleted /\ b.status # "CANCELLED" /\ b.approval # "PENDING" =>
              Fits(n, Cap(e, t))

WalletFits ==
    /\ NoLoss => net >= 0
    /\ Unearned(editor, board, net)
    /\ board.approval = "REJECTED" => board.status = "CANCELLED"
    /\ \A r \in Editors : Settles(editor[r], board, total, net)
    /\ Settled(editor, board, total, net)

ItemsInv == ItemsTyped /\ TotalFitsLines /\ KeepsAProduct /\ Editing /\ StockFits /\ WalletFits

-----------------------------------------------------------------------------
\* There are finitely many lines to sum over.
LEMMA LinesAreFinite == IsFiniteSet(AllLines)
BY ItemsAssumption, FS_Union DEF AllLines

\* A line's commission is an integer, and a free extra's is 0.
LEMMA ShareIsInt ==
    ASSUME NEW l \in AllLines
    PROVE  commissionOf(l) \in Int /\ (l \in Extras => commissionOf(l) = 0)
BY ItemsAssumption DEF AllLines, commissionOf

\* What is left of a number that may not fall below zero.
LEMMA OrZeroIsNat ==
    ASSUME NEW n \in Int
    PROVE  OrZero(n) \in Nat /\ OrZero(n) >= n /\ (n >= 0 => OrZero(n) = n) /\ (n <= 0 => OrZero(n) = 0)
BY DEF OrZero

\* The commission of a set of lines, line by line.
LEMMA SharesAdd ==
    ASSUME NEW S, S \subseteq AllLines
    PROVE  /\ commissionOfAll(S) \in Int
           /\ \A l \in S : commissionOfAll(S) = commissionOf(l) + commissionOfAll(S \ {l})
           /\ \A l \in AllLines : commissionOfAll(S \cup {l}) =
                 commissionOfAll(S) + IF l \in S THEN 0 ELSE commissionOf(l)
<1> DEFINE w == [l \in AllLines |-> commissionOf(l)]
<1>1. \A T : commissionOfAll(T) = SumFunctionOnSet(w, T)
  BY DEF commissionOfAll
<1>2. \A l \in AllLines : w[l] = commissionOf(l) /\ w[l] \in Int
  BY ShareIsInt
<1>3. \A T \in SUBSET AllLines : IsFiniteSet(T)
  BY LinesAreFinite, FS_Subset
<1> HIDE DEF w
<1>4. \A T \in SUBSET AllLines : SumFunctionOnSet(w, T) \in Int
  <2> SUFFICES ASSUME NEW T \in SUBSET AllLines PROVE SumFunctionOnSet(w, T) \in Int
    OBVIOUS
  <2>1. IsFiniteSet(T) /\ \A x \in T : w[x] \in Int
    BY <1>2, <1>3
  <2> QED
    BY <2>1, SumType
<1>5. \A l \in S : SumFunctionOnSet(w, S) = w[l] + SumFunctionOnSet(w, S \ {l})
  <2>1. IsFiniteSet(S) /\ \A x \in S : w[x] \in Int
    BY <1>2, <1>3
  <2> QED
    BY <2>1, SumTakes
<1>6. ASSUME NEW l \in AllLines, l \notin S
      PROVE  SumFunctionOnSet(w, S \cup {l}) = SumFunctionOnSet(w, S) + w[l]
  <2>1. IsFiniteSet(S) /\ \A x \in S \cup {l} : w[x] \in Int
    BY <1>2, <1>3
  <2> QED
    BY <2>1, <1>6, SumAdds
<1>7. commissionOfAll(S) \in Int
  BY <1>1, <1>4
<1>8. ASSUME NEW l \in AllLines
      PROVE  commissionOfAll(S \cup {l}) =
                commissionOfAll(S) + IF l \in S THEN 0 ELSE commissionOf(l)
  <2>1. CASE l \in S
    <3>1. S \cup {l} = S
      BY <2>1
    <3>2. commissionOfAll(S \cup {l}) = commissionOfAll(S)
      BY <3>1, Zenon
    <3> QED
      BY <3>2, <1>7, <2>1
  <2>2. CASE l \notin S
    BY <1>1, <1>2, <1>6, <2>2
  <2> QED
    BY <2>1, <2>2
<1> QED
  BY <1>1, <1>2, <1>5, <1>7, <1>8

\* What a set of lines earns, line by line, leaving the losses out.
LEMMA GainsAdd ==
    ASSUME NEW S, S \subseteq AllLines
    PROVE  /\ gainOfAll(S) \in Nat
           /\ \A l \in AllLines : l \notin S =>
                 gainOfAll(S \cup {l}) = gainOfAll(S) + OrZero(commissionOf(l))
<1> DEFINE w == [l \in AllLines |-> OrZero(commissionOf(l))]
<1>1. \A T : gainOfAll(T) = SumFunctionOnSet(w, T)
  BY DEF gainOfAll
<1>2. \A l \in AllLines : w[l] = OrZero(commissionOf(l)) /\ w[l] \in Nat
  BY ShareIsInt, OrZeroIsNat
<1>3. IsFiniteSet(S)
  BY LinesAreFinite, FS_Subset
<1> HIDE DEF w
<1>4. SumFunctionOnSet(w, S) \in Nat
  <2>1. \A x \in S : w[x] \in Nat
    BY <1>2
  <2> QED
    BY <1>3, <2>1, SumType
<1>5. ASSUME NEW l \in AllLines, l \notin S
      PROVE  SumFunctionOnSet(w, S \cup {l}) = SumFunctionOnSet(w, S) + w[l]
  <2>1. \A x \in S \cup {l} : w[x] \in Int
    BY <1>2
  <2> QED
    BY <1>3, <1>5, <2>1, SumAdds
<1> QED
  BY <1>1, <1>2, <1>4, <1>5

\* Without a loss among them, lines earn at least what one of them earns.
LEMMA NoLossAddsUp ==
    ASSUME NoLoss, NEW S, S \subseteq placed \cup Extras, placed \subseteq Bought
    PROVE  /\ commissionOfAll(S) >= 0
           /\ \A l \in S : commissionOf(l) >= 0 /\ commissionOf(l) <= commissionOfAll(S)
<1> DEFINE w == [l \in AllLines |-> commissionOf(l)]
<1>1. \A T : commissionOfAll(T) = SumFunctionOnSet(w, T)
  BY DEF commissionOfAll
<1>2. S \subseteq AllLines
  BY DEF AllLines
<1>3. \A l \in S : w[l] = commissionOf(l) /\ w[l] \in Nat
  <2> SUFFICES ASSUME NEW l \in S PROVE commissionOf(l) \in Nat
    BY <1>2
  <2>1. commissionOf(l) \in Int /\ (l \in Extras => commissionOf(l) = 0)
    BY <1>2, ShareIsInt
  <2> QED
    BY <2>1 DEF NoLoss
<1> HIDE DEF w
<1>4. \A T \in SUBSET S : SumFunctionOnSet(w, T) \in Nat
  <2> SUFFICES ASSUME NEW T \in SUBSET S PROVE SumFunctionOnSet(w, T) \in Nat
    OBVIOUS
  <2>1. IsFiniteSet(T) /\ \A x \in T : w[x] \in Nat
    BY <1>2, <1>3, LinesAreFinite, FS_Subset
  <2> QED
    BY <2>1, SumType
<1>5. \A l \in S : SumFunctionOnSet(w, S) = w[l] + SumFunctionOnSet(w, S \ {l})
  <2>1. IsFiniteSet(S) /\ \A x \in S : w[x] \in Int
    BY <1>2, <1>3, LinesAreFinite, FS_Subset
  <2> QED
    BY <2>1, SumTakes
<1>6. SumFunctionOnSet(w, S) \in Nat
  BY <1>4
<1>7. ASSUME NEW l \in S
      PROVE  commissionOf(l) >= 0 /\ commissionOf(l) <= commissionOfAll(S)
  <2>1. SumFunctionOnSet(w, S \ {l}) \in Nat
    BY <1>4
  <2> QED
    BY <1>1, <1>3, <1>5, <1>6, <2>1
<1> QED
  BY <1>1, <1>6, <1>7

\* A line that earns nothing comes and goes unnoticed.
LEMMA FreeLine ==
    ASSUME NEW S, S \subseteq AllLines, NEW l \in AllLines, commissionOf(l) = 0
    PROVE  /\ commissionOfAll(S \cup {l}) = commissionOfAll(S)
           /\ commissionOfAll(S \ {l}) = commissionOfAll(S)
<1>1. S \ {l} \subseteq AllLines
  OBVIOUS
<1>2. commissionOfAll(S) \in Int /\ commissionOfAll(S \ {l}) \in Int
  BY <1>1, SharesAdd
<1>3. CASE l \in S
  <2>1. S \cup {l} = S
    BY <1>3
  <2>2. commissionOfAll(S \cup {l}) = commissionOfAll(S)
    BY <2>1, Zenon
  <2>3. commissionOfAll(S) = 0 + commissionOfAll(S \ {l})
    BY <1>3, SharesAdd
  <2> QED
    BY <1>2, <2>2, <2>3
<1>4. CASE l \notin S
  <2>1. S \ {l} = S
    BY <1>4
  <2>2. commissionOfAll(S \ {l}) = commissionOfAll(S)
    BY <2>1, Zenon
  <2>3. commissionOfAll(S \cup {l}) = commissionOfAll(S) + 0
    BY <1>4, SharesAdd
  <2> QED
    BY <1>2, <2>2, <2>3
<1> QED
  BY <1>3, <1>4

\* Of two lines, one is left when a line is pulled.
LEMMA MoreThanOne ==
    ASSUME NEW B, B \subseteq AllLines, Cardinality(B) > 1, NEW l
    PROVE  B \ {l} # {}
<1> SUFFICES ASSUME B \ {l} = {} PROVE FALSE
  OBVIOUS
<1>1. B \subseteq {l}
  OBVIOUS
<1>2. Cardinality({l}) = 1 /\ IsFiniteSet({l})
  BY FS_Singleton
<1>3. Cardinality(B) <= 1
  BY <1>1, <1>2, FS_Subset
<1>4. Cardinality(B) \in Nat
  BY LinesAreFinite, FS_Subset, FS_CardinalityType
<1> QED
  BY <1>3, <1>4

\* One editor moves: who is where with line l.
LEMMA HasStep ==
    ASSUME ItemsTyped, NEW r \in Editors, NEW q, editor' = [editor EXCEPT ![r] = q], NEW P, NEW l
    PROVE  /\ Has(editor', P, l) <=> Is(q, P, l) \/ Others(editor, r, P, l)
           /\ Has(editor, P, l) <=> Is(editor[r], P, l) \/ Others(editor, r, P, l)
BY DEF Has, Others, ItemsTyped

\* One editor moves on: what the editors hold of each other.
LEMMA EditingStep ==
    ASSUME ItemsTyped, Editing, NEW r \in Editors, NEW q, editor' = [editor EXCEPT ![r] = q],
           Carries(q, basket', board', units', slips'),
           \A x \in Editors : x # r => Carries(editor[x], basket', board', units', slips'),
           \A x \in Editors : x # r => Apart(q, editor[x]) /\ Apart(editor[x], q)
    PROVE  Editing'
<1>1. editor'[r] = q /\ \A x \in Editors : x # r => editor'[x] = editor[x]
  BY DEF ItemsTyped
<1>2. \A x \in Editors : Carries(editor'[x], basket', board', units', slips')
  BY <1>1
<1>3. \A x, y \in Editors : x # y => Apart(editor'[x], editor'[y])
  BY <1>1 DEF Editing
<1> QED
  BY <1>2, <1>3 DEF Editing

\* The same when all others rest: a move of the whole order.
LEMMA EditingAlone ==
    ASSUME ItemsTyped, Editing, NEW r \in Editors, NEW q, editor' = [editor EXCEPT ![r] = q],
           OneAtATime(r), q.line = NoLine, Carries(q, basket', board', units', slips')
    PROVE  Editing'
<1>1. \A x \in Editors : x # r => editor[x].pc = "idle" /\ editor[x].line = NoLine
  BY DEF OneAtATime, EditorAt, Editing, Carries
<1>2. \A x \in Editors : x # r => Carries(editor[x], basket', board', units', slips')
  BY <1>1 DEF Carries, Adding, Reversing
<1>3. \A x \in Editors : x # r => Apart(q, editor[x]) /\ Apart(editor[x], q)
  BY <1>1 DEF Apart, MovesAll
<1> QED
  BY <1>2, <1>3, EditingStep

\* Editor r has no line but l in hand; the basket differs in l alone.
OnlyLine(q, l) == q.line \in {l, NoLine}
Besides(B, C, l) == \A k \in AllLines : k # l => (k \in B <=> k \in C)

\* With nothing to be taken back, the wallet may hold the figure of the order.
LEMMA NothingReversed ==
    ASSUME NEW e, NEW t \in Int, Reversed(e) = {}
    PROVE  Cap(e, t) = OrZero(t)
<1>1. gainOfAll({}) = 0
  BY FS_EmptySet, SumStep DEF gainOfAll
<1> QED
  BY <1>1, OrZeroIsNat DEF Cap

\* The shares of the other lines are taken back by whoever did.
LEMMA ReversedStep ==
    ASSUME ItemsTyped, NEW r \in Editors, NEW q, editor' = [editor EXCEPT ![r] = q], NEW l,
           OnlyLine(q, l), OnlyLine(editor[r], l)
    PROVE  Reversed(editor') \ {l} = Reversed(editor) \ {l}
<1>1. \A k \in AllLines \ {l} : Has(editor', Reversing, k) <=> Has(editor, Reversing, k)
  <2> SUFFICES ASSUME NEW k \in AllLines \ {l}
               PROVE  Has(editor', Reversing, k) <=> Has(editor, Reversing, k)
    OBVIOUS
  <2>1. q.line # k /\ editor[r].line # k
    BY ItemsAssumption DEF AllLines, OnlyLine
  <2> QED
    BY <2>1 DEF Has, Is, ItemsTyped
<1> QED
  BY <1>1 DEF Reversed

\* What that does to the shares still to be taken back.
LEMMA GainStep ==
    ASSUME ItemsTyped, NEW r \in Editors, NEW q, editor' = [editor EXCEPT ![r] = q],
           NEW l \in AllLines, OnlyLine(q, l), OnlyLine(editor[r], l)
    PROVE  /\ gainOfAll(Reversed(editor)) \in Nat /\ gainOfAll(Reversed(editor')) \in Nat
           /\ (l \in Reversed(editor') <=> l \in Reversed(editor)) =>
                 gainOfAll(Reversed(editor')) = gainOfAll(Reversed(editor))
           /\ l \in Reversed(editor') /\ l \notin Reversed(editor) =>
                 gainOfAll(Reversed(editor')) = gainOfAll(Reversed(editor)) + OrZero(commissionOf(l))
           /\ l \notin Reversed(editor') /\ l \in Reversed(editor) =>
                 gainOfAll(Reversed(editor)) = gainOfAll(Reversed(editor')) + OrZero(commissionOf(l))
<1> DEFINE O == Reversed(editor)
           Q == Reversed(editor')
<1>1. O \subseteq AllLines /\ Q \subseteq AllLines
  BY DEF Reversed
<1>2. Q \ {l} = O \ {l}
  BY ReversedStep
<1> HIDE DEF O, Q
<1>3. gainOfAll(O) \in Nat /\ gainOfAll(Q) \in Nat
  BY <1>1, GainsAdd
<1>4. ASSUME l \in Q <=> l \in O
      PROVE  gainOfAll(Q) = gainOfAll(O)
  <2>1. Q = O
    BY <1>2, <1>4
  <2> QED
    BY <2>1, Zenon
<1>5. ASSUME l \in Q, l \notin O
      PROVE  gainOfAll(Q) = gainOfAll(O) + OrZero(commissionOf(l))
  <2>1. Q = O \cup {l}
    BY <1>2, <1>5
  <2> QED
    BY <1>1, <1>5, <2>1, GainsAdd
<1>6. ASSUME l \notin Q, l \in O
      PROVE  gainOfAll(O) = gainOfAll(Q) + OrZero(commissionOf(l))
  <2>1. O = Q \cup {l}
    BY <1>2, <1>6
  <2> QED
    BY <1>1, <1>6, <2>1, GainsAdd
<1> QED
  BY <1>3, <1>4, <1>5, <1>6 DEF O, Q

\* An edit that leaves the wallet alone, and what it may hold large enough.
LEMMA WalletStep ==
    ASSUME ItemsTyped, Editing, WalletFits, NEW r \in Editors, NEW q,
           editor' = [editor EXCEPT ![r] = q],
           \A x \in Editors : x # r => ~MovesAll(editor[x]),
           ~MovesAll(editor[r]), ~MovesAll(q), q.pc \notin {"credit", "sum"},
           q.pc = "append" => board.approval # "PENDING" /\ Reverses(q, net),
           net' = net, placed' = placed,
           board'.deleted = board.deleted, board'.approval = board.approval,
           board'.status = board.status \/ (board.status = "ON_SHELF" /\ board'.status = "GONE"),
           board.approval # "PENDING" /\ Fits(net, Cap(editor, total)) =>
              Fits(net, Cap(editor', total'))
    PROVE  WalletFits'
<1>1. editor'[r] = q /\ \A x \in Editors : x # r => editor'[x] = editor[x]
  BY DEF ItemsTyped
<1>2. \A x \in Editors : editor[x].pc \in {"sum", "credit"} => MovesAll(editor[x])
  BY DEF Editing, Carries, MovesAll
<1>3. \A x \in Editors : ~MovesAll(editor[x]) /\ ~MovesAll(editor'[x])
                         /\ editor'[x].pc \notin {"sum", "credit"}
  BY <1>1, <1>2
<1>4. Unearned(editor', board', net')
  BY <1>1 DEF WalletFits, Unearned
<1>5. board'.approval = "REJECTED" => board'.status = "CANCELLED"
  BY DEF WalletFits
<1>6. NoLoss' <=> NoLoss
  BY DEF NoLoss
<1>7. ASSUME NEW x \in Editors
      PROVE  Settles(editor[x], board, total, net)'
  <2>1. /\ editor'[x].pc \notin {"sum", "credit"}
        /\ editor'[x].pc = "append" => editor'[x].line # NoLine
    BY <1>3 DEF MovesAll
  <2>2. Reverses(editor'[x], net)
    BY <1>1 DEF WalletFits, Settles, Reverses
  <2>3. Reverses(editor[x], net)'
    BY <1>6, <2>2 DEF Reverses
  <2> QED
    BY <2>1, <2>3 DEF Settles
<1>8. Settled(editor, board, total, net)'
  BY <1>3, <1>6 DEF WalletFits, Settled, Fits
<1>9. Unearned(editor, board, net)'
  BY <1>4
<1>10. (NoLoss => net >= 0)'
  BY <1>6 DEF WalletFits
<1> QED
  BY <1>5, <1>7, <1>8, <1>9, <1>10 DEF WalletFits

-----------------------------------------------------------------------------
\* A placed order: nobody edits, every line holds its unit and its share.
LEMMA ItemsStart ==
    ASSUME ItemsInit
    PROVE  ItemsInv
<1>1. \A x \in Editors : editor[x] = Free
  BY DEF ItemsInit
<1>2. \A x \in Editors : editor[x].pc = "idle" /\ editor[x].line = NoLine
  BY <1>1 DEF Free
<1>3. /\ basket \subseteq AllLines /\ basket # {} /\ placed \subseteq Bought
      /\ basket \subseteq placed \cup Extras
  <2>1. basket \in (SUBSET Bought) \ {{}} /\ placed = basket
    BY DEF ItemsInit
  <2> QED
    BY <2>1 DEF AllLines
<1>4. total = commissionOfAll(basket) /\ total \in Int
  BY <1>3, SharesAdd DEF ItemsInit
<1>5. /\ board \in Board /\ board.status = "ON_SHELF" /\ ~board.deleted
      /\ board.approval \in {"NONE", "PENDING"}
      /\ board.approval = "PENDING" => net = 0
      /\ board.approval = "NONE" => net = OrZero(total)
      /\ net \in Int
  <2>1. PICK type \in SaleTypes :
           /\ board = [status |-> "ON_SHELF", deleted |-> FALSE,
                        approval |-> IF type = "kit" THEN "PENDING" ELSE "NONE"]
           /\ net = IF type = "kit" THEN 0 ELSE OrZero(total)
    BY DEF ItemsInit
  <2> QED
    BY <1>4, <2>1, OrZeroIsNat DEF Board
<1>6. Free \in Editor
  BY DEF Free, Editor
<1>7. ItemsTyped
  BY <1>3, <1>4, <1>5, <1>6 DEF ItemsInit, ItemsTyped
<1>8. Editing
  BY <1>2 DEF Editing, Carries, Apart, Adding, Reversing, MovesAll
<1>9. \A l \in AllLines, P \in {Taking, Returning, Reversing} : ~Has(editor, P, l)
  BY <1>2 DEF Has, Is, Taking, Returning, Reversing
<1>10. StockFits
  <2> SUFFICES ASSUME NEW l \in AllLines
               PROVE  UnitsFit(l, editor, basket, board, units)
    BY DEF StockFits
  <2>1. units[l] = IF l \in basket THEN 1 ELSE 0
    BY DEF ItemsInit
  <2>2. ~Has(editor, Taking, l) /\ ~Has(editor, Returning, l)
    BY <1>9
  <2> QED
    BY <1>5, <2>1, <2>2 DEF UnitsFit, One, Holds
<1>11. Cap(editor, total) = OrZero(total)
  <2>1. Reversed(editor) = {}
    BY <1>9 DEF Reversed
  <2> QED
    BY <1>4, <2>1, NothingReversed
<1>12. WalletFits
  BY <1>2, <1>4, <1>5, <1>11, OrZeroIsNat
  DEF WalletFits, Unearned, Settles, Reverses, Settled, Fits
<1> QED
  BY <1>3, <1>4, <1>7, <1>8, <1>10, <1>12 DEF ItemsInv, TotalFitsLines, KeepsAProduct

\* The order is open to editors, and it holds its stock.
LEMMA EditableHolds ==
    ASSUME ItemsTyped, Editable
    PROVE  Holds(board) /\ ~board.deleted /\ board.status # "CANCELLED" /\ board.approval # "REJECTED"
BY DEF Editable, Holds

\* The units of a line nobody touches.
LEMMA UnitsStay ==
    ASSUME NEW l, NEW e, NEW f, NEW B, NEW C, NEW b, NEW c, NEW u, NEW v,
           Has(f, Taking, l) <=> Has(e, Taking, l),
           Has(f, Returning, l) <=> Has(e, Returning, l),
           l \in C /\ Holds(c) <=> l \in B /\ Holds(b), v[l] = u[l],
           UnitsFit(l, e, B, b, u)
    PROVE  UnitsFit(l, f, C, c, v)
BY DEF UnitsFit, One

\* Editor r edits line l and no other: it goes on with q.
Edits(r, q, l) ==
    /\ q \in Editor /\ editor' = [editor EXCEPT ![r] = q]
    /\ l \in AllLines /\ OnlyLine(q, l) /\ OnlyLine(editor[r], l)
    /\ Besides(basket, basket', l) /\ basket' \subseteq AllLines
    /\ ~MovesAll(editor[r]) /\ ~MovesAll(q) /\ q.pc \notin {"credit", "sum"}
    /\ q.pc = "append" => board.approval # "PENDING" /\ Reverses(q, net)
    /\ net' = net /\ placed' = placed /\ board' = board /\ total' \in Int
    /\ basket' \subseteq placed \cup Extras
    /\ units' \in [AllLines -> Int] /\ \A k \in AllLines : k # l => units'[k] = units[k]
    /\ slips' \in Nat /\ (slips' = 0 => slips = 0)

\* It leaves the others what they rely on.
Allows(r, q) ==
    /\ Carries(q, basket', board', units', slips')
    /\ \A x \in Editors : x # r =>
          /\ ~MovesAll(editor[x]) /\ Carries(editor[x], basket', board', units', slips')
          /\ Apart(q, editor[x]) /\ Apart(editor[x], q)

\* The line's units stay in step with it, and the wallet with the order's figure.
LineFits(l) ==
    /\ l \in basket' \/ slips' = 0 => UnitsFit(l, editor', basket', board', units')
    /\ board.approval # "PENDING" /\ Fits(net, Cap(editor, total)) =>
          Fits(net, Cap(editor', total'))

\* An edit that spares the others and keeps its own line in step keeps all.
LEMMA LineStep ==
    ASSUME ItemsInv, NEW r \in Editors, NEW q, NEW l, Edits(r, q, l), Allows(r, q), LineFits(l),
           TotalFitsLines', KeepsAProduct'
    PROVE  ItemsInv'
<1>1. ItemsTyped /\ Editing /\ StockFits /\ WalletFits
  BY DEF ItemsInv
<1>2. ItemsTyped'
  BY <1>1 DEF ItemsTyped, Edits
<1>3. editor' = [editor EXCEPT ![r] = q] /\ l \in AllLines /\ basket \subseteq AllLines
  BY <1>1 DEF Edits, ItemsTyped
<1>4. OnlyLine(q, l) /\ OnlyLine(editor[r], l) /\ Besides(basket, basket', l) /\ basket' \subseteq AllLines
  BY DEF Edits
<1>5. Editing'
  BY <1>1, <1>3, EditingStep DEF Allows
<1>6. StockFits'
  <2> SUFFICES ASSUME NEW k \in AllLines, k \in basket' \/ slips' = 0
               PROVE  UnitsFit(k, editor', basket', board', units')
    BY DEF StockFits
  <2>1. CASE k = l
    BY <2>1 DEF LineFits
  <2>2. CASE k # l
    <3>1. UnitsFit(k, editor, basket, board, units)
      BY <1>1, <2>2 DEF StockFits, Besides, Edits
    <3>2. q.line # k /\ editor[r].line # k
      BY <2>2, <1>4, ItemsAssumption DEF AllLines, OnlyLine
    <3>3. /\ Has(editor', Taking, k) <=> Has(editor, Taking, k)
          /\ Has(editor', Returning, k) <=> Has(editor, Returning, k)
      BY <1>1, <1>3, <3>2, HasStep DEF Is
    <3>4. units'[k] = units[k] /\ (k \in basket' <=> k \in basket) /\ board' = board
      BY <2>2 DEF Besides, Edits
    <3> QED
      BY <3>1, <3>3, <3>4 DEF UnitsFit, One
  <2> QED
    BY <2>1, <2>2
<1>7. WalletFits'
  <2>1. board.approval # "PENDING" /\ Fits(net, Cap(editor, total)) =>
           Fits(net, Cap(editor', total'))
    BY DEF LineFits
  <2>2. /\ board'.deleted = board.deleted /\ board'.approval = board.approval
        /\ board'.status = board.status /\ net' = net /\ placed' = placed
        /\ ~MovesAll(editor[r]) /\ ~MovesAll(q) /\ q.pc \notin {"credit", "sum"}
        /\ q.pc = "append" => board.approval # "PENDING" /\ Reverses(q, net)
    BY DEF Edits
  <2>3. \A x \in Editors : x # r => ~MovesAll(editor[x])
    BY DEF Allows
  <2> QED
    BY <1>1, <1>3, <2>1, <2>2, <2>3, WalletStep
<1> QED
  BY <1>2, <1>5, <1>6, <1>7 DEF ItemsInv

\* An edit that leaves the figure of the order and its own share alone.
LEMMA CapStays ==
    ASSUME ItemsTyped, NEW r \in Editors, NEW q, editor' = [editor EXCEPT ![r] = q],
           NEW l \in AllLines, OnlyLine(q, l), OnlyLine(editor[r], l), total' = total,
           \/ q.pc \notin Reversing /\ editor[r].pc \notin Reversing
           \/ Is(q, Reversing, l) /\ Is(editor[r], Reversing, l)
    PROVE  Fits(net, Cap(editor, total)) => Fits(net, Cap(editor', total'))
<1>1. Is(q, Reversing, l) <=> Is(editor[r], Reversing, l)
  BY DEF Is
<1>2. Has(editor', Reversing, l) <=> Has(editor, Reversing, l)
  BY <1>1, HasStep
<1>3. l \in Reversed(editor') <=> l \in Reversed(editor)
  BY <1>2 DEF Reversed
<1>4. gainOfAll(Reversed(editor')) = gainOfAll(Reversed(editor))
  BY <1>3, GainStep
<1> QED
  BY <1>4 DEF Cap, Fits

\* What every edit starts from.
LEMMA EditStarts ==
    ASSUME ItemsInv, NEW r \in Editors, \A x \in Editors \ {r} : ~MovesOrder(x)
    PROVE  /\ ItemsTyped /\ TotalFitsLines /\ KeepsAProduct /\ Editing /\ StockFits /\ WalletFits
           /\ \A x \in Editors : x # r => ~MovesAll(editor[x])
           /\ \A x \in Editors : editor[x].pc = "idle" => editor[x].line = NoLine
           /\ NoLine \notin AllLines
BY ItemsAssumption DEF ItemsInv, MovesOrder, MovesAll, EditorAt, AllLines, Editing, Carries

\* addItem reads: a line of its own, in no one's hands.
LEMMA AddIsRead ==
    ASSUME ItemsInv, NEW r \in Editors, NEW l \in Extras, ReadForAdd(r, l),
           \A x \in Editors \ {r} : ~MovesOrder(x)
    PROVE  ItemsInv'
<1> DEFINE q == Busy("push", l, 0)
<1>1. /\ ItemsTyped /\ TotalFitsLines /\ KeepsAProduct /\ Editing /\ StockFits /\ WalletFits
      /\ \A x \in Editors : x # r => ~MovesAll(editor[x])
      /\ \A x \in Editors : editor[x].pc = "idle" => editor[x].line = NoLine
      /\ NoLine \notin AllLines
  BY EditStarts
<1>2. /\ UNCHANGED <<basket, placed, board, total, units, net, slips>>
      /\ editor[r].pc = "idle" /\ editor' = [editor EXCEPT ![r] = q]
      /\ l \notin basket /\ units[l] = 0 /\ \A x \in Editors : editor[x].line # l
  BY DEF ReadForAdd, Then, EditorAt
<1>3. l \in AllLines /\ l # NoLine
  BY <1>1 DEF AllLines
<1>4. q \in Editor /\ q.pc = "push" /\ q.line = l
  BY <1>3 DEF Editor, Busy
<1>5. ~board.deleted /\ board.status # "CANCELLED" /\ board.approval # "REJECTED"
  BY <1>1, EditableHolds DEF ReadForAdd
<1> HIDE DEF q
<1>6. ~MovesAll(editor[r]) /\ ~MovesAll(q)
  BY <1>2, <1>3, <1>4 DEF MovesAll
<1>7. OnlyLine(q, l) /\ OnlyLine(editor[r], l) /\ Besides(basket, basket', l)
  BY <1>1, <1>2, <1>4 DEF OnlyLine, Besides
<1>8. Carries(q, basket', board', units', slips')
  BY <1>2, <1>3, <1>4, <1>5 DEF Carries, Adding, Reversing
<1>9. \A x \in Editors : x # r => Carries(editor[x], basket', board', units', slips')
  BY <1>1, <1>2 DEF Editing
<1>10. \A x \in Editors : x # r => Apart(q, editor[x]) /\ Apart(editor[x], q)
  BY <1>1, <1>2, <1>4, <1>6 DEF Apart
<1>11. l \in basket' \/ slips' = 0 => UnitsFit(l, editor', basket', board', units')
  <2>1. l \in basket \/ slips = 0 => UnitsFit(l, editor, basket, board, units)
    BY <1>1, <1>3 DEF StockFits
  <2>2. /\ q.pc \notin Taking /\ editor[r].pc \notin Taking
        /\ q.pc \notin Returning /\ editor[r].pc \notin Returning
    BY <1>2, <1>4 DEF Taking, Returning
  <2>3. /\ Has(editor', Taking, l) <=> Has(editor, Taking, l)
        /\ Has(editor', Returning, l) <=> Has(editor, Returning, l)
    BY <1>1, <1>2, <2>2, HasStep DEF Is
  <2> QED
    BY <1>2, <2>1, <2>3, UnitsStay
<1>12. Fits(net, Cap(editor, total)) => Fits(net, Cap(editor', total'))
  <2>1. q.pc \notin Reversing /\ editor[r].pc \notin Reversing
    BY <1>2, <1>4 DEF Reversing
  <2> QED
    BY <1>1, <1>2, <1>3, <1>7, <2>1, CapStays
<1>13. TotalFitsLines' /\ KeepsAProduct'
  BY <1>1, <1>2 DEF TotalFitsLines, NoLoss, KeepsAProduct
<1>14. Edits(r, q, l)
  BY <1>1, <1>2, <1>3, <1>4, <1>6, <1>7 DEF ItemsTyped, Edits
<1>15. Allows(r, q) /\ LineFits(l)
  BY <1>1, <1>8, <1>9, <1>10, <1>11, <1>12 DEF Allows, LineFits
<1> QED
  BY <1>13, <1>14, <1>15, LineStep

\* addItem pushes: the line's unit is to be taken, or the order is closed.
LEMMA LineIsPushed ==
    ASSUME ItemsInv, NEW r \in Editors, PushLine(r),
           \A x \in Editors \ {r} : ~MovesOrder(x)
    PROVE  ItemsInv'
<1>1. /\ ItemsTyped /\ TotalFitsLines /\ KeepsAProduct /\ Editing /\ StockFits /\ WalletFits
      /\ \A x \in Editors : x # r => ~MovesAll(editor[x])
      /\ \A x \in Editors : editor[x].pc = "idle" => editor[x].line = NoLine
      /\ NoLine \notin AllLines
  BY EditStarts
<1>0. PICK l : l = editor[r].line
  OBVIOUS
<1>2. /\ UNCHANGED <<placed, board, total, units, net, slips>> /\ editor[r].pc = "push"
      /\ \/ /\ Editable /\ basket' = basket \cup {l}
            /\ editor' = [editor EXCEPT ![r] = [editor[r] EXCEPT !.pc = "take"]]
         \/ /\ UNCHANGED basket /\ editor' = [editor EXCEPT ![r] = Free]
  BY <1>0 DEF PushLine, Then, EditorAt
<1>3. /\ l \in Extras /\ l \in AllLines /\ l # NoLine /\ l \notin basket /\ units[l] = 0
      /\ ~board.deleted /\ board.status # "CANCELLED" /\ board.approval # "REJECTED"
      /\ \A x \in Editors : x # r => editor[x].line # l
  BY <1>0, <1>1, <1>2 DEF Editing, Carries, Apart, Adding, Reversing, AllLines
<1>4. commissionOf(l) = 0
  BY <1>3, ShareIsInt
<1>5. ~MovesAll(editor[r])
  BY <1>0, <1>3 DEF MovesAll
<1> DEFINE Step(q) == /\ q \in Editor /\ q.pc \notin {"push", "undo", "tidy", "return", "net", "append", "credit", "sum"}
                      /\ editor' = [editor EXCEPT ![r] = q]
                      /\ \/ q.pc = "take" /\ q.line = l /\ Editable /\ basket' = basket \cup {l}
                         \/ q.pc = "idle" /\ q.line = NoLine /\ basket' = basket
<1>6. \E q : Step(q)
  <2>1. CASE /\ Editable /\ basket' = basket \cup {l}
             /\ editor' = [editor EXCEPT ![r] = [editor[r] EXCEPT !.pc = "take"]]
    <3>1. Step([editor[r] EXCEPT !.pc = "take"])
      BY <1>0, <1>1, <1>2, <2>1 DEF ItemsTyped, Editor
    <3> QED
      BY <3>1
  <2>2. CASE UNCHANGED basket /\ editor' = [editor EXCEPT ![r] = Free]
    <3>1. Step(Free)
      BY <2>2 DEF Free, Editor
    <3> QED
      BY <3>1
  <2> QED
    BY <1>2, <2>1, <2>2
<1>7. PICK q : Step(q)
  BY <1>6
<1>8. ~MovesAll(q) /\ OnlyLine(q, l) /\ OnlyLine(editor[r], l) /\ Besides(basket, basket', l)
  BY <1>0, <1>3, <1>7 DEF MovesAll, OnlyLine, Besides
<1>9. Carries(q, basket', board', units', slips')
  BY <1>2, <1>3, <1>7 DEF Carries, Adding, Reversing
<1>10. \A x \in Editors : x # r => Carries(editor[x], basket', board', units', slips')
  <2> SUFFICES ASSUME NEW x \in Editors, x # r
               PROVE  Carries(editor[x], basket', board', units', slips')
    OBVIOUS
  <2>1. Carries(editor[x], basket, board, units, slips) /\ editor[x].line # l
    BY <1>1, <1>3 DEF Editing
  <2> QED
    BY <1>2, <1>7, <2>1 DEF Carries
<1>11. \A x \in Editors : x # r => Apart(q, editor[x]) /\ Apart(editor[x], q)
  BY <1>1, <1>3, <1>7, <1>8 DEF Apart
<1>12. l \in basket' \/ slips' = 0 => UnitsFit(l, editor', basket', board', units')
  <2>1. l \in basket \/ slips = 0 => UnitsFit(l, editor, basket, board, units)
    BY <1>1, <1>3 DEF StockFits
  <2>2. editor' = [editor EXCEPT ![r] = q] /\ editor[r].pc = "push" /\ editor[r].line = l
    BY <1>0, <1>2, <1>7
  <2>3. /\ Has(editor', Taking, l) <=> Is(q, Taking, l)
        /\ Has(editor', Returning, l) <=> Is(q, Returning, l)
    <3>1. ~Others(editor, r, Taking, l) /\ ~Others(editor, r, Returning, l)
      BY <1>3 DEF Others, Is
    <3> QED
      BY <1>1, <2>2, <3>1, HasStep
  <2>4. ~Has(editor', Returning, l)
    BY <1>7, <2>3 DEF Is, Returning
  <2>5. CASE q.pc = "take" /\ q.line = l /\ Editable /\ basket' = basket \cup {l}
    <3>1. Has(editor', Taking, l)
      BY <2>3, <2>5 DEF Is, Taking
    <3>2. Holds(board)
      BY <1>1, <2>5, EditableHolds
    <3> QED
      BY <1>2, <1>3, <2>4, <2>5, <3>1, <3>2 DEF UnitsFit, One
  <2>6. CASE q.pc = "idle" /\ q.line = NoLine /\ basket' = basket
    <3>1. ~Has(editor', Taking, l)
      BY <2>3, <2>6 DEF Is, Taking
    <3> QED
      BY <1>2, <1>3, <2>4, <2>6, <3>1 DEF UnitsFit, One
  <2> QED
    BY <1>7, <2>5, <2>6
<1>13. TotalFitsLines' /\ KeepsAProduct' /\ basket' \subseteq AllLines
  <2>1. basket \subseteq AllLines
    BY <1>1 DEF ItemsTyped
  <2>2. commissionOfAll(basket \cup {l}) = commissionOfAll(basket)
    BY <1>3, <1>4, <2>1, FreeLine
  <2>3. basket' = basket \/ basket' = basket \cup {l}
    BY <1>7
  <2>4. commissionOfAll(basket') = commissionOfAll(basket)
    BY <2>2, <2>3
  <2> QED
    BY <1>1, <1>2, <1>3, <2>1, <2>3, <2>4 DEF TotalFitsLines, NoLoss, KeepsAProduct
<1>14. Edits(r, q, l)
  BY <1>1, <1>2, <1>3, <1>5, <1>7, <1>8, <1>13 DEF ItemsTyped, Edits
<1>16. Fits(net, Cap(editor, total)) => Fits(net, Cap(editor', total'))
  <2>1. q.pc \notin Reversing /\ editor[r].pc \notin Reversing
    BY <1>2, <1>7 DEF Reversing
  <2> QED
    BY <1>1, <1>2, <1>3, <1>7, <1>8, <2>1, CapStays
<1>15. Allows(r, q) /\ LineFits(l)
  BY <1>1, <1>16, <1>9, <1>10, <1>11, <1>12 DEF Allows, LineFits
<1> QED
  BY <1>13, <1>14, <1>15, LineStep

\* removeItem reads: it carries the line's share from here on.
LEMMA RemovalIsRead ==
    ASSUME ItemsInv, NEW r \in Editors, NEW l \in AllLines, ReadForRemove(r, l),
           \A x \in Editors \ {r} : ~MovesOrder(x)
    PROVE  ItemsInv'
<1>1. /\ ItemsTyped /\ TotalFitsLines /\ KeepsAProduct /\ Editing /\ StockFits /\ WalletFits
      /\ \A x \in Editors : x # r => ~MovesAll(editor[x])
      /\ \A x \in Editors : editor[x].pc = "idle" => editor[x].line = NoLine
      /\ NoLine \notin AllLines
  BY EditStarts
<1> DEFINE q == Busy("pull", l, commissionOf(l))
<1>2. /\ UNCHANGED <<basket, placed, board, total, units, net, slips>>
      /\ editor[r].pc = "idle" /\ editor' = [editor EXCEPT ![r] = q] /\ l \in basket
  BY DEF ReadForRemove, Then, EditorAt
<1>3. q \in Editor /\ q.pc = "pull" /\ q.line = l /\ q.amount = commissionOf(l) /\ l # NoLine
  BY <1>1, ShareIsInt DEF Editor, Busy
<1>4. ~board.deleted /\ board.status # "CANCELLED" /\ board.approval # "REJECTED"
  BY <1>1, EditableHolds DEF ReadForRemove
<1> HIDE DEF q
<1>5. ~MovesAll(editor[r]) /\ ~MovesAll(q)
  BY <1>2, <1>3 DEF MovesAll
<1>6. OnlyLine(q, l) /\ OnlyLine(editor[r], l) /\ Besides(basket, basket', l)
  BY <1>1, <1>2, <1>3 DEF OnlyLine, Besides
<1>7. Carries(q, basket', board', units', slips')
  BY <1>2, <1>3, <1>4 DEF Carries, Adding, Reversing
<1>8. \A x \in Editors : x # r => Carries(editor[x], basket', board', units', slips')
  BY <1>1, <1>2 DEF Editing
<1>9. \A x \in Editors : x # r => Apart(q, editor[x]) /\ Apart(editor[x], q)
  <2> SUFFICES ASSUME NEW x \in Editors, x # r
               PROVE  Apart(q, editor[x]) /\ Apart(editor[x], q)
    OBVIOUS
  <2>1. ~MovesAll(editor[x]) /\ (editor[x].line = l => editor[x].pc # "push")
    BY <1>1, <1>2 DEF Editing, Carries
  <2> QED
    BY <1>3, <1>5, <2>1 DEF Apart, Adding, Reversing
<1>10. Is(q, Taking, l) = Is(editor[r], Taking, l) /\ Is(q, Returning, l) = Is(editor[r], Returning, l)
       /\ Is(q, Reversing, l) = Is(editor[r], Reversing, l)
  BY <1>2, <1>3 DEF Is, Taking, Returning, Reversing
<1>11. /\ Has(editor', Taking, l) <=> Has(editor, Taking, l)
       /\ Has(editor', Returning, l) <=> Has(editor, Returning, l)
       /\ Has(editor', Reversing, l) <=> Has(editor, Reversing, l)
  BY <1>1, <1>2, <1>10, HasStep
<1>12. l \in basket' \/ slips' = 0 => UnitsFit(l, editor', basket', board', units')
  <2>1. l \in basket \/ slips = 0 => UnitsFit(l, editor, basket, board, units)
    BY <1>1 DEF StockFits
  <2> QED
    BY <1>2, <1>11, <2>1, UnitsStay
<1>13. Fits(net, Cap(editor, total)) => Fits(net, Cap(editor', total'))
  <2>1. q.pc \notin Reversing /\ editor[r].pc \notin Reversing
    BY <1>2, <1>3 DEF Reversing
  <2> QED
    BY <1>1, <1>2, <1>6, <2>1, CapStays
<1>14. TotalFitsLines' /\ KeepsAProduct'
  BY <1>1, <1>2 DEF TotalFitsLines, NoLoss, KeepsAProduct
<1>20. Edits(r, q, l)
  BY <1>1, <1>2, <1>3, <1>5, <1>6 DEF ItemsTyped, Edits
<1>21. Allows(r, q) /\ LineFits(l)
  BY <1>1, <1>7, <1>8, <1>9, <1>12, <1>13 DEF Allows, LineFits
<1> QED
  BY <1>14, <1>20, <1>21, LineStep

\* addItem takes the unit, or the write failed.
LEMMA AddedIsTaken ==
    ASSUME ItemsInv, NEW r \in Editors, TakeAdded(r),
           \A x \in Editors \ {r} : ~MovesOrder(x)
    PROVE  ItemsInv'
<1>1. /\ ItemsTyped /\ TotalFitsLines /\ KeepsAProduct /\ Editing /\ StockFits /\ WalletFits
      /\ \A x \in Editors : x # r => ~MovesAll(editor[x])
      /\ \A x \in Editors : editor[x].pc = "idle" => editor[x].line = NoLine
      /\ NoLine \notin AllLines
  BY EditStarts
<1>2. PICK l : l = editor[r].line
  OBVIOUS
<1>3. /\ UNCHANGED <<basket, placed, board, total, net>> /\ editor[r].pc = "take"
      /\ l \in Extras /\ l \in AllLines /\ l # NoLine
      /\ ~board.deleted /\ board.status # "CANCELLED" /\ board.approval # "REJECTED"
      /\ \A x \in Editors : x # r => ~(editor[x].pc \in Adding /\ editor[x].line = l)
  <2>1. editor[r].pc = "take"
    BY DEF TakeAdded, EditorAt
  <2> QED
    BY <1>1, <1>2, <2>1 DEF TakeAdded, Editing, Carries, Apart, Adding, AllLines
<1> DEFINE Step(q) ==
       /\ q \in Editor /\ editor' = [editor EXCEPT ![r] = q]
       /\ \A k \in AllLines : k # l => units'[k] = units[k]
       /\ units' \in [AllLines -> Int]
       /\ \/ q.pc = "idle" /\ q.line = NoLine /\ units'[l] = units[l] + 1 /\ slips' = slips
          \/ q.pc = "undo" /\ q.line = l /\ units'[l] = units[l] /\ slips' = slips + 1
<1>5. \E q : Step(q)
  <2>1. CASE Move({editor[r].line}, 1) /\ Then(r, Free) /\ UNCHANGED slips
    <3>1. Step(Free)
      BY <1>1, <1>2, <1>3, <2>1 DEF Free, Editor, Then, Move, ItemsTyped
    <3> QED
      BY <3>1
  <2>2. CASE slips' = slips + 1 /\ Then(r, [editor[r] EXCEPT !.pc = "undo"]) /\ UNCHANGED units
    <3>1. Step([editor[r] EXCEPT !.pc = "undo"])
      BY <1>1, <1>2, <1>3, <2>2 DEF Editor, Then, ItemsTyped
    <3> QED
      BY <3>1
  <2> QED
    BY <2>1, <2>2 DEF TakeAdded
<1>6. PICK q : Step(q)
  BY <1>5
<1>7. ~MovesAll(editor[r]) /\ ~MovesAll(q) /\ q.pc \in {"idle", "undo"}
  BY <1>2, <1>3, <1>6 DEF MovesAll
<1>8. OnlyLine(q, l) /\ OnlyLine(editor[r], l) /\ Besides(basket, basket', l)
  BY <1>2, <1>3, <1>6 DEF OnlyLine, Besides
<1>9. slips \in Nat /\ slips' \in Nat /\ slips' >= slips /\ (q.pc = "undo" => slips' > 0)
  BY <1>1, <1>6 DEF ItemsTyped
<1>10. Carries(q, basket', board', units', slips')
  BY <1>3, <1>6, <1>9 DEF Carries, Adding, Reversing
<1>11. \A x \in Editors : x # r => Carries(editor[x], basket', board', units', slips')
  <2> SUFFICES ASSUME NEW x \in Editors, x # r
               PROVE  Carries(editor[x], basket', board', units', slips')
    OBVIOUS
  <2>1. Carries(editor[x], basket, board, units, slips)
    BY <1>1 DEF Editing
  <2>2. editor[x].pc = "push" => editor[x].line # l /\ editor[x].line \in AllLines
    BY <1>3, <2>1 DEF Carries, Adding, AllLines
  <2>3. editor[x].pc = "push" => units'[editor[x].line] = units[editor[x].line]
    BY <1>6, <2>2
  <2> QED
    BY <1>3, <1>9, <2>1, <2>3 DEF Carries
<1>12. \A x \in Editors : x # r => Apart(q, editor[x]) /\ Apart(editor[x], q)
  BY <1>1, <1>2, <1>3, <1>6, <1>7 DEF Editing, Apart, Adding, Reversing
<1>13. l \in basket' \/ slips' = 0 => UnitsFit(l, editor', basket', board', units')
  <2>1. l \in basket' \/ slips' = 0 => UnitsFit(l, editor, basket, board, units)
    BY <1>1, <1>3, <1>9 DEF StockFits
  <2>2. Is(editor[r], Taking, l) /\ ~Is(editor[r], Returning, l) /\ ~Is(q, Returning, l)
        /\ (Is(q, Taking, l) <=> q.pc = "undo")
    BY <1>2, <1>3, <1>6 DEF Is, Taking, Returning
  <2>3. ~Others(editor, r, Taking, l)
    BY <1>3 DEF Others, Is, Taking, Adding
  <2>4. /\ Has(editor', Returning, l) <=> Has(editor, Returning, l)
        /\ Has(editor, Taking, l)
        /\ Has(editor', Taking, l) <=> q.pc = "undo"
    BY <1>1, <1>6, <2>2, <2>3, HasStep
  <2>5. units[l] \in Int
    BY <1>1, <1>3 DEF ItemsTyped
  <2> QED
    BY <1>3, <1>6, <2>1, <2>4, <2>5 DEF UnitsFit, One
<1>4. Fits(net, Cap(editor, total)) => Fits(net, Cap(editor', total'))
  <2>1. q.pc \notin Reversing /\ editor[r].pc \notin Reversing
    BY <1>3, <1>7 DEF Reversing
  <2> QED
    BY <1>1, <1>3, <1>6, <1>8, <2>1, CapStays
<1>14. TotalFitsLines' /\ KeepsAProduct'
  BY <1>1, <1>3, <1>9 DEF TotalFitsLines, NoLoss, KeepsAProduct
<1>20. Edits(r, q, l)
  BY <1>1, <1>3, <1>6, <1>7, <1>8, <1>9 DEF ItemsTyped, Edits
<1>21. Allows(r, q) /\ LineFits(l)
  BY <1>1, <1>4, <1>10, <1>11, <1>12, <1>13 DEF Allows, LineFits
<1> QED
  BY <1>14, <1>20, <1>21, LineStep

\* addItem pulls its line again, which only a failed write brings it to.
LEMMA AddIsUndone ==
    ASSUME ItemsInv, NEW r \in Editors, UndoAdd(r),
           \A x \in Editors \ {r} : ~MovesOrder(x)
    PROVE  ItemsInv'
<1>1. /\ ItemsTyped /\ TotalFitsLines /\ KeepsAProduct /\ Editing /\ StockFits /\ WalletFits
      /\ \A x \in Editors : x # r => ~MovesAll(editor[x])
      /\ \A x \in Editors : editor[x].pc = "idle" => editor[x].line = NoLine
      /\ NoLine \notin AllLines
  BY EditStarts
<1>2. PICK l : l = editor[r].line
  OBVIOUS
<1>3. /\ UNCHANGED <<placed, board, total, units, net, slips>> /\ editor[r].pc = "undo"
      /\ basket' = basket \ {l} /\ editor' = [editor EXCEPT ![r] = Free]
      /\ l \in Extras /\ l \in AllLines /\ l # NoLine /\ slips > 0
      /\ \A x \in Editors : x # r => ~(editor[x].pc \in Adding /\ editor[x].line = l)
  <2>1. editor[r].pc = "undo"
    BY DEF UndoAdd, EditorAt
  <2> QED
    BY <1>1, <1>2, <2>1 DEF UndoAdd, Then, Editing, Carries, Apart, Adding, AllLines
<1>4. commissionOf(l) = 0
  BY <1>3, ShareIsInt
<1> DEFINE q == Free
<1>5. q \in Editor /\ q.pc = "idle" /\ q.line = NoLine
  BY DEF Free, Editor
<1> HIDE DEF q
<1>6. ~MovesAll(editor[r]) /\ ~MovesAll(q)
  BY <1>2, <1>3, <1>5 DEF MovesAll
<1>7. OnlyLine(q, l) /\ OnlyLine(editor[r], l) /\ Besides(basket, basket', l)
  BY <1>2, <1>3, <1>5 DEF OnlyLine, Besides
<1>8. Carries(q, basket', board', units', slips')
  BY <1>5 DEF Carries, Adding, Reversing
<1>9. \A x \in Editors : x # r => Carries(editor[x], basket', board', units', slips')
  <2> SUFFICES ASSUME NEW x \in Editors, x # r
               PROVE  Carries(editor[x], basket', board', units', slips')
    OBVIOUS
  <2>1. Carries(editor[x], basket, board, units, slips)
    BY <1>1 DEF Editing
  <2> QED
    BY <1>3, <2>1 DEF Carries
<1>10. \A x \in Editors : x # r => Apart(q, editor[x]) /\ Apart(editor[x], q)
  BY <1>1, <1>5, <1>6 DEF Apart
<1>11. l \in basket' \/ slips' = 0 => UnitsFit(l, editor', basket', board', units')
  BY <1>1, <1>3 DEF ItemsTyped
<1>12. TotalFitsLines' /\ KeepsAProduct'
  <2>1. basket \subseteq AllLines /\ slips \in Nat
    BY <1>1 DEF ItemsTyped
  <2>2. commissionOfAll(basket \ {l}) = commissionOfAll(basket)
    BY <1>3, <1>4, <2>1, FreeLine
  <2>3. commissionOfAll(basket') = commissionOfAll(basket)
    BY <1>3, <2>2
  <2> QED
    BY <1>1, <1>3, <2>1, <2>3 DEF TotalFitsLines, NoLoss, KeepsAProduct
<1>13. editor' = [editor EXCEPT ![r] = q]
  BY <1>3 DEF q
<1>14. Fits(net, Cap(editor, total)) => Fits(net, Cap(editor', total'))
  <2>1. q.pc \notin Reversing /\ editor[r].pc \notin Reversing
    BY <1>3, <1>5 DEF Reversing
  <2> QED
    BY <1>1, <1>3, <1>7, <1>13, <2>1, CapStays
<1>20. Edits(r, q, l)
  BY <1>1, <1>3, <1>5, <1>6, <1>7, <1>13 DEF ItemsTyped, Edits
<1>21. Allows(r, q) /\ LineFits(l)
  BY <1>1, <1>14, <1>8, <1>9, <1>10, <1>11 DEF Allows, LineFits
<1> QED
  BY <1>12, <1>20, <1>21, LineStep

\* removeItem pulls: one request of several finds the line there.
LEMMA LineIsPulled ==
    ASSUME ItemsInv, NEW r \in Editors, PullLine(r),
           \A x \in Editors \ {r} : ~MovesOrder(x)
    PROVE  ItemsInv'
<1>1. /\ ItemsTyped /\ TotalFitsLines /\ KeepsAProduct /\ Editing /\ StockFits /\ WalletFits
      /\ \A x \in Editors : x # r => ~MovesAll(editor[x])
      /\ \A x \in Editors : editor[x].pc = "idle" => editor[x].line = NoLine
      /\ NoLine \notin AllLines
  BY EditStarts
<1>2. PICK l : l = editor[r].line
  OBVIOUS
<1>3. /\ UNCHANGED <<placed, board, units, net, slips>> /\ editor[r].pc = "pull"
      /\ l \in AllLines /\ l # NoLine /\ editor[r].amount = commissionOf(l)
  <2>1. editor[r].pc = "pull"
    BY DEF PullLine, EditorAt
  <2> QED
    BY <1>1, <1>2, <2>1 DEF PullLine, Editing, Carries, Adding
<1> DEFINE Step(q) ==
       /\ q \in Editor /\ editor' = [editor EXCEPT ![r] = q]
       /\ \/ /\ q.pc = "idle" /\ q.line = NoLine /\ basket' = basket /\ total' = total
          \/ /\ q.pc = "tidy" /\ q.line = l /\ q.amount = commissionOf(l)
             /\ Editable /\ l \in basket /\ Cardinality(basket) > 1
             /\ basket' = basket \ {l} /\ total' = total - commissionOf(l)
<1>4. \E q : Step(q)
  <2>1. CASE /\ Editable /\ l \in basket /\ Cardinality(basket) > 1
             /\ basket' = basket \ {l} /\ total' = total - editor[r].amount
             /\ Then(r, [editor[r] EXCEPT !.pc = "tidy"])
    <3>1. Step([editor[r] EXCEPT !.pc = "tidy"])
      BY <1>1, <1>2, <1>3, <2>1 DEF Editor, Then, ItemsTyped
    <3> QED
      BY <3>1
  <2>2. CASE Then(r, Free) /\ UNCHANGED <<basket, placed, total>>
    <3>1. Step(Free)
      BY <2>2 DEF Free, Editor, Then
    <3> QED
      BY <3>1
  <2> QED
    BY <1>2, <2>1, <2>2 DEF PullLine
<1>5. PICK q : Step(q)
  BY <1>4
<1>6. ~MovesAll(editor[r]) /\ ~MovesAll(q) /\ q.pc \in {"idle", "tidy"}
  BY <1>2, <1>3, <1>5 DEF MovesAll
<1>7. OnlyLine(q, l) /\ OnlyLine(editor[r], l) /\ Besides(basket, basket', l) /\ basket' \subseteq basket
  BY <1>2, <1>3, <1>5 DEF OnlyLine, Besides
<1>8. q.pc = "tidy" => ~board.deleted /\ board.status # "CANCELLED" /\ board.approval # "REJECTED"
                         /\ Holds(board)
  BY <1>1, <1>5, EditableHolds
<1>9. Carries(q, basket', board', units', slips')
  BY <1>3, <1>5, <1>8 DEF Carries, Adding, Reversing
<1>10. \A x \in Editors : x # r => Carries(editor[x], basket', board', units', slips')
  <2> SUFFICES ASSUME NEW x \in Editors, x # r
               PROVE  Carries(editor[x], basket', board', units', slips')
    OBVIOUS
  <2>1. Carries(editor[x], basket, board, units, slips)
    BY <1>1 DEF Editing
  <2> QED
    BY <1>3, <1>7, <2>1 DEF Carries
<1>11. \A x \in Editors : x # r /\ l \in basket => ~(editor[x].pc \in Reversing \cup {"push"} /\ editor[x].line = l)
  BY <1>1 DEF Editing, Carries
<1>12. \A x \in Editors : x # r => Apart(q, editor[x]) /\ Apart(editor[x], q)
  <2> SUFFICES ASSUME NEW x \in Editors, x # r
               PROVE  Apart(q, editor[x]) /\ Apart(editor[x], q)
    OBVIOUS
  <2>1. ~MovesAll(editor[x]) /\ ~MovesAll(q)
    BY <1>1, <1>6
  <2>2. CASE q.pc = "idle" /\ q.line = NoLine
    BY <2>1, <2>2 DEF Apart
  <2>3. CASE q.pc = "tidy" /\ q.line = l /\ l \in basket
    <3>1. editor[x].line = l => editor[x].pc \notin Reversing /\ editor[x].pc # "push"
      BY <1>11, <2>3 DEF Reversing
    <3> QED
      BY <2>1, <2>3, <3>1 DEF Apart, Adding, Reversing
  <2> QED
    BY <1>5, <2>2, <2>3
<1>13. /\ Has(editor', Taking, l) <=> Has(editor, Taking, l)
       /\ q.pc = "idle" =>
             /\ Has(editor', Returning, l) <=> Has(editor, Returning, l)
             /\ Has(editor', Reversing, l) <=> Has(editor, Reversing, l)
       /\ q.pc = "tidy" =>
             /\ Has(editor', Returning, l) /\ Has(editor', Reversing, l)
             /\ ~Has(editor, Returning, l)
  <2>1. /\ ~Is(editor[r], Taking, l) /\ ~Is(editor[r], Returning, l) /\ ~Is(editor[r], Reversing, l)
        /\ ~Is(q, Taking, l)
        /\ Is(q, Returning, l) <=> q.pc = "tidy"
        /\ Is(q, Reversing, l) <=> q.pc = "tidy"
    BY <1>3, <1>5 DEF Is, Taking, Returning, Reversing
  <2>2. q.pc = "tidy" => ~Others(editor, r, Returning, l)
    BY <1>5, <1>11 DEF Others, Is, Returning, Reversing
  <2> QED
    BY <1>1, <1>5, <2>1, <2>2, HasStep
<1>14. l \in basket' \/ slips' = 0 => UnitsFit(l, editor', basket', board', units')
  <2>1. l \in basket \/ slips = 0 => UnitsFit(l, editor, basket, board, units)
    BY <1>1, <1>3 DEF StockFits
  <2>2. units[l] \in Int
    BY <1>1, <1>3 DEF ItemsTyped
  <2> QED
    BY <1>3, <1>5, <1>8, <1>13, <2>1, <2>2 DEF UnitsFit, One
<1>16. TotalFitsLines' /\ KeepsAProduct' /\ basket' \subseteq AllLines /\ total' \in Int
  <2>1. basket \subseteq AllLines /\ total \in Int
    BY <1>1 DEF ItemsTyped
  <2>2. CASE q.pc = "idle" /\ basket' = basket /\ total' = total
    BY <1>1, <1>3, <2>1, <2>2 DEF TotalFitsLines, NoLoss, KeepsAProduct
  <2>3. CASE /\ l \in basket /\ Cardinality(basket) > 1
             /\ basket' = basket \ {l} /\ total' = total - commissionOf(l)
    <3>1. basket' # {}
      BY <2>1, <2>3, MoreThanOne
    <3>2. commissionOf(l) \in Int
      BY <1>3, ShareIsInt
    <3>3. commissionOfAll(basket) = commissionOf(l) + commissionOfAll(basket \ {l})
      BY <2>1, <2>3, SharesAdd
    <3>4. commissionOfAll(basket \ {l}) \in Int
      <4>1. basket \ {l} \subseteq AllLines
        BY <2>1
      <4> QED
        BY <4>1, SharesAdd
    <3>5. /\ total' >= commissionOfAll(basket \ {l})
          /\ NoLoss => total' = commissionOfAll(basket \ {l})
      BY <1>1, <2>1, <2>3, <3>2, <3>3, <3>4 DEF TotalFitsLines
    <3>6. NoLoss' <=> NoLoss
      BY <1>3 DEF NoLoss
    <3>7. commissionOfAll(basket') = commissionOfAll(basket \ {l})
      BY <2>3
    <3> QED
      BY <2>1, <2>3, <3>1, <3>2, <3>5, <3>6, <3>7 DEF TotalFitsLines, KeepsAProduct
  <2> QED
    BY <1>5, <2>2, <2>3
<1>15. Fits(net, Cap(editor, total)) => Fits(net, Cap(editor', total'))
  <2>1. CASE q.pc = "idle" /\ total' = total
    <3>1. q.pc \notin Reversing /\ editor[r].pc \notin Reversing
      BY <1>3, <2>1 DEF Reversing
    <3> QED
      BY <1>1, <1>3, <1>5, <1>7, <2>1, <3>1, CapStays
  <2>2. CASE q.pc = "tidy" /\ q.line = l /\ l \in basket /\ total' = total - commissionOf(l)
    <3>1. PICK c : c = commissionOf(l)
      OBVIOUS
    <3>2. c \in Int /\ total \in Int /\ basket \subseteq placed \cup Extras /\ placed \subseteq Bought
      BY <1>1, <1>3, <3>1, ShareIsInt DEF ItemsTyped
    <3>3. NoLoss => c >= 0 /\ c <= total
      BY <1>1, <2>2, <3>1, <3>2, NoLossAddsUp DEF TotalFitsLines
    <3>4. l \in Reversed(editor') /\ l \notin Reversed(editor)
      <4>1. Has(editor', Reversing, l)
        BY <1>13, <2>2
      <4>2. ~Has(editor, Reversing, l)
        BY <1>3, <1>11, <2>2 DEF Has, Is, Reversing
      <4> QED
        BY <1>3, <4>1, <4>2 DEF Reversed
    <3>5. /\ gainOfAll(Reversed(editor)) \in Nat
          /\ gainOfAll(Reversed(editor')) = gainOfAll(Reversed(editor)) + OrZero(c)
      BY <1>1, <1>3, <1>5, <1>7, <3>1, <3>4, GainStep
    <3>6. PICK g : g = gainOfAll(Reversed(editor))
      OBVIOUS
    <3>7. Cap(editor, total) = OrZero(total) + g /\ Cap(editor', total') = OrZero(total - c) + (g + OrZero(c))
      BY <2>2, <3>1, <3>5, <3>6 DEF Cap
    <3>8. /\ OrZero(total) + g <= OrZero(total - c) + (g + OrZero(c))
          /\ NoLoss => OrZero(total) + g = OrZero(total - c) + (g + OrZero(c))
          /\ OrZero(total) + g \in Int /\ OrZero(total - c) + (g + OrZero(c)) \in Int
      <4>1. g \in Nat
        BY <3>5, <3>6
      <4> QED
        BY <3>2, <3>3, <4>1 DEF OrZero
    <3>9. net \in Int
      BY <1>1 DEF ItemsTyped
    <3> QED
      BY <3>7, <3>8, <3>9 DEF Fits
  <2> QED
    BY <1>5, <2>1, <2>2
<1>20. Edits(r, q, l)
  BY <1>1, <1>3, <1>5, <1>6, <1>7, <1>16 DEF ItemsTyped, Edits
<1>21. Allows(r, q) /\ LineFits(l)
  BY <1>1, <1>9, <1>10, <1>12, <1>14, <1>15 DEF Allows, LineFits
<1> QED
  BY <1>16, <1>20, <1>21, LineStep

\* What an editor holds who is taking a line off.
LEMMA TakesOff ==
    ASSUME ItemsTyped, Editing, NEW r \in Editors, editor[r].pc \in {"tidy", "return", "net"}
    PROVE  /\ editor[r].line \in AllLines /\ editor[r].line # NoLine /\ editor[r].line \notin basket
           /\ editor[r].amount = commissionOf(editor[r].line) /\ ~MovesAll(editor[r])
           /\ ~board.deleted /\ board.status # "CANCELLED" /\ board.approval # "REJECTED"
           /\ \A x \in Editors : x # r /\ editor[x].line = editor[r].line =>
                 editor[x].pc \notin Reversing /\ editor[x].pc # "push"
<1>1. /\ editor[r].line \in AllLines /\ editor[r].line \notin basket
      /\ editor[r].amount = commissionOf(editor[r].line)
      /\ editor[r].line # NoLine => ~board.deleted /\ board.status # "CANCELLED" /\ board.approval # "REJECTED"
  BY DEF Editing, Carries, Reversing
<1>2. editor[r].line # NoLine
  BY <1>1, ItemsAssumption DEF AllLines
<1>3. \A x \in Editors : x # r /\ editor[x].line = editor[r].line =>
         editor[x].pc \notin Reversing /\ editor[x].pc # "push"
  BY <1>2 DEF Editing, Apart, Reversing
<1> QED
  BY <1>1, <1>2, <1>3 DEF MovesAll

\* removeItem raises a figure that fell below zero, which without a loss it
\* never does.
LEMMA TotalIsTidied ==
    ASSUME ItemsInv, NEW r \in Editors, TidyTotal(r),
           \A x \in Editors \ {r} : ~MovesOrder(x)
    PROVE  ItemsInv'
<1>1. /\ ItemsTyped /\ TotalFitsLines /\ KeepsAProduct /\ Editing /\ StockFits /\ WalletFits
      /\ \A x \in Editors : x # r => ~MovesAll(editor[x])
      /\ \A x \in Editors : editor[x].pc = "idle" => editor[x].line = NoLine
      /\ NoLine \notin AllLines
  BY EditStarts
<1>2. PICK l : l = editor[r].line
  OBVIOUS
<1>3. /\ UNCHANGED <<basket, placed, board, units, net, slips>> /\ editor[r].pc = "tidy"
      /\ total' = OrZero(total)
  BY DEF TidyTotal, EditorAt
<1>4. /\ l \in AllLines /\ l # NoLine /\ editor[r].amount = commissionOf(l) /\ l \notin basket
      /\ ~board.deleted /\ board.status # "CANCELLED" /\ board.approval # "REJECTED"
      /\ ~MovesAll(editor[r])
      /\ \A x \in Editors : x # r /\ editor[x].line = l => editor[x].pc \notin Reversing /\ editor[x].pc # "push"
  BY <1>1, <1>2, <1>3, TakesOff
<1> DEFINE q == [editor[r] EXCEPT !.pc = "return"]
<1>5. /\ q \in Editor /\ editor' = [editor EXCEPT ![r] = q]
      /\ q.pc = "return" /\ q.line = l /\ q.amount = commissionOf(l)
  BY <1>1, <1>2, <1>4 DEF TidyTotal, Then, Editor, ItemsTyped
<1> HIDE DEF q
<1>6. ~MovesAll(q)
  BY <1>4, <1>5 DEF MovesAll
<1>7. OnlyLine(q, l) /\ OnlyLine(editor[r], l) /\ Besides(basket, basket', l)
  BY <1>2, <1>3, <1>5 DEF OnlyLine, Besides
<1>8. Carries(q, basket', board', units', slips')
  BY <1>3, <1>4, <1>5 DEF Carries, Adding, Reversing
<1>9. \A x \in Editors : x # r => Carries(editor[x], basket', board', units', slips')
  BY <1>1, <1>3 DEF Editing
<1>10. \A x \in Editors : x # r => Apart(q, editor[x]) /\ Apart(editor[x], q)
  BY <1>1, <1>4, <1>5, <1>6 DEF Apart, Adding
<1>11. /\ Is(editor[r], Reversing, l) /\ Is(q, Reversing, l)
       /\ Is(editor[r], Returning, l) /\ Is(q, Returning, l)
       /\ ~Is(editor[r], Taking, l) /\ ~Is(q, Taking, l)
  BY <1>2, <1>3, <1>5 DEF Is, Reversing, Returning, Taking
<1>12. l \in basket' \/ slips' = 0 => UnitsFit(l, editor', basket', board', units')
  <2>1. l \in basket \/ slips = 0 => UnitsFit(l, editor, basket, board, units)
    BY <1>1, <1>4 DEF StockFits
  <2>2. /\ Has(editor', Taking, l) <=> Has(editor, Taking, l)
        /\ Has(editor', Returning, l) <=> Has(editor, Returning, l)
    BY <1>1, <1>5, <1>11, HasStep
  <2> QED
    BY <1>3, <2>1, <2>2, UnitsStay
<1>13. /\ total \in Int /\ total' \in Int /\ total' >= total /\ OrZero(total') = OrZero(total)
       /\ NoLoss => total' = total
  <2>1. total \in Int /\ basket \subseteq placed \cup Extras /\ placed \subseteq Bought
    BY <1>1 DEF ItemsTyped
  <2>2. NoLoss => total >= 0
    BY <1>1, <2>1, NoLossAddsUp DEF TotalFitsLines
  <2> QED
    BY <1>3, <2>1, <2>2 DEF OrZero
<1>14. Fits(net, Cap(editor, total)) => Fits(net, Cap(editor', total'))
  <2>1. Has(editor', Reversing, l) <=> Has(editor, Reversing, l)
    BY <1>1, <1>5, <1>11, HasStep
  <2>2. l \in Reversed(editor') <=> l \in Reversed(editor)
    BY <2>1 DEF Reversed
  <2>3. gainOfAll(Reversed(editor')) = gainOfAll(Reversed(editor))
    BY <1>1, <1>4, <1>5, <1>7, <2>2, GainStep
  <2> QED
    BY <1>13, <2>3 DEF Cap, Fits
<1>15. TotalFitsLines' /\ KeepsAProduct'
  <2>1. NoLoss' <=> NoLoss
    BY <1>3 DEF NoLoss
  <2>2. commissionOfAll(basket') = commissionOfAll(basket) /\ commissionOfAll(basket) \in Int
    BY <1>1, <1>3, SharesAdd DEF ItemsTyped
  <2> QED
    BY <1>1, <1>3, <1>13, <2>1, <2>2 DEF TotalFitsLines, KeepsAProduct
<1>20. Edits(r, q, l)
  BY <1>1, <1>3, <1>4, <1>5, <1>6, <1>7, <1>13 DEF ItemsTyped, Edits
<1>21. Allows(r, q) /\ LineFits(l)
  BY <1>1, <1>8, <1>9, <1>10, <1>12, <1>14 DEF Allows, LineFits
<1> QED
  BY <1>15, <1>20, <1>21, LineStep

\* removeItem puts the unit back; a line that earned nothing owes no more.
LEMMA RemovedIsReturned ==
    ASSUME ItemsInv, NEW r \in Editors, ReturnRemoved(r),
           \A x \in Editors \ {r} : ~MovesOrder(x)
    PROVE  ItemsInv'
<1>1. /\ ItemsTyped /\ TotalFitsLines /\ KeepsAProduct /\ Editing /\ StockFits /\ WalletFits
      /\ \A x \in Editors : x # r => ~MovesAll(editor[x])
      /\ \A x \in Editors : editor[x].pc = "idle" => editor[x].line = NoLine
      /\ NoLine \notin AllLines
  BY EditStarts
<1>2. PICK l : l = editor[r].line
  OBVIOUS
<1>3. /\ UNCHANGED <<basket, placed, board, total, net>> /\ editor[r].pc = "return"
      /\ l \in AllLines /\ l # NoLine /\ editor[r].amount = commissionOf(l) /\ l \notin basket
      /\ ~board.deleted /\ board.status # "CANCELLED" /\ board.approval # "REJECTED"
      /\ \A x \in Editors : x # r => /\ ~(editor[x].pc \in Reversing /\ editor[x].line = l)
                                     /\ ~(editor[x].pc = "push" /\ editor[x].line = l)
  <2>1. editor[r].pc = "return"
    BY DEF ReturnRemoved, EditorAt
  <2>2. /\ l \in AllLines /\ l # NoLine /\ editor[r].amount = commissionOf(l) /\ l \notin basket
        /\ ~board.deleted /\ board.status # "CANCELLED" /\ board.approval # "REJECTED"
        /\ \A x \in Editors : x # r /\ editor[x].line = l => editor[x].pc \notin Reversing /\ editor[x].pc # "push"
    BY <1>1, <1>2, <2>1, TakesOff
  <2> QED
    BY <2>1, <2>2 DEF ReturnRemoved
<1> DEFINE q == IF editor[r].amount <= 0 THEN Free ELSE [editor[r] EXCEPT !.pc = "net"]
<1>4. /\ q \in Editor /\ editor' = [editor EXCEPT ![r] = q]
      /\ \/ q.pc = "idle" /\ q.line = NoLine /\ commissionOf(l) <= 0
         \/ q.pc = "net" /\ q.line = l /\ q.amount = commissionOf(l) /\ q.amount > 0
  <2>1. commissionOf(l) \in Int
    BY <1>3, ShareIsInt
  <2> QED
    BY <1>1, <1>2, <1>3, <2>1 DEF ReturnRemoved, Then, Free, Editor, ItemsTyped
<1> HIDE DEF q
<1>5. /\ units' \in [AllLines -> Int] /\ \A k \in AllLines : k # l => units'[k] = units[k]
      /\ slips' \in Nat /\ slips' >= slips /\ slips \in Nat
      /\ slips' = 0 => units'[l] = units[l] - 1
  BY <1>1, <1>2, <1>3 DEF ReturnRemoved, Move, ItemsTyped
<1>6. ~MovesAll(editor[r]) /\ ~MovesAll(q) /\ q.pc \in {"idle", "net"}
  BY <1>2, <1>3, <1>4 DEF MovesAll
<1>7. OnlyLine(q, l) /\ OnlyLine(editor[r], l) /\ Besides(basket, basket', l)
  BY <1>2, <1>3, <1>4 DEF OnlyLine, Besides
<1>8. Carries(q, basket', board', units', slips')
  BY <1>3, <1>4 DEF Carries, Adding, Reversing
<1>9. \A x \in Editors : x # r => Carries(editor[x], basket', board', units', slips')
  <2> SUFFICES ASSUME NEW x \in Editors, x # r
               PROVE  Carries(editor[x], basket', board', units', slips')
    OBVIOUS
  <2>1. Carries(editor[x], basket, board, units, slips)
    BY <1>1 DEF Editing
  <2>2. editor[x].pc = "push" => editor[x].line # l /\ editor[x].line \in AllLines
    BY <1>3, <2>1 DEF Carries, Adding, AllLines
  <2>3. editor[x].pc = "push" => units'[editor[x].line] = units[editor[x].line]
    BY <1>5, <2>2
  <2> QED
    BY <1>3, <1>5, <2>1, <2>3 DEF Carries
<1>10. \A x \in Editors : x # r => Apart(q, editor[x]) /\ Apart(editor[x], q)
  BY <1>1, <1>3, <1>4, <1>6 DEF Apart, Adding
<1>11. l \in basket' \/ slips' = 0 => UnitsFit(l, editor', basket', board', units')
  <2> SUFFICES ASSUME slips' = 0
               PROVE  UnitsFit(l, editor', basket', board', units')
    BY <1>3
  <2>1. UnitsFit(l, editor, basket, board, units)
    BY <1>1, <1>3, <1>5 DEF StockFits
  <2>2. /\ ~Is(editor[r], Taking, l) /\ Is(editor[r], Returning, l)
        /\ ~Is(q, Taking, l) /\ ~Is(q, Returning, l)
    BY <1>2, <1>3, <1>4 DEF Is, Taking, Returning
  <2>3. ~Others(editor, r, Returning, l)
    BY <1>3 DEF Others, Is, Returning, Reversing
  <2>4. /\ Has(editor', Taking, l) <=> Has(editor, Taking, l)
        /\ Has(editor, Returning, l) /\ ~Has(editor', Returning, l)
    BY <1>1, <1>4, <2>2, <2>3, HasStep
  <2>5. units[l] \in Int /\ units'[l] = units[l] - 1
    BY <1>1, <1>3, <1>5 DEF ItemsTyped
  <2> QED
    BY <1>3, <2>1, <2>4, <2>5 DEF UnitsFit, One
<1>12. Fits(net, Cap(editor, total)) => Fits(net, Cap(editor', total'))
  <2>1. Is(editor[r], Reversing, l) /\ editor[r].pc \in Reversing
    BY <1>2, <1>3 DEF Is, Reversing
  <2>2. CASE q.pc = "net" /\ q.line = l
    <3>1. Is(q, Reversing, l)
      BY <2>2 DEF Is, Reversing
    <3> QED
      BY <1>1, <1>3, <1>4, <1>7, <2>1, <3>1, CapStays
  <2>3. CASE q.pc = "idle" /\ commissionOf(l) <= 0
    <3>1. Has(editor, Reversing, l) /\ ~Has(editor', Reversing, l)
      <4>1. ~Is(q, Reversing, l) /\ ~Others(editor, r, Reversing, l)
        BY <1>3, <2>3 DEF Is, Others, Reversing
      <4> QED
        BY <1>1, <1>4, <2>1, <4>1, HasStep
    <3>2. l \in Reversed(editor) /\ l \notin Reversed(editor')
      BY <1>3, <3>1 DEF Reversed
    <3>3. /\ gainOfAll(Reversed(editor)) = gainOfAll(Reversed(editor')) + OrZero(commissionOf(l))
          /\ gainOfAll(Reversed(editor')) \in Nat
      BY <1>1, <1>3, <1>4, <1>7, <3>2, GainStep
    <3>4. OrZero(commissionOf(l)) = 0
      BY <1>3, <2>3, ShareIsInt, OrZeroIsNat
    <3>5. gainOfAll(Reversed(editor)) = gainOfAll(Reversed(editor'))
      BY <3>3, <3>4
    <3> QED
      BY <1>3, <3>5 DEF Cap, Fits
  <2> QED
    BY <1>4, <2>2, <2>3
<1>13. TotalFitsLines' /\ KeepsAProduct'
  BY <1>1, <1>3, <1>5 DEF TotalFitsLines, NoLoss, KeepsAProduct
<1>20. Edits(r, q, l)
  BY <1>1, <1>3, <1>4, <1>5, <1>6, <1>7 DEF ItemsTyped, Edits
<1>21. Allows(r, q) /\ LineFits(l)
  BY <1>1, <1>8, <1>9, <1>10, <1>11, <1>12 DEF Allows, LineFits
<1> QED
  BY <1>13, <1>20, <1>21, LineStep

\* What the wallet holds for an order of which lines alone are being taken off.
LEMMA NetIsCapped ==
    ASSUME ItemsTyped, Editing, WalletFits, NEW r \in Editors,
           \A x \in Editors : x # r => ~MovesAll(editor[x]),
           editor[r].pc \in {"net", "append"}, editor[r].line # NoLine
    PROVE  /\ board.approval = "PENDING" => net = 0
           /\ board.approval # "PENDING" => Fits(net, Cap(editor, total))
           /\ editor[r].line \in AllLines \ basket /\ editor[r].line \in Reversed(editor)
           /\ editor[r].amount > 0 /\ ~board.deleted /\ board.status # "CANCELLED"
           /\ commissionOf(editor[r].line) <= Cap(editor, total) /\ Cap(editor, total) \in Nat
           /\ \A x \in Editors : x # r /\ editor[x].line = editor[r].line => editor[x].pc \notin Reversing
<1> DEFINE l == editor[r].line
<1>1. \A x \in Editors : ~MovesAll(editor[x])
  BY DEF MovesAll
<1>2. ~board.deleted /\ board.status # "CANCELLED" /\ editor[r].amount > 0 /\ l \notin basket
  BY DEF Editing, Carries, Reversing
<1>3. l \in AllLines
  BY DEF ItemsTyped, Editor
<1>4. l \in Reversed(editor)
  BY <1>3 DEF Has, Is, Reversed, Reversing
<1>5. /\ board.approval = "PENDING" => net = 0
      /\ board.approval # "PENDING" => Fits(net, Cap(editor, total))
  BY <1>1, <1>2 DEF WalletFits, Unearned, Settled
<1>6. \A x \in Editors : x # r /\ editor[x].line = l => editor[x].pc \notin Reversing
  BY DEF Editing, Apart, Reversing
<1>7. commissionOf(l) <= Cap(editor, total) /\ Cap(editor, total) \in Nat
  <2>1. PICK S : S = Reversed(editor) \ {l}
    OBVIOUS
  <2>2. S \subseteq AllLines /\ l \notin S /\ Reversed(editor) = S \cup {l}
    BY <1>4, <2>1 DEF Reversed
  <2>3. gainOfAll(S) \in Nat /\ gainOfAll(Reversed(editor)) = gainOfAll(S) + OrZero(commissionOf(l))
    BY <1>3, <2>2, GainsAdd
  <2>4. /\ OrZero(commissionOf(l)) \in Nat /\ OrZero(commissionOf(l)) >= commissionOf(l)
        /\ commissionOf(l) \in Int /\ OrZero(total) \in Nat
    BY <1>3, ShareIsInt, OrZeroIsNat DEF ItemsTyped
  <2> QED
    BY <2>3, <2>4 DEF Cap
<1> QED
  BY <1>2, <1>3, <1>4, <1>5, <1>6, <1>7

\* removeItem reads the wallet: the line's share is still there in full, or it
\* was never recorded (a claim that is pending), or a loss has left less of it.
LEMMA NetIsRead ==
    ASSUME ItemsInv, NEW r \in Editors, ReadNet(r),
           \A x \in Editors \ {r} : ~MovesOrder(x)
    PROVE  ItemsInv'
<1>1. /\ ItemsTyped /\ TotalFitsLines /\ KeepsAProduct /\ Editing /\ StockFits /\ WalletFits
      /\ \A x \in Editors : x # r => ~MovesAll(editor[x])
      /\ \A x \in Editors : editor[x].pc = "idle" => editor[x].line = NoLine
      /\ NoLine \notin AllLines
  BY EditStarts
<1>2. PICK l : l = editor[r].line
  OBVIOUS
<1>3. UNCHANGED <<basket, placed, board, total, units, net, slips>> /\ editor[r].pc = "net"
  BY DEF ReadNet, EditorAt
<1>4. /\ l \in AllLines /\ l # NoLine /\ editor[r].amount = commissionOf(l) /\ l \notin basket
      /\ ~board.deleted /\ board.status # "CANCELLED" /\ board.approval # "REJECTED"
      /\ ~MovesAll(editor[r])
      /\ \A x \in Editors : x # r /\ editor[x].line = l => editor[x].pc \notin Reversing /\ editor[x].pc # "push"
  BY <1>1, <1>2, <1>3, TakesOff
<1>5. /\ board.approval = "PENDING" => net = 0
      /\ board.approval # "PENDING" => Fits(net, Cap(editor, total))
      /\ commissionOf(l) > 0 /\ commissionOf(l) <= Cap(editor, total) /\ Cap(editor, total) \in Nat
      /\ l \in Reversed(editor)
  BY <1>1, <1>2, <1>3, <1>4, NetIsCapped
<1>6. commissionOf(l) \in Int /\ net \in Int
  BY <1>1, <1>4, ShareIsInt DEF ItemsTyped
<1>7. PICK n : n = Smaller(editor[r].amount, NetRecorded)
  OBVIOUS
<1>8. /\ n \in Nat /\ (n = 0 => net <= 0)
      /\ n > 0 => board.approval # "PENDING" /\ (n = commissionOf(l) \/ (n = net /\ net < commissionOf(l)))
  BY <1>4, <1>5, <1>6, <1>7 DEF Smaller, NetRecorded, OrZero
<1> DEFINE q == IF n = 0 THEN Free ELSE Busy("append", l, n)
<1>9. /\ q \in Editor /\ editor' = [editor EXCEPT ![r] = q]
      /\ \/ q.pc = "idle" /\ q.line = NoLine /\ net <= 0
         \/ q.pc = "append" /\ q.line = l /\ q.amount = n /\ n > 0
  BY <1>2, <1>4, <1>7, <1>8 DEF ReadNet, Then, Free, Busy, Editor
<1> HIDE DEF q
<1>10. ~MovesAll(q) /\ q.pc \in {"idle", "append"}
  BY <1>4, <1>9 DEF MovesAll
<1>11. OnlyLine(q, l) /\ OnlyLine(editor[r], l) /\ Besides(basket, basket', l)
  BY <1>2, <1>3, <1>9 DEF OnlyLine, Besides
<1>12. Carries(q, basket', board', units', slips')
  BY <1>3, <1>4, <1>9 DEF Carries, Adding, Reversing
<1>13. \A x \in Editors : x # r => Carries(editor[x], basket', board', units', slips')
  BY <1>1, <1>3 DEF Editing
<1>14. \A x \in Editors : x # r => Apart(q, editor[x]) /\ Apart(editor[x], q)
  BY <1>1, <1>4, <1>9, <1>10 DEF Apart, Adding
<1>15. l \in basket' \/ slips' = 0 => UnitsFit(l, editor', basket', board', units')
  <2>1. l \in basket \/ slips = 0 => UnitsFit(l, editor, basket, board, units)
    BY <1>1, <1>4 DEF StockFits
  <2>2. /\ ~Is(editor[r], Taking, l) /\ ~Is(editor[r], Returning, l)
        /\ ~Is(q, Taking, l) /\ ~Is(q, Returning, l)
    BY <1>3, <1>9 DEF Is, Taking, Returning
  <2>3. /\ Has(editor', Taking, l) <=> Has(editor, Taking, l)
        /\ Has(editor', Returning, l) <=> Has(editor, Returning, l)
    BY <1>1, <1>9, <2>2, HasStep
  <2> QED
    BY <1>3, <2>1, <2>3, UnitsStay
<1>16. board.approval # "PENDING" /\ Fits(net, Cap(editor, total)) => Fits(net, Cap(editor', total'))
  <2>1. CASE q.pc = "append" /\ q.line = l
    <3>1. Is(q, Reversing, l) /\ Is(editor[r], Reversing, l)
      BY <1>2, <1>3, <2>1 DEF Is, Reversing
    <3> QED
      BY <1>1, <1>3, <1>4, <1>9, <1>11, <3>1, CapStays
  <2>2. CASE q.pc = "idle" /\ net <= 0
    <3>1. ASSUME board.approval # "PENDING" PROVE ~NoLoss
      BY <1>5, <1>6, <2>2, <3>1 DEF Fits
    <3>2. gainOfAll(Reversed(editor')) \in Nat
      BY <1>1, <1>4, <1>9, <1>11, GainStep
    <3>3. OrZero(total) \in Nat
      BY <1>1, OrZeroIsNat DEF ItemsTyped
    <3>4. net <= Cap(editor', total')
      BY <1>3, <1>6, <2>2, <3>2, <3>3 DEF Cap
    <3> QED
      BY <3>1, <3>4 DEF Fits
  <2> QED
    BY <1>9, <2>1, <2>2
<1>17. q.pc = "append" => board.approval # "PENDING" /\ Reverses(q, net)
  <2> SUFFICES ASSUME q.pc = "append"
               PROVE  board.approval # "PENDING" /\ Reverses(q, net)
    OBVIOUS
  <2>1. n > 0 /\ q.line = l /\ q.amount = n
    BY <1>9
  <2>2. net < commissionOf(l) => ~NoLoss
    BY <1>5, <1>6, <1>8, <2>1 DEF Fits
  <2> QED
    BY <1>6, <1>8, <2>1, <2>2 DEF Reverses
<1>18. TotalFitsLines' /\ KeepsAProduct'
  BY <1>1, <1>3 DEF TotalFitsLines, NoLoss, KeepsAProduct
<1>20. Edits(r, q, l)
  BY <1>1, <1>3, <1>4, <1>9, <1>10, <1>11, <1>17 DEF ItemsTyped, Edits
<1>21. Allows(r, q) /\ LineFits(l)
  BY <1>1, <1>12, <1>13, <1>14, <1>15, <1>16 DEF Allows, LineFits
<1> QED
  BY <1>18, <1>20, <1>21, LineStep

\* The share leaves the wallet, and what it may hold; or the whole order's net
\* does.
LEMMA ShareIsAppended ==
    ASSUME ItemsInv, NEW r \in Editors, AppendShare(r),
           \A x \in Editors \ {r} : ~MovesOrder(x)
    PROVE  ItemsInv'
<1>1. /\ ItemsTyped /\ TotalFitsLines /\ KeepsAProduct /\ Editing /\ StockFits /\ WalletFits
      /\ \A x \in Editors : x # r => ~MovesAll(editor[x])
      /\ \A x \in Editors : editor[x].pc = "idle" => editor[x].line = NoLine
      /\ NoLine \notin AllLines
  BY EditStarts
<1>2. /\ UNCHANGED <<basket, placed, board, total, units, slips>> /\ editor[r].pc = "append"
      /\ net' = net - editor[r].amount /\ editor' = [editor EXCEPT ![r] = Free]
  BY DEF AppendShare, EditorAt, Then
<1> DEFINE q == Free
<1>3. q \in Editor /\ q.pc = "idle" /\ q.line = NoLine /\ editor' = [editor EXCEPT ![r] = q]
  BY <1>2 DEF Free, Editor
<1> HIDE DEF q
<1>4. editor'[r] = q /\ \A x \in Editors : x # r => editor'[x] = editor[x]
  BY <1>1, <1>3 DEF ItemsTyped
<1>5. Carries(q, basket', board', units', slips')
  BY <1>3 DEF Carries, Adding, Reversing
<1>6. \A x \in Editors : x # r => Carries(editor[x], basket', board', units', slips')
  BY <1>1, <1>2 DEF Editing
<1>7. \A x \in Editors : x # r => Apart(q, editor[x]) /\ Apart(editor[x], q)
  BY <1>1, <1>3 DEF Apart, MovesAll
<1>8. Editing'
  BY <1>1, <1>3, <1>5, <1>6, <1>7, EditingStep
<1>9. StockFits'
  <2> SUFFICES ASSUME NEW k \in AllLines, k \in basket' \/ slips' = 0
               PROVE  UnitsFit(k, editor', basket', board', units')
    BY DEF StockFits
  <2>1. UnitsFit(k, editor, basket, board, units)
    BY <1>1, <1>2 DEF StockFits
  <2>2. /\ ~Is(editor[r], Taking, k) /\ ~Is(editor[r], Returning, k)
        /\ ~Is(q, Taking, k) /\ ~Is(q, Returning, k)
    BY <1>2, <1>3 DEF Is, Taking, Returning
  <2>3. /\ Has(editor', Taking, k) <=> Has(editor, Taking, k)
        /\ Has(editor', Returning, k) <=> Has(editor, Returning, k)
    BY <1>1, <1>3, <2>2, HasStep
  <2> QED
    BY <1>2, <2>1, <2>3, UnitsStay
<1>10. board.approval # "PENDING"
  BY <1>1, <1>2 DEF WalletFits, Unearned
<1>11. \A x \in Editors : ~MovesAll(editor'[x])
  BY <1>1, <1>3, <1>4 DEF MovesAll
<1>0. NoLoss' <=> NoLoss
  BY <1>2 DEF NoLoss
<1>12. net' \in Int /\ Settled(editor, board, total, net)' /\ (NoLoss => net' >= 0)
  <2>1. CASE editor[r].line = NoLine
    <3>1. editor[r].amount = net /\ (board.deleted \/ board.status = "CANCELLED")
      BY <1>1, <1>2, <2>1 DEF WalletFits, Settles
    <3>2. net' = 0
      BY <1>1, <1>2, <3>1 DEF ItemsTyped
    <3> QED
      BY <1>2, <3>1, <3>2 DEF Settled, Fits
  <2>2. CASE editor[r].line # NoLine
    <3>1. PICK l : l = editor[r].line
      OBVIOUS
    <3>2. /\ Fits(net, Cap(editor, total)) /\ l \in AllLines /\ l \in Reversed(editor)
          /\ editor[r].amount > 0 /\ ~board.deleted
          /\ \A x \in Editors : x # r /\ editor[x].line = l => editor[x].pc \notin Reversing
      BY <1>1, <1>2, <1>10, <2>2, <3>1, NetIsCapped
    <3>3. PICK n : n = editor[r].amount
      OBVIOUS
    <3>4. n \in Int /\ n > 0 /\ net \in Int /\ total \in Int
      BY <1>1, <3>2, <3>3 DEF ItemsTyped, Editor
    <3>5. n = commissionOf(l) \/ (~NoLoss /\ net <= n)
      BY <1>1, <1>2, <2>2, <3>1, <3>3 DEF WalletFits, Settles, Reverses
    <3>6. l \notin Reversed(editor')
      <4>1. ~Others(editor, r, Reversing, l) /\ ~Is(q, Reversing, l)
        BY <1>3, <3>2 DEF Others, Is, Reversing
      <4>2. ~Has(editor', Reversing, l)
        BY <1>1, <1>3, <4>1, HasStep
      <4> QED
        BY <4>2 DEF Reversed
    <3>7. /\ gainOfAll(Reversed(editor)) = gainOfAll(Reversed(editor')) + OrZero(commissionOf(l))
          /\ gainOfAll(Reversed(editor')) \in Nat
      <4>1. OnlyLine(q, l) /\ OnlyLine(editor[r], l)
        BY <1>3, <3>1 DEF OnlyLine
      <4> QED
        BY <1>1, <1>3, <3>2, <3>6, <4>1, GainStep
    <3>8. OrZero(total) \in Nat
      BY <3>4, OrZeroIsNat
    <3>9. Fits(net - n, Cap(editor', total)) /\ Cap(editor', total) \in Nat
      <4>1. CASE n = commissionOf(l)
        <5>1. OrZero(commissionOf(l)) = n
          BY <3>4, <4>1 DEF OrZero
        <5>2. Cap(editor, total) = Cap(editor', total) + n /\ Cap(editor', total) \in Nat
          BY <3>4, <3>7, <3>8, <5>1 DEF Cap
        <5> QED
          BY <3>2, <3>4, <5>2 DEF Fits
      <4>2. CASE ~NoLoss /\ net <= n
        <5>1. Cap(editor', total) \in Nat
          BY <3>7, <3>8 DEF Cap
        <5> QED
          BY <3>4, <4>2, <5>1 DEF Fits
      <4> QED
        BY <3>5, <4>1, <4>2
    <3>10. net' = net - n
      BY <1>2, <3>3
    <3> QED
      BY <1>0, <1>2, <3>2, <3>4, <3>9, <3>10 DEF Settled, Fits
  <2> QED
    BY <2>1, <2>2
<1>13. ItemsTyped'
  BY <1>1, <1>2, <1>3, <1>12 DEF ItemsTyped
<1>14. \A x \in Editors : editor'[x].pc \notin {"sum", "credit"}
                          /\ (editor'[x].pc = "append" => editor'[x].line # NoLine)
  <2>1. \A x \in Editors : editor'[x].pc \in {"sum", "credit"} => MovesAll(editor'[x])
    BY <1>1, <1>3, <1>4 DEF MovesAll, Editing, Carries
  <2> QED
    BY <1>11, <2>1 DEF MovesAll
<1>15. WalletFits'
  <2>1. Unearned(editor, board, net)'
    BY <1>2, <1>10 DEF Unearned
  <2>2. \A x \in Editors : Settles(editor[x], board, total, net)'
    <3> SUFFICES ASSUME NEW x \in Editors PROVE Settles(editor[x], board, total, net)'
      OBVIOUS
    <3>1. Reverses(editor[x], net)'
      <4> SUFFICES ASSUME editor'[x].pc = "append", editor'[x].line # NoLine
                   PROVE  editor'[x].amount = commissionOf(editor'[x].line) \/ (~NoLoss' /\ net' <= editor'[x].amount)
        BY DEF Reverses
      <4>1. x # r /\ editor'[x] = editor[x]
        BY <1>3, <1>4
      <4>2. editor[x].amount = commissionOf(editor[x].line) \/ (~NoLoss /\ net <= editor[x].amount)
        BY <1>1, <4>1 DEF WalletFits, Settles, Reverses
      <4>3. editor[x].amount \in Int /\ editor[r].amount \in Int /\ net \in Int
        BY <1>1 DEF ItemsTyped, Editor
      <4>4. net' <= net
        <5>1. CASE editor[r].line = NoLine
          BY <1>1, <1>2, <4>1, <5>1 DEF MovesAll, Editing, Apart
        <5>2. CASE editor[r].line # NoLine
          <6>1. editor[r].amount > 0
            BY <1>1, <1>2, <5>2 DEF Editing, Carries
          <6> QED
            BY <1>2, <4>3, <6>1
        <5> QED
          BY <5>1, <5>2
      <4> QED
        BY <1>0, <1>2, <4>1, <4>2, <4>3, <4>4
    <3> QED
      BY <1>14, <3>1 DEF Settles
  <2>3. board'.approval = "REJECTED" => board'.status = "CANCELLED"
    BY <1>1, <1>2 DEF WalletFits
  <2> QED
    BY <1>0, <1>12, <2>1, <2>2, <2>3 DEF WalletFits
<1> QED
  BY <1>0, <1>1, <1>2, <1>8, <1>9, <1>13, <1>15 DEF ItemsInv, TotalFitsLines, KeepsAProduct

\* Dispatch in the middle of an edit: the stock stays out.
LEMMA OrderIsShipped ==
    ASSUME ItemsInv, NEW r \in Editors, Ship(r),
           \A x \in Editors \ {r} : ~MovesOrder(x)
    PROVE  ItemsInv'
<1>1. /\ ItemsTyped /\ TotalFitsLines /\ KeepsAProduct /\ Editing /\ StockFits /\ WalletFits
      /\ \A x \in Editors : x # r => ~MovesAll(editor[x])
      /\ \A x \in Editors : editor[x].pc = "idle" => editor[x].line = NoLine
      /\ NoLine \notin AllLines
  BY EditStarts
<1>2. /\ UNCHANGED <<basket, placed, total, units, net, editor, slips>> /\ editor[r].pc = "idle"
      /\ board.status = "ON_SHELF" /\ ~board.deleted /\ board' = [board EXCEPT !.status = "GONE"]
  BY DEF Ship, EditorAt
<1>3. /\ board' \in Board /\ board'.status = "GONE" /\ ~board'.deleted
      /\ board'.deleted = board.deleted /\ board'.approval = board.approval /\ Holds(board) /\ Holds(board')
  BY <1>1, <1>2 DEF ItemsTyped, Board, Holds
<1>4. ItemsTyped'
  BY <1>1, <1>2, <1>3 DEF ItemsTyped
<1>5. Editing'
  <2>1. \A x \in Editors : Carries(editor[x], basket, board', units, slips)
    <3> SUFFICES ASSUME NEW x \in Editors
                 PROVE  Carries(editor[x], basket, board', units, slips)
      OBVIOUS
    <3>1. Carries(editor[x], basket, board, units, slips)
      BY <1>1 DEF Editing
    <3> QED
      BY <1>3, <3>1 DEF Carries
  <2> QED
    BY <1>1, <1>2, <2>1 DEF Editing
<1>6. StockFits'
  <2> SUFFICES ASSUME NEW k \in AllLines, k \in basket' \/ slips' = 0
               PROVE  UnitsFit(k, editor', basket', board', units')
    BY DEF StockFits
  <2>1. UnitsFit(k, editor, basket, board, units)
    BY <1>1, <1>2 DEF StockFits
  <2> QED
    BY <1>2, <1>3, <2>1 DEF UnitsFit, One
<1>7. WalletFits'
  <2> DEFINE q == editor[r]
  <2>1. q.pc = "idle" /\ ~MovesAll(q) /\ editor' = [editor EXCEPT ![r] = q]
    BY <1>1, <1>2 DEF ItemsTyped, MovesAll
  <2> HIDE DEF q
  <2>3. Fits(net, Cap(editor, total)) => Fits(net, Cap(editor', total'))
    BY <1>2
  <2>4. ~MovesAll(editor[r]) /\ net' = net /\ q.pc \notin {"credit", "sum"} /\ q.pc # "append"
    BY <1>2, <2>1 DEF MovesAll
  <2> QED
    BY <1>1, <1>2, <1>3, <2>1, <2>3, <2>4, WalletStep
<1> QED
  BY <1>1, <1>2, <1>4, <1>5, <1>6, <1>7 DEF ItemsInv, TotalFitsLines, NoLoss, KeepsAProduct

-----------------------------------------------------------------------------
\* A move of the whole order starts with every other editor at rest, and so
\* with every unit and every share where the lines say.
LEMMA BoardStarts ==
    ASSUME ItemsInv, NEW r \in Editors, OneAtATime(r), editor[r].line = NoLine
    PROVE  /\ \A x \in Editors : editor[x].line = NoLine /\ (x # r => editor[x].pc = "idle")
           /\ \A l \in AllLines : l \in basket \/ slips = 0 =>
                 units[l] = One(l \in basket /\ Holds(board))
           /\ editor[r].pc = "idle" =>
                 /\ board.deleted => Fits(net, 0)
                 /\ ~board.deleted /\ board.status # "CANCELLED" /\ board.approval # "PENDING" =>
                       Fits(net, OrZero(total))
           /\ Settles(editor[r], board, total, net) /\ total \in Int
<1>1. ItemsTyped /\ TotalFitsLines /\ Editing /\ StockFits /\ WalletFits
  BY DEF ItemsInv
<1>2. \A x \in Editors : editor[x].line = NoLine /\ (x # r => editor[x].pc = "idle")
  BY <1>1 DEF OneAtATime, EditorAt, Editing, Carries
<1>3. \A P : \A l \in AllLines : ~Has(editor, P, l)
  BY <1>2, ItemsAssumption DEF Has, Is, AllLines
<1>4. ASSUME NEW l \in AllLines, l \in basket \/ slips = 0
      PROVE  units[l] = One(l \in basket /\ Holds(board))
  <2>1. UnitsFit(l, editor, basket, board, units)
    BY <1>1, <1>4 DEF StockFits
  <2>2. ~Has(editor, Taking, l) /\ ~Has(editor, Returning, l) /\ units[l] \in Int
    BY <1>1, <1>3 DEF ItemsTyped
  <2> QED
    BY <2>1, <2>2 DEF UnitsFit, One
<1>5. Reversed(editor) = {}
  BY <1>3 DEF Reversed
<1>6. Cap(editor, total) = OrZero(total) /\ total \in Int
  BY <1>1, <1>5, NothingReversed DEF ItemsTyped
<1>7. Settles(editor[r], board, total, net)
  BY <1>1 DEF WalletFits
<1>8. ASSUME editor[r].pc = "idle"
      PROVE  /\ board.deleted => Fits(net, 0)
             /\ ~board.deleted /\ board.status # "CANCELLED" /\ board.approval # "PENDING" =>
                   Fits(net, OrZero(total))
  <2>1. \A x \in Editors : ~MovesAll(editor[x])
    BY <1>2, <1>8 DEF MovesAll
  <2> QED
    BY <1>1, <1>6, <2>1 DEF WalletFits, Settled
<1> QED
  BY <1>2, <1>4, <1>6, <1>7, <1>8

\* Editor r moves the whole order and goes on with q.
MovesOn(r, q) ==
    /\ q \in Editor /\ editor' = [editor EXCEPT ![r] = q]
    /\ q.line = NoLine /\ q.pc \in {"idle", "sum", "credit", "append"}
    /\ basket' = basket /\ placed' = placed /\ total' = total /\ slips' = slips
    /\ board' \in Board /\ units' \in [AllLines -> Int] /\ net' \in Int

\* Where the stock and the wallet stand after it.
OrderFits(q) ==
    /\ \A l \in AllLines : l \in basket \/ slips = 0 => units'[l] = One(l \in basket /\ Holds(board'))
    /\ board'.approval = "PENDING" => net' = 0 /\ q.pc \notin {"credit", "append"}
    /\ board'.approval = "REJECTED" => board'.status = "CANCELLED"
    /\ Settles(q, board', total, net')
    /\ NoLoss => net' >= 0
    /\ q.pc = "idle" =>
          /\ board'.deleted => Fits(net', 0)
          /\ ~board'.deleted /\ board'.status # "CANCELLED" /\ board'.approval # "PENDING" =>
                Fits(net', OrZero(total))

\* Such a move keeps the invariant.
LEMMA BoardStepKeeps ==
    ASSUME ItemsInv, NEW r \in Editors, OneAtATime(r), editor[r].line = NoLine,
           NEW q, MovesOn(r, q), OrderFits(q)
    PROVE  ItemsInv'
<1>1. /\ ItemsTyped /\ TotalFitsLines /\ KeepsAProduct /\ Editing /\ editor' = [editor EXCEPT ![r] = q]
      /\ basket' = basket /\ placed' = placed /\ total' = total /\ slips' = slips /\ q.line = NoLine
      /\ q.pc \in {"idle", "sum", "credit", "append"}
  BY DEF ItemsInv, MovesOn
<1>2. \A x \in Editors : editor[x].line = NoLine /\ (x # r => editor[x].pc = "idle")
  BY BoardStarts
<1>3. editor'[r] = q /\ \A x \in Editors : x # r => editor'[x] = editor[x]
  BY <1>1 DEF ItemsTyped
<1>4. ItemsTyped'
  BY <1>1 DEF ItemsTyped, MovesOn
<1>5. Editing'
  <2>1. Carries(q, basket', board', units', slips')
    <3>1. NoLine \notin basket
      BY <1>1, ItemsAssumption DEF ItemsTyped, AllLines
    <3> QED
      BY <1>1, <3>1 DEF Carries, Adding, Reversing
  <2> QED
    BY <1>1, <2>1, EditingAlone
<1>6. \A P : \A l \in AllLines : ~Has(editor', P, l)
  BY <1>1, <1>2, <1>3, ItemsAssumption DEF Has, Is, AllLines
<1>7. StockFits'
  <2> SUFFICES ASSUME NEW l \in AllLines, l \in basket' \/ slips' = 0
               PROVE  UnitsFit(l, editor', basket', board', units')
    BY DEF StockFits
  <2>1. units'[l] = One(l \in basket' /\ Holds(board'))
    BY <1>1 DEF OrderFits
  <2>2. ~Has(editor', Taking, l) /\ ~Has(editor', Returning, l)
    BY <1>6
  <2> QED
    BY <2>1, <2>2 DEF UnitsFit, One
<1>8. Cap(editor', total') = OrZero(total)
  <2>1. Reversed(editor') = {}
    BY <1>6 DEF Reversed
  <2> QED
    BY <1>1, <2>1, NothingReversed DEF ItemsTyped
<1>9. NoLoss' <=> NoLoss
  BY <1>1 DEF NoLoss
<1>10. WalletFits'
  <2>1. Unearned(editor, board, net)'
    BY <1>1, <1>2, <1>3 DEF Unearned, OrderFits
  <2>2. board'.approval = "REJECTED" => board'.status = "CANCELLED"
    BY DEF OrderFits
  <2>3. ASSUME NEW x \in Editors
        PROVE  Settles(editor[x], board, total, net)'
    <3>1. CASE x = r
      <4>1. Settles(q, board', total, net') /\ editor'[x] = q
        BY <1>3, <3>1 DEF OrderFits
      <4>2. ~(q.pc = "append" /\ q.line # NoLine)
        BY <1>1
      <4> QED
        BY <1>1, <1>9, <4>1, <4>2 DEF Settles, Reverses, Fits
    <3>2. CASE x # r
      <4>1. editor'[x].pc = "idle"
        BY <1>2, <1>3, <3>2
      <4> QED
        BY <4>1 DEF Settles, Reverses
    <3> QED
      BY <3>1, <3>2
  <2>4. Settled(editor, board, total, net)'
    <3>1. (\A x \in Editors : ~MovesAll(editor'[x])) => q.pc = "idle"
      BY <1>1, <1>3 DEF MovesAll
    <3> QED
      BY <1>8, <1>9, <3>1 DEF Settled, Fits, OrderFits
  <2>5. (NoLoss => net >= 0)'
    BY <1>9 DEF OrderFits
  <2> QED
    BY <2>1, <2>2, <2>3, <2>4, <2>5 DEF WalletFits
<1> QED
  BY <1>1, <1>4, <1>5, <1>7, <1>10 DEF ItemsInv, TotalFitsLines, NoLoss, KeepsAProduct

\* One(p) are the units of a line of the order: the board moves all or none.
LEMMA MoveFits ==
    ASSUME ItemsTyped, NEW b, NEW c, NEW S, NEW n \in {-1, 0, 1}, Move(S, n),
           \A l \in AllLines : l \in basket \/ slips = 0 => units[l] = One(l \in basket /\ Holds(b)),
           \/ n = -1 /\ S = basket /\ Holds(b) /\ ~Holds(c)
           \/ n = 1 /\ S = basket /\ ~Holds(b) /\ Holds(c)
           \/ (S = {} \/ n = 0) /\ (Holds(b) <=> Holds(c))
    PROVE  /\ units' \in [AllLines -> Int]
           /\ \A l \in AllLines : l \in basket \/ slips = 0 => units'[l] = One(l \in basket /\ Holds(c))
<1>1. units' = [l \in AllLines |-> IF l \in S THEN units[l] + n ELSE units[l]]
  BY DEF Move
<1>2. units \in [AllLines -> Int]
  BY DEF ItemsTyped
<1>3. units' \in [AllLines -> Int]
  BY <1>1, <1>2
<1>4. ASSUME NEW l \in AllLines, l \in basket \/ slips = 0
      PROVE  units'[l] = One(l \in basket /\ Holds(c))
  <2>1. units[l] = One(l \in basket /\ Holds(b)) /\ units[l] \in Int
    BY <1>2, <1>4
  <2>2. units'[l] = IF l \in S THEN units[l] + n ELSE units[l]
    BY <1>1
  <2> QED
    BY <2>1, <2>2 DEF One
<1> QED
  BY <1>3, <1>4

\* Cancel, delete and restore move the units of all lines; the wallet follows
\* in a step of its own.
LEMMA OrderIsCancelled ==
    ASSUME ItemsInv, NEW r \in Editors, Cancel(r), OneAtATime(r)
    PROVE  ItemsInv'
<1>1. ItemsTyped /\ Editing /\ WalletFits /\ board \in Board
  BY DEF ItemsInv, ItemsTyped
<1>2. editor[r].pc = "idle" /\ editor[r].line = NoLine
  BY <1>1 DEF Cancel, EditorAt, Editing, Carries
<1>3. /\ \A l \in AllLines : l \in basket \/ slips = 0 =>
            units[l] = One(l \in basket /\ Holds(board))
      /\ editor[r].pc = "idle" =>
            /\ board.deleted => Fits(net, 0)
            /\ ~board.deleted /\ board.status # "CANCELLED" /\ board.approval # "PENDING" =>
                  Fits(net, OrZero(total))
      /\ Settles(editor[r], board, total, net) /\ total \in Int
  BY <1>2, BoardStarts
<1>4. /\ board.approval = "PENDING" => net = 0
      /\ board.approval = "REJECTED" => board.status = "CANCELLED"
      /\ net \in Int /\ (NoLoss => net >= 0) /\ units \in [AllLines -> Int]
  BY <1>1 DEF WalletFits, Unearned, ItemsTyped
<1>5. /\ board.status = "ON_SHELF" /\ ~board.deleted /\ board' = [board EXCEPT !.status = "CANCELLED"]
      /\ Move(basket, -1) /\ Then(r, Busy("sum", NoLine, 0)) /\ UNCHANGED <<basket, placed, total, net, slips>>
  BY DEF Cancel
<1>6. /\ board' \in Board /\ board'.status = "CANCELLED" /\ ~board'.deleted /\ board'.approval = board.approval
      /\ Holds(board) /\ ~Holds(board')
  BY <1>1, <1>5 DEF Board, Holds
<1>7. /\ units' \in [AllLines -> Int]
      /\ \A l \in AllLines : l \in basket \/ slips = 0 => units'[l] = One(l \in basket /\ Holds(board'))
  BY <1>1, <1>3, <1>5, <1>6, MoveFits
<1> DEFINE q == Busy("sum", NoLine, 0)
<1>8. q \in Editor /\ q.pc = "sum" /\ q.line = NoLine
  BY DEF Busy, Editor
<1>20. MovesOn(r, q)
  BY <1>4, <1>5, <1>6, <1>7, <1>8 DEF MovesOn, Then
<1> HIDE DEF q
<1>21. OrderFits(q)
  BY <1>4, <1>5, <1>6, <1>7, <1>8 DEF OrderFits, Settles, Reverses
<1> QED
  BY <1>2, <1>20, <1>21, BoardStepKeeps

LEMMA ClaimIsRejected ==
    ASSUME ItemsInv, NEW r \in Editors, RejectClaim(r), OneAtATime(r)
    PROVE  ItemsInv'
<1>1. ItemsTyped /\ Editing /\ WalletFits /\ board \in Board
  BY DEF ItemsInv, ItemsTyped
<1>2. editor[r].pc = "idle" /\ editor[r].line = NoLine
  BY <1>1 DEF RejectClaim, EditorAt, Editing, Carries
<1>3. /\ \A l \in AllLines : l \in basket \/ slips = 0 =>
            units[l] = One(l \in basket /\ Holds(board))
      /\ editor[r].pc = "idle" =>
            /\ board.deleted => Fits(net, 0)
            /\ ~board.deleted /\ board.status # "CANCELLED" /\ board.approval # "PENDING" =>
                  Fits(net, OrZero(total))
      /\ Settles(editor[r], board, total, net) /\ total \in Int
  BY <1>2, BoardStarts
<1>4. /\ board.approval = "PENDING" => net = 0
      /\ board.approval = "REJECTED" => board.status = "CANCELLED"
      /\ net \in Int /\ (NoLoss => net >= 0) /\ units \in [AllLines -> Int]
  BY <1>1 DEF WalletFits, Unearned, ItemsTyped
<1>5. /\ board.status = "ON_SHELF" /\ ~board.deleted /\ board.approval = "PENDING"
      /\ board' = [board EXCEPT !.status = "CANCELLED", !.approval = "REJECTED"]
      /\ Move(basket, -1) /\ UNCHANGED <<basket, placed, total, net, editor, slips>>
  BY DEF RejectClaim
<1>6. /\ board' \in Board /\ board'.status = "CANCELLED" /\ ~board'.deleted /\ board'.approval = "REJECTED"
      /\ Holds(board) /\ ~Holds(board')
  BY <1>1, <1>5 DEF Board, Holds
<1>7. /\ units' \in [AllLines -> Int]
      /\ \A l \in AllLines : l \in basket \/ slips = 0 => units'[l] = One(l \in basket /\ Holds(board'))
  BY <1>1, <1>3, <1>5, <1>6, MoveFits
<1> DEFINE q == editor[r]
<1>8. q \in Editor /\ q.pc = "idle" /\ q.line = NoLine /\ editor' = [editor EXCEPT ![r] = q]
  BY <1>1, <1>2, <1>5 DEF ItemsTyped
<1> HIDE DEF q
<1>20. MovesOn(r, q)
  BY <1>4, <1>5, <1>6, <1>7, <1>8 DEF MovesOn
<1>21. OrderFits(q)
  BY <1>4, <1>5, <1>6, <1>7, <1>8 DEF OrderFits, Settles, Reverses
<1> QED
  BY <1>2, <1>20, <1>21, BoardStepKeeps

LEMMA ClaimIsApproved ==
    ASSUME ItemsInv, NEW r \in Editors, ApproveClaim(r), OneAtATime(r)
    PROVE  ItemsInv'
<1>1. ItemsTyped /\ Editing /\ WalletFits /\ board \in Board
  BY DEF ItemsInv, ItemsTyped
<1>2. editor[r].pc = "idle" /\ editor[r].line = NoLine
  BY <1>1 DEF ApproveClaim, EditorAt, Editing, Carries
<1>3. /\ \A l \in AllLines : l \in basket \/ slips = 0 =>
            units[l] = One(l \in basket /\ Holds(board))
      /\ editor[r].pc = "idle" =>
            /\ board.deleted => Fits(net, 0)
            /\ ~board.deleted /\ board.status # "CANCELLED" /\ board.approval # "PENDING" =>
                  Fits(net, OrZero(total))
      /\ Settles(editor[r], board, total, net) /\ total \in Int
  BY <1>2, BoardStarts
<1>4. /\ board.approval = "PENDING" => net = 0
      /\ board.approval = "REJECTED" => board.status = "CANCELLED"
      /\ net \in Int /\ (NoLoss => net >= 0) /\ units \in [AllLines -> Int]
  BY <1>1 DEF WalletFits, Unearned, ItemsTyped
<1>5. /\ board.approval = "PENDING" /\ ~board.deleted /\ board' = [board EXCEPT !.approval = "APPROVED"]
      /\ UNCHANGED <<basket, placed, total, units, net, slips>>
  BY DEF ApproveClaim
<1>6. /\ board' \in Board /\ board'.status = board.status /\ ~board'.deleted
      /\ board'.approval = "APPROVED" /\ (Holds(board) <=> Holds(board'))
  BY <1>1, <1>5 DEF Board, Holds
<1> DEFINE q == IF total > 0 THEN Busy("credit", NoLine, total) ELSE Free
<1>7. editor' = [editor EXCEPT ![r] = q]
  BY DEF ApproveClaim, Then
<1>8. /\ q \in Editor /\ q.line = NoLine
      /\ \/ q.pc = "credit" /\ q.amount = total /\ total > 0
         \/ q.pc = "idle" /\ total <= 0
  BY <1>3 DEF Busy, Free, Editor
<1> HIDE DEF q
<1>20. MovesOn(r, q)
  BY <1>4, <1>5, <1>6, <1>7, <1>8 DEF MovesOn
<1>21. OrderFits(q)
  <2>1. \A l \in AllLines : l \in basket \/ slips = 0 => units'[l] = One(l \in basket /\ Holds(board'))
    BY <1>3, <1>5, <1>6 DEF One
  <2>2. Fits(net', 0) /\ (total <= 0 => Fits(net', OrZero(total)))
    BY <1>3, <1>4, <1>5 DEF Fits, OrZero
  <2> QED
    BY <1>3, <1>4, <1>5, <1>6, <1>8, <2>1, <2>2 DEF OrderFits, Settles, Reverses
<1> QED
  BY <1>2, <1>20, <1>21, BoardStepKeeps

LEMMA ClaimIsCredited ==
    ASSUME ItemsInv, NEW r \in Editors, CreditClaim(r), OneAtATime(r)
    PROVE  ItemsInv'
<1>1. ItemsTyped /\ Editing /\ WalletFits /\ board \in Board
  BY DEF ItemsInv, ItemsTyped
<1>2. editor[r].pc = "credit" /\ editor[r].line = NoLine
  BY <1>1 DEF CreditClaim, EditorAt, Editing, Carries
<1>3. /\ \A l \in AllLines : l \in basket \/ slips = 0 =>
            units[l] = One(l \in basket /\ Holds(board))
      /\ editor[r].pc = "idle" =>
            /\ board.deleted => Fits(net, 0)
            /\ ~board.deleted /\ board.status # "CANCELLED" /\ board.approval # "PENDING" =>
                  Fits(net, OrZero(total))
      /\ Settles(editor[r], board, total, net) /\ total \in Int
  BY <1>2, BoardStarts
<1>4. /\ board.approval = "PENDING" => net = 0
      /\ board.approval = "REJECTED" => board.status = "CANCELLED"
      /\ net \in Int /\ (NoLoss => net >= 0) /\ units \in [AllLines -> Int]
  BY <1>1 DEF WalletFits, Unearned, ItemsTyped
<1>5. /\ net' = net + editor[r].amount /\ Then(r, Free) /\ UNCHANGED <<basket, placed, board, total, units, slips>>
  BY DEF CreditClaim
<1>6. Fits(net, 0) /\ editor[r].amount = total /\ total > 0 /\ ~board.deleted /\ board.approval # "PENDING"
  BY <1>1, <1>2, <1>3 DEF Settles, WalletFits, Unearned
<1>7. net' \in Int /\ Fits(net', OrZero(total)) /\ (NoLoss => net' >= 0)
  BY <1>3, <1>4, <1>5, <1>6 DEF Fits, OrZero
<1> DEFINE q == Free
<1>8. q \in Editor /\ q.pc = "idle" /\ q.line = NoLine /\ editor' = [editor EXCEPT ![r] = q]
  BY <1>5 DEF Free, Editor, Then
<1> HIDE DEF q
<1>20. MovesOn(r, q)
  BY <1>1, <1>3, <1>4, <1>5, <1>7, <1>8 DEF MovesOn
<1>21. OrderFits(q)
  BY <1>3, <1>4, <1>5, <1>6, <1>7, <1>8 DEF OrderFits, Settles, Reverses
<1> QED
  BY <1>2, <1>20, <1>21, BoardStepKeeps

LEMMA OrderIsDeleted ==
    ASSUME ItemsInv, NEW r \in Editors, DeleteOrder(r), OneAtATime(r)
    PROVE  ItemsInv'
<1>1. ItemsTyped /\ Editing /\ WalletFits /\ board \in Board
  BY DEF ItemsInv, ItemsTyped
<1>2. editor[r].pc = "idle" /\ editor[r].line = NoLine
  BY <1>1 DEF DeleteOrder, EditorAt, Editing, Carries
<1>3. /\ \A l \in AllLines : l \in basket \/ slips = 0 =>
            units[l] = One(l \in basket /\ Holds(board))
      /\ editor[r].pc = "idle" =>
            /\ board.deleted => Fits(net, 0)
            /\ ~board.deleted /\ board.status # "CANCELLED" /\ board.approval # "PENDING" =>
                  Fits(net, OrZero(total))
      /\ Settles(editor[r], board, total, net) /\ total \in Int
  BY <1>2, BoardStarts
<1>4. /\ board.approval = "PENDING" => net = 0
      /\ board.approval = "REJECTED" => board.status = "CANCELLED"
      /\ net \in Int /\ (NoLoss => net >= 0) /\ units \in [AllLines -> Int]
  BY <1>1 DEF WalletFits, Unearned, ItemsTyped
<1>5. /\ ~board.deleted /\ board' = [board EXCEPT !.deleted = TRUE]
      /\ Move(IF board.status = "ON_SHELF" THEN basket ELSE {}, -1)
      /\ Then(r, Busy("sum", NoLine, 0)) /\ UNCHANGED <<basket, placed, total, net, slips>>
  BY DEF DeleteOrder
<1>6. /\ board' \in Board /\ board'.status = board.status /\ board'.deleted
      /\ board'.approval = board.approval
      /\ board.status = "ON_SHELF" => Holds(board) /\ ~Holds(board')
      /\ board.status # "ON_SHELF" => (Holds(board) <=> Holds(board'))
  BY <1>1, <1>5 DEF Board, Holds
<1>7. /\ units' \in [AllLines -> Int]
      /\ \A l \in AllLines : l \in basket \/ slips = 0 => units'[l] = One(l \in basket /\ Holds(board'))
  BY <1>1, <1>3, <1>5, <1>6, MoveFits
<1> DEFINE q == Busy("sum", NoLine, 0)
<1>8. q \in Editor /\ q.pc = "sum" /\ q.line = NoLine
  BY DEF Busy, Editor
<1>20. MovesOn(r, q)
  BY <1>4, <1>5, <1>6, <1>7, <1>8 DEF MovesOn, Then
<1> HIDE DEF q
<1>21. OrderFits(q)
  BY <1>4, <1>5, <1>6, <1>7, <1>8 DEF OrderFits, Settles, Reverses
<1> QED
  BY <1>2, <1>20, <1>21, BoardStepKeeps

LEMMA OrderIsRestored ==
    ASSUME ItemsInv, NEW r \in Editors, RestoreOrder(r), OneAtATime(r)
    PROVE  ItemsInv'
<1>1. ItemsTyped /\ Editing /\ WalletFits /\ board \in Board
  BY DEF ItemsInv, ItemsTyped
<1>2. editor[r].pc = "idle" /\ editor[r].line = NoLine
  BY <1>1 DEF RestoreOrder, EditorAt, Editing, Carries
<1>3. /\ \A l \in AllLines : l \in basket \/ slips = 0 =>
            units[l] = One(l \in basket /\ Holds(board))
      /\ editor[r].pc = "idle" =>
            /\ board.deleted => Fits(net, 0)
            /\ ~board.deleted /\ board.status # "CANCELLED" /\ board.approval # "PENDING" =>
                  Fits(net, OrZero(total))
      /\ Settles(editor[r], board, total, net) /\ total \in Int
  BY <1>2, BoardStarts
<1>4. /\ board.approval = "PENDING" => net = 0
      /\ board.approval = "REJECTED" => board.status = "CANCELLED"
      /\ net \in Int /\ (NoLoss => net >= 0) /\ units \in [AllLines -> Int]
  BY <1>1 DEF WalletFits, Unearned, ItemsTyped
<1>5. /\ board.deleted /\ board' = [board EXCEPT !.deleted = FALSE]
      /\ Move(IF board.status = "ON_SHELF" THEN basket ELSE {}, 1)
      /\ UNCHANGED <<basket, placed, total, net, slips>>
  BY DEF RestoreOrder
<1>6. /\ board' \in Board /\ board'.status = board.status /\ ~board'.deleted
      /\ board'.approval = board.approval
      /\ board.approval \in {"NONE", "PENDING", "APPROVED", "REJECTED"}
      /\ board.status = "ON_SHELF" => ~Holds(board) /\ Holds(board')
      /\ board.status # "ON_SHELF" => (Holds(board) <=> Holds(board'))
  BY <1>1, <1>5 DEF Board, Holds
<1>7. /\ units' \in [AllLines -> Int]
      /\ \A l \in AllLines : l \in basket \/ slips = 0 => units'[l] = One(l \in basket /\ Holds(board'))
  BY <1>1, <1>3, <1>5, <1>6, MoveFits
<1> DEFINE q == IF total > 0 /\ board.approval \in {"NONE", "APPROVED"}
                THEN Busy("credit", NoLine, total) ELSE Free
<1>8. editor' = [editor EXCEPT ![r] = q]
  BY DEF RestoreOrder, Then
<1>9. /\ q \in Editor /\ q.line = NoLine
      /\ \/ /\ q.pc = "credit" /\ q.amount = total /\ total > 0
            /\ board.approval \in {"NONE", "APPROVED"}
         \/ q.pc = "idle" /\ (total <= 0 \/ board.approval \in {"PENDING", "REJECTED"})
  BY <1>3, <1>6 DEF Busy, Free, Editor
<1> HIDE DEF q
<1>20. MovesOn(r, q)
  BY <1>4, <1>5, <1>6, <1>7, <1>8, <1>9 DEF MovesOn
<1>21. OrderFits(q)
  <2>1. Fits(net', 0) /\ (total <= 0 => Fits(net', OrZero(total)))
    BY <1>2, <1>3, <1>5 DEF Fits, OrZero
  <2> QED
    BY <1>2, <1>4, <1>5, <1>6, <1>7, <1>9, <2>1 DEF OrderFits, Settles, Reverses
<1> QED
  BY <1>2, <1>20, <1>21, BoardStepKeeps

LEMMA OrderIsSummed ==
    ASSUME ItemsInv, NEW r \in Editors, SumOrder(r), OneAtATime(r)
    PROVE  ItemsInv'
<1>1. ItemsTyped /\ Editing /\ WalletFits /\ board \in Board
  BY DEF ItemsInv, ItemsTyped
<1>2. editor[r].pc = "sum" /\ editor[r].line = NoLine
  BY <1>1 DEF SumOrder, EditorAt, Editing, Carries
<1>3. /\ \A l \in AllLines : l \in basket \/ slips = 0 =>
            units[l] = One(l \in basket /\ Holds(board))
      /\ editor[r].pc = "idle" =>
            /\ board.deleted => Fits(net, 0)
            /\ ~board.deleted /\ board.status # "CANCELLED" /\ board.approval # "PENDING" =>
                  Fits(net, OrZero(total))
      /\ Settles(editor[r], board, total, net) /\ total \in Int
  BY <1>2, BoardStarts
<1>4. /\ board.approval = "PENDING" => net = 0
      /\ board.approval = "REJECTED" => board.status = "CANCELLED"
      /\ net \in Int /\ (NoLoss => net >= 0) /\ units \in [AllLines -> Int]
  BY <1>1 DEF WalletFits, Unearned, ItemsTyped
<1>5. UNCHANGED <<basket, placed, board, total, units, net, slips>>
  BY DEF SumOrder
<1>6. board.deleted \/ board.status = "CANCELLED"
  BY <1>2, <1>3 DEF Settles
<1> DEFINE q == IF net > 0 THEN Busy("append", NoLine, net) ELSE Free
<1>7. editor' = [editor EXCEPT ![r] = q]
  BY DEF SumOrder, Then
<1>8. /\ q \in Editor /\ q.line = NoLine
      /\ \/ q.pc = "append" /\ q.amount = net /\ net > 0
         \/ q.pc = "idle" /\ net <= 0
  BY <1>4 DEF Busy, Free, Editor
<1> HIDE DEF q
<1>20. MovesOn(r, q)
  BY <1>1, <1>4, <1>5, <1>7, <1>8 DEF MovesOn
<1>21. OrderFits(q)
  <2>1. net <= 0 => Fits(net', 0)
    BY <1>4, <1>5 DEF Fits
  <2> QED
    BY <1>3, <1>4, <1>5, <1>6, <1>8, <2>1 DEF OrderFits, Settles, Reverses
<1> QED
  BY <1>2, <1>20, <1>21, BoardStepKeeps

-----------------------------------------------------------------------------
\* Every step of every request and of the board.
LEMMA ItemsStep ==
    ASSUME ItemsInv, [ItemsNext]_itemsVars
    PROVE  ItemsInv'
<1>1. CASE ItemsNext
  <2>1. ASSUME NEW r \in Editors, EditStep(r), \A x \in Editors \ {r} : ~MovesOrder(x)
        PROVE  ItemsInv'
    BY <2>1, AddIsRead, RemovalIsRead, LineIsPushed, AddedIsTaken, AddIsUndone, LineIsPulled,
       TotalIsTidied, RemovedIsReturned, NetIsRead, ShareIsAppended, OrderIsShipped DEF EditStep
  <2>2. ASSUME NEW r \in Editors, BoardStep(r), OneAtATime(r)
        PROVE  ItemsInv'
    BY <2>2, OrderIsCancelled, ClaimIsRejected, ClaimIsApproved, ClaimIsCredited,
       OrderIsDeleted, OrderIsRestored, OrderIsSummed DEF BoardStep
  <2> QED
    BY <1>1, <2>1, <2>2 DEF ItemsNext
<1>2. CASE UNCHANGED itemsVars
  <2>1. NoLoss' <=> NoLoss
    BY <1>2 DEF itemsVars, NoLoss
  <2>2. UNCHANGED <<basket, placed, board, total, units, net, editor, slips>>
    BY <1>2 DEF itemsVars
  <2>3. (ItemsTyped /\ TotalFitsLines /\ KeepsAProduct /\ Editing /\ StockFits)'
    BY <2>1, <2>2 DEF ItemsInv, ItemsTyped, TotalFitsLines, KeepsAProduct, Editing, StockFits
  <2>4. WalletFits'
    BY <2>1, <2>2 DEF ItemsInv, WalletFits, Unearned, Settles, Reverses, Settled, Fits
  <2> QED
    BY <2>3, <2>4 DEF ItemsInv
<1> QED
  BY <1>1, <1>2

\* When nobody edits, the invariant says what the lines promise.
LEMMA ItemsAddUp ==
    ASSUME ItemsInv
    PROVE  BasketAddsUp
<1>1. /\ ItemsTyped /\ TotalFitsLines /\ KeepsAProduct /\ Editing /\ StockFits /\ WalletFits
  BY DEF ItemsInv
<1>2. ASSUME EditorsRest
      PROVE  /\ \A l \in AllLines, P \in {Taking, Returning, Reversing} : ~Has(editor, P, l)
             /\ \A x \in Editors : ~MovesAll(editor[x])
  BY <1>2 DEF EditorsRest, EditorAt, Has, Is, Taking, Returning, Reversing, MovesAll
<1>3. LinesHoldStock
  <2> SUFFICES ASSUME EditorsRest, NEW l \in AllLines
               PROVE  IF l \in basket THEN units[l] = IF HoldsStock THEN 1 ELSE 0
                      ELSE units[l] = 0 \/ slips > 0
    BY DEF LinesHoldStock
  <2>1. l \in basket \/ slips = 0 => UnitsFit(l, editor, basket, board, units)
    BY <1>1 DEF StockFits
  <2>2. ~Has(editor, Taking, l) /\ ~Has(editor, Returning, l) /\ units[l] \in Int /\ slips \in Nat
    BY <1>1, <1>2 DEF ItemsTyped
  <2> QED
    BY <2>1, <2>2 DEF UnitsFit, One, Holds, HoldsStock
<1>4. WalletFitsLines
  <2> SUFFICES ASSUME EditorsRest, ~board.deleted, board.status # "CANCELLED"
               PROVE  IF board.approval = "PENDING" THEN net = 0
                      ELSE net <= OrZero(total) /\ (NoLoss => net = total)
    BY DEF WalletFitsLines
  <2>1. total \in Int /\ basket \subseteq placed \cup Extras /\ placed \subseteq Bought
    BY <1>1 DEF ItemsTyped
  <2>2. Cap(editor, total) = OrZero(total)
    <3>1. Reversed(editor) = {}
      BY <1>2 DEF Reversed
    <3> QED
      BY <2>1, <3>1, NothingReversed
  <2>3. NoLoss => total >= 0
    BY <1>1, <2>1, NoLossAddsUp DEF TotalFitsLines
  <2>4. NoLoss => OrZero(total) = total
    BY <2>1, <2>3, OrZeroIsNat
  <2> QED
    BY <1>1, <1>2, <2>2, <2>4 DEF WalletFits, Unearned, Settled, Fits
<1> QED
  BY <1>1, <1>3, <1>4 DEF BasketAddsUp

\* Whatever lines are added, pulled and undone by however many admins, the
\* order's figure, its stock and the wallet follow the lines that are there; if a
\* line was sold at a loss, the figure is at least theirs and the wallet at most
\* the figure.
THEOREM BasketAlwaysAddsUp == ItemsSpec => []BasketAddsUp
<1>1. ItemsInit => ItemsInv
  BY ItemsStart
<1>2. ItemsInv /\ [ItemsNext]_itemsVars => ItemsInv'
  BY ItemsStep
<1>3. ItemsInv => BasketAddsUp
  BY ItemsAddUp
<1> QED
  BY <1>1, <1>2, <1>3, PTL DEF ItemsSpec

-----------------------------------------------------------------------------
(***************************************************************************)
(* The invoices                                                            *)
(***************************************************************************)
\* An errand that has written, or never will.
Through == {"drop", "done"}
AnyNumber == Numbers \cup {CHOOSE n \in Numbers : TRUE}
Paper == [state: {"none", "live", "deleted"}, number: AnyNumber,
          fileKey: Errands \cup {NoFile}, viewed: BOOLEAN]
Asked == [pc: {"idle", "number", "upload", "write", "drop", "stream", "view", "done"},
          what: {"none", "create", "update", "replace", "remove", "open"},
          paper: Papers \cup {NoFile}, number: AnyNumber, fileKey: Errands \cup {NoFile}]

PapersTyped ==
    /\ invoice \in [Papers -> Paper] /\ bucket \subseteq Errands
    /\ errand \in [Errands -> Asked] /\ opened \in [Papers -> SUBSET Errands]
    /\ serial \in BOOLEAN /\ faults \in Nat

\* The object of a record, and the one an errand knows of, was uploaded for the
\* same record by an errand that has written.
Owned ==
    /\ \A i \in Papers : LET k == invoice[i].fileKey
                         IN k \in Errands => errand[k].paper = i /\ errand[k].pc \in Through
    /\ \A e \in Errands : LET k == errand[e].fileKey
                         IN k \in Errands => errand[k].paper = errand[e].paper /\ errand[k].pc \in Through

Uploads(q) == q.pc = "write" /\ q.what \in {"create", "replace"}
Spares(q) == q.pc = "drop" => \A i \in Live : invoice[i].fileKey # q.fileKey
Kind(q) ==
    /\ q.pc = "number" => q.what \in {"create", "update"}
    /\ q.pc = "upload" => q.what \in {"create", "replace"}
    /\ q.pc \in {"view", "stream"} => q.what = "open"
    /\ q.pc \notin {"idle", "done"} => q.paper \in Papers
Errandly ==
    \A e \in Errands :
        /\ Uploads(errand[e]) => e \in bucket
        /\ Spares(errand[e]) /\ Kind(errand[e])
        /\ errand[e].pc = "view" => errand[e].fileKey \in opened[errand[e].paper]

Active(q) == q.pc \notin {"idle", "done"}
Leaves(e, q, k) == (Uploads(q) /\ k = e) \/ (q.pc = "drop" /\ k = q.fileKey)

InTurn ==
    /\ \A d, e \in Errands : Active(errand[d]) /\ Active(errand[e]) => d = e
    /\ \A e \in Errands : Active(errand[e]) /\ errand[e].pc # "drop" /\ errand[e].paper \in Live
                            => errand[e].fileKey = invoice[errand[e].paper].fileKey
    /\ ViewedWasOpened
    /\ faults = 0 => \A k \in bucket : (\E i \in Live : invoice[i].fileKey = k)
                                   \/ \E e \in Errands : Leaves(e, errand[e], k)

PapersInv == PapersTyped /\ Owned /\ Errandly /\ LiveFileExists /\ OneLivePerNumber /\ (serial => InTurn)

-----------------------------------------------------------------------------
\* A tribe without invoices.
LEMMA PapersStart == InvoicesInit => PapersInv
  <1> SUFFICES ASSUME InvoicesInit PROVE PapersInv
    OBVIOUS
  <1>1. NoErrand \in Asked /\ NoErrand.pc = "idle" /\ NoErrand.fileKey \notin Errands
    BY InvoiceAssumption DEF NoErrand, Asked, AnyNumber
  <1>2. PapersTyped
    <2>1. serial \in BOOLEAN
      BY InvoiceAssumption, Zenon DEF InvoicesInit
    <2>2. invoice \in [Papers -> Paper]
      BY DEF InvoicesInit, Paper, AnyNumber
    <2>3. /\ errand \in [Errands -> Asked] /\ bucket \subseteq Errands
          /\ opened \in [Papers -> SUBSET Errands] /\ faults \in Nat
      BY <1>1 DEF InvoicesInit
    <2>4. QED
      BY <2>1, <2>2, <2>3 DEF PapersTyped
  <1>3. /\ \A i \in Papers : invoice[i].state = "none" /\ invoice[i].fileKey \notin Errands
        /\ \A e \in Errands : errand[e] = NoErrand
        /\ bucket = {}
    BY InvoiceAssumption DEF InvoicesInit
  <1>4. Live = {}
    BY <1>3 DEF Live
  <1>5. Owned /\ Errandly /\ LiveFileExists /\ OneLivePerNumber /\ InTurn
    BY <1>1, <1>3, <1>4 DEF Owned, Errandly, Uploads, Spares, Kind, LiveFileExists, OneLivePerNumber,
       InTurn, Active, ViewedWasOpened
  <1>6. QED
    BY <1>2, <1>5 DEF PapersInv

\* What the errand that goes on may rely on.
LEMMA AtWork ==
  ASSUME PapersInv, NEW e \in Errands
  PROVE  /\ errand \in [Errands -> Asked] /\ errand[e] \in Asked
         /\ invoice \in [Papers -> Paper] /\ bucket \subseteq Errands
         /\ opened \in [Papers -> SUBSET Errands] /\ faults \in Nat /\ serial \in BOOLEAN
         /\ Kind(errand[e]) /\ (Uploads(errand[e]) => e \in bucket) /\ Spares(errand[e])
  BY DEF PapersInv, PapersTyped, Errandly

\* In turn, what is in the bucket is a live invoice's, or the errand's to delete.
LEMMA MyTurn ==
  ASSUME PapersInv, serial, NEW e \in Errands,
         Active(errand[e]) \/ \A d \in Errands : ~Active(errand[d])
  PROVE  /\ \A d \in Errands : d # e => ~Active(errand[d])
         /\ faults = 0 => \A k \in bucket : (\E i \in Live : invoice[i].fileKey = k)
                                           \/ Leaves(e, errand[e], k)
  <1>1. \A d \in Errands : d # e => ~Active(errand[d])
    BY DEF PapersInv, InTurn
  <1>2. \A d \in Errands : \A k : Leaves(d, errand[d], k) => Active(errand[d])
    BY DEF Leaves, Uploads, Active
  <1>3. QED
    BY <1>1, <1>2 DEF PapersInv, InTurn

\* The errand e goes on as r.
Proceeds(e, r) ==
    /\ errand' = [errand EXCEPT ![e] = r] /\ r \in Asked /\ Kind(r)
    /\ errand[e].pc = "idle" \/ r.paper = errand[e].paper
    /\ errand[e].pc \in Through => r.pc \in Through
    /\ \/ errand[e].pc # "idle" /\ r.fileKey = errand[e].fileKey
       \/ r.fileKey \notin Errands
       \/ r.fileKey = e /\ r.pc \in Through
       \/ r.fileKey # e /\ errand[r.fileKey].paper = r.paper /\ errand[r.fileKey].pc \in Through

\* What it does to the records and the objects.
Files(e, r) ==
    /\ invoice' \in [Papers -> Paper] /\ bucket' \subseteq Errands
    /\ opened' \in [Papers -> SUBSET Errands] /\ \A i \in Papers : opened[i] \subseteq opened'[i]
    /\ serial' = serial /\ faults' \in Nat
    /\ \A i \in Papers : \/ /\ invoice'[i].fileKey = invoice[i].fileKey
                            /\ invoice'[i].state = "live" => invoice[i].state = "live"
                         \/ /\ invoice'[i].fileKey = e /\ i = r.paper
                            /\ errand[e].pc \notin Through /\ r.pc \in Through
    /\ \A k \in bucket \ bucket' : errand[k].pc \in Through
    /\ Uploads(r) => e \in bucket'
    /\ r.pc = "drop" => \A i \in Papers : invoice'[i].state = "live" => invoice'[i].fileKey # r.fileKey
    /\ r.pc = "view" => r.fileKey \in opened'[r.paper]
    /\ \A i \in Papers : invoice'[i].state = "live" => invoice'[i].fileKey \in bucket'
    /\ OneLivePerNumber'

\* What more holds in turn.
Turns(e, r) ==
    /\ Active(errand[e]) \/ \A d \in Errands : ~Active(errand[d])
    /\ Active(r) /\ r.pc # "drop" /\ invoice'[r.paper].state = "live" => r.fileKey = invoice'[r.paper].fileKey
    /\ \A i \in Papers : invoice'[i].state = "live" /\ invoice'[i].viewed => invoice'[i].fileKey \in opened'[i]
    /\ faults' = 0 => faults = 0 /\ \A k \in bucket' :
         (\E i \in Papers : invoice'[i].state = "live" /\ invoice'[i].fileKey = k) \/ Leaves(e, r, k)

\* One errand moves on: what the others hold.
LEMMA ErrandStep ==
  ASSUME PapersInv, NEW e \in Errands, NEW r, Proceeds(e, r), Files(e, r), serial => Turns(e, r)
  PROVE  PapersInv'
  <1>1. /\ errand \in [Errands -> Asked] /\ r \in Asked
        /\ \A d \in Errands : errand'[d] = IF d = e THEN r ELSE errand[d]
        /\ errand' \in [Errands -> Asked]
    BY AtWork DEF Proceeds
  <1>2. PapersTyped'
    BY <1>1, AtWork DEF PapersTyped, Files
  <1>3. \A k \in Errands : errand[k].pc \in Through =>
            errand'[k].pc \in Through /\ errand'[k].paper = errand[k].paper
    BY <1>1 DEF Proceeds, Through
  <1>a. \A i \in Papers : \/ /\ invoice'[i].fileKey = invoice[i].fileKey
                             /\ invoice'[i].state = "live" => invoice[i].state = "live"
                          \/ /\ invoice'[i].fileKey = e /\ i = r.paper
                             /\ errand[e].pc \notin Through /\ r.pc \in Through
    BY DEF Files
  <1>4. Owned'
    <2>1. ASSUME NEW i \in Papers, invoice'[i].fileKey \in Errands
          PROVE  errand'[invoice'[i].fileKey].paper = i /\ errand'[invoice'[i].fileKey].pc \in Through
      <3>1. CASE invoice'[i].fileKey = invoice[i].fileKey
        BY <1>3, <2>1, <3>1 DEF PapersInv, Owned
      <3>2. CASE invoice'[i].fileKey = e /\ i = r.paper /\ r.pc \in Through
        BY <1>1, <3>2
      <3>3. \/ invoice'[i].fileKey = invoice[i].fileKey
            \/ invoice'[i].fileKey = e /\ i = r.paper /\ r.pc \in Through
        BY <1>a
      <3>4. QED
        BY <3>1, <3>2, <3>3
    <2>2. ASSUME NEW d \in Errands, errand'[d].fileKey \in Errands
          PROVE  /\ errand'[errand'[d].fileKey].paper = errand'[d].paper
                 /\ errand'[errand'[d].fileKey].pc \in Through
      <3>1. CASE d # e
        BY <1>1, <1>3, <2>2, <3>1 DEF PapersInv, Owned
      <3>2. CASE d = e
        <4>1. errand'[e] = r /\ r.fileKey \in Errands
          BY <1>1, <2>2, <3>2
        <4>2. CASE errand[e].pc # "idle" /\ r.fileKey = errand[e].fileKey
          BY <1>1, <1>3, <3>2, <4>1, <4>2 DEF PapersInv, Owned, Proceeds
        <4>3. CASE r.fileKey = e /\ r.pc \in Through
          BY <3>2, <4>1, <4>3
        <4>4. CASE r.fileKey # e /\ errand[r.fileKey].paper = r.paper /\ errand[r.fileKey].pc \in Through
          BY <1>3, <3>2, <4>1, <4>4
        <4>5. QED
          BY <4>1, <4>2, <4>3, <4>4 DEF Proceeds
      <3>3. QED
        BY <3>1, <3>2
    <2>3. QED
      BY <2>1, <2>2 DEF Owned
  <1>5. Live' = {i \in Papers : invoice'[i].state = "live"}
    BY DEF Live
  <1>6. Errandly'
    <2>1. ASSUME NEW d \in Errands
          PROVE  /\ Uploads(errand'[d]) => d \in bucket'
                 /\ Kind(errand'[d])
                 /\ errand'[d].pc = "view" => errand'[d].fileKey \in opened'[errand'[d].paper]
                 /\ errand'[d].pc = "drop" => \A i \in Papers : invoice'[i].state = "live" =>
                                                 invoice'[i].fileKey # errand'[d].fileKey
      <3>1. CASE d = e
        BY <1>1, <3>1 DEF Proceeds, Files
      <3>2. CASE d # e
        <4>1. errand'[d] = errand[d] /\ Kind(errand[d]) /\ (Uploads(errand[d]) => d \in bucket)
          BY <1>1, <3>2, AtWork
        <4>2. Uploads(errand[d]) => d \in bucket'
          BY <4>1 DEF Files, Uploads, Through
        <4>3. errand[d].pc = "view" => errand[d].fileKey \in opened'[errand[d].paper]
          BY <4>1 DEF PapersInv, Errandly, Kind, Files
        <4>4. ASSUME errand[d].pc = "drop", NEW i \in Papers, invoice'[i].state = "live"
              PROVE  invoice'[i].fileKey # errand[d].fileKey
          <5>1. CASE invoice'[i].fileKey = invoice[i].fileKey /\ invoice[i].state = "live"
            BY <4>4, <5>1 DEF PapersInv, Errandly, Spares, Live
          <5>2. CASE invoice'[i].fileKey = e /\ errand[e].pc \notin Through
            <6>1. errand[d].fileKey \in Errands => errand[errand[d].fileKey].pc \in Through
              BY DEF PapersInv, Owned
            <6>2. QED
              BY <5>2, <6>1
          <5>3. \/ invoice'[i].fileKey = invoice[i].fileKey /\ invoice[i].state = "live"
                \/ invoice'[i].fileKey = e /\ errand[e].pc \notin Through
            BY <1>a, <4>4
          <5>4. QED
            BY <5>1, <5>2, <5>3
        <4>5. QED
          BY <4>1, <4>2, <4>3, <4>4
      <3>3. QED
        BY <3>1, <3>2
    <2>2. QED
      BY <1>5, <2>1 DEF Errandly, Spares, Uploads, Kind
  <1>7. LiveFileExists' /\ OneLivePerNumber'
    BY <1>5 DEF Files, LiveFileExists
  <1>8. ASSUME serial PROVE InTurn'
    <2>1. \A d \in Errands : d # e => ~Active(errand[d])
      BY <1>8, MyTurn DEF Turns
    <2>2. \A d \in Errands : d # e => ~Active(errand'[d])
      BY <1>1, <2>1
    <2>3. \A d, c \in Errands : Active(errand'[d]) /\ Active(errand'[c]) => d = c
      BY <2>2
    <2>4. \A d \in Errands : Active(errand'[d]) /\ errand'[d].pc # "drop" /\ errand'[d].paper \in Live'
                            => errand'[d].fileKey = invoice'[errand'[d].paper].fileKey
      BY <1>1, <1>5, <1>8, <2>2 DEF Turns
    <2>5. ViewedWasOpened'
      BY <1>5, <1>8 DEF Turns, ViewedWasOpened
    <2>6. faults' = 0 => \A k \in bucket' : (\E i \in Live' : invoice'[i].fileKey = k)
                                   \/ \E d \in Errands : Leaves(d, errand'[d], k)
      BY <1>1, <1>5, <1>8 DEF Turns
    <2>7. QED
      BY <2>3, <2>4, <2>5, <2>6 DEF InTurn, Active, Leaves, Uploads
  <1>9. QED
    BY <1>2, <1>4, <1>6, <1>7, <1>8 DEF PapersInv, Files

\* The errand goes on, and neither records nor objects change.
LEMMA QuietStep ==
  ASSUME PapersInv, NEW e \in Errands, NEW r, Proceeds(e, r), UNCHANGED <<invoice, bucket, serial>>,
         opened' \in [Papers -> SUBSET Errands], \A i \in Papers : opened[i] \subseteq opened'[i],
         faults' \in Nat, Uploads(r) => e \in bucket,
         r.pc = "drop" => \A i \in Live : invoice[i].fileKey # r.fileKey,
         r.pc = "view" => r.fileKey \in opened'[r.paper],
         serial => Active(errand[e]) \/ \A d \in Errands : ~Active(errand[d]),
         Active(r) /\ r.pc # "drop" => \/ r.fileKey = invoice[r.paper].fileKey
                                       \/ Active(errand[e]) /\ errand[e].pc # "drop" /\ r.fileKey = errand[e].fileKey,
         faults' = 0 => faults = 0 /\ \A k \in bucket : Leaves(e, errand[e], k) => Leaves(e, r, k)
  PROVE  PapersInv'
  <1>1. \A i \in Papers : invoice[i].state = "live" <=> i \in Live
    BY DEF Live
  <1>2. /\ \A i \in Live : invoice[i].fileKey \in bucket
        /\ OneLivePerNumber
    BY DEF PapersInv, LiveFileExists
  <1>3. OneLivePerNumber'
    BY <1>2 DEF OneLivePerNumber, Live
  <1>4. Files(e, r)
    BY <1>1, <1>2, <1>3, AtWork DEF Files
  <1>5. ASSUME serial PROVE Turns(e, r)
    <2>1. Active(errand[e]) \/ \A d \in Errands : ~Active(errand[d])
      BY <1>5
    <2>2. faults = 0 => \A k \in bucket : (\E i \in Live : invoice[i].fileKey = k) \/ Leaves(e, errand[e], k)
      BY <1>5, <2>1, MyTurn
    <2>3. InTurn
      BY <1>5 DEF PapersInv
    <2>4. ASSUME Active(r), r.pc # "drop", invoice[r.paper].state = "live"
          PROVE  r.fileKey = invoice[r.paper].fileKey
      <3>1. CASE Active(errand[e]) /\ errand[e].pc # "drop" /\ r.fileKey = errand[e].fileKey
        <4>1. r.paper = errand[e].paper /\ r.paper \in Papers
          BY <2>4, <3>1 DEF Proceeds, Active, Kind
        <4>2. r.paper \in Live
          BY <2>4, <4>1 DEF Live
        <4>3. QED
          BY <2>3, <3>1, <4>1, <4>2 DEF InTurn
      <3>2. QED
        BY <2>4, <3>1
    <2>5. \A i \in Papers : invoice[i].state = "live" /\ invoice[i].viewed => invoice[i].fileKey \in opened'[i]
      BY <1>1, <1>5, <2>3 DEF InTurn, ViewedWasOpened
    <2>6. ASSUME faults' = 0, NEW k \in bucket
          PROVE  (\E i \in Papers : invoice[i].state = "live" /\ invoice[i].fileKey = k) \/ Leaves(e, r, k)
      BY <2>2, <2>6 DEF Live
    <2>7. QED
      BY <2>1, <2>4, <2>5, <2>6 DEF Turns
  <1>6. QED
    BY <1>4, <1>5, ErrandStep

-----------------------------------------------------------------------------
(***************************************************************************)
(* Every action keeps the invariant.                                       *)
(***************************************************************************)
LEMMA ArriveKeeps == ASSUME PapersInv, NEW e \in Errands, Arrive(e) PROVE PapersInv'
  <1>1. PICK i \in Papers, n \in Numbers, what \in {"create", "update", "replace", "remove", "open"},
             pc \in {"number", "upload", "write", "stream"} :
          /\ errand' = [errand EXCEPT ![e] = [NoErrand EXCEPT !.paper = i, !.number = n,
                           !.fileKey = invoice[i].fileKey, !.what = what, !.pc = pc]]
          /\ <<what, pc>> \in {<<"create", "number">>, <<"update", "number">>, <<"replace", "upload">>,
                              <<"remove", "write">>, <<"open", "stream">>}
    <2>1. \A i, n, what, pc :
            [[NoErrand EXCEPT !.paper = i, !.number = n, !.fileKey = invoice[i].fileKey]
               EXCEPT !.what = what, !.pc = pc]
            = [NoErrand EXCEPT !.paper = i, !.number = n, !.fileKey = invoice[i].fileKey, !.what = what, !.pc = pc]
      BY DEF NoErrand
    <2>2. QED
      BY <2>1 DEF Arrive
  <1> DEFINE r == [NoErrand EXCEPT !.paper = i, !.number = n, !.fileKey = invoice[i].fileKey,
                                   !.what = what, !.pc = pc]
  <1>2. invoice[i].fileKey \in Errands \cup {NoFile}
    BY AtWork DEF Paper
  <1>3. /\ r \in Asked /\ r.pc = pc /\ r.what = what /\ r.paper = i /\ r.fileKey = invoice[i].fileKey
    BY <1>2 DEF NoErrand, Asked, AnyNumber
  <1>4. errand' = [errand EXCEPT ![e] = r]
    BY <1>1
  <1> HIDE DEF r
  <1>5. Kind(r) /\ ~Uploads(r) /\ pc \notin {"drop", "view", "idle", "done"}
    BY <1>1, <1>3 DEF Kind, Uploads
  <1>6. /\ errand[e].pc = "idle" /\ UNCHANGED <<invoice, bucket, opened, serial, faults>>
        /\ serial => \A d \in Errands : ~Active(errand[d])
    BY DEF Arrive, Same, Active
  <1>7. invoice[i].fileKey \in Errands =>
          /\ errand[invoice[i].fileKey].paper = i /\ errand[invoice[i].fileKey].pc \in Through
          /\ invoice[i].fileKey # e
    BY <1>6 DEF PapersInv, Owned, Through
  <1>8. Proceeds(e, r)
    BY <1>3, <1>4, <1>5, <1>6, <1>7 DEF Proceeds, Through
  <1>9. \A k : ~Leaves(e, errand[e], k)
    BY <1>6 DEF Leaves, Uploads
  <1>10. QED
    BY <1>3, <1>5, <1>6, <1>8, <1>9, AtWork, QuietStep

\* One lemma for each step of a request: reading, a crash, the number, the
\* upload, the four writes, the old object's delete, the tribe's view.
LEMMA NumberKeeps == ASSUME PapersInv, NEW e \in Errands, assertNumberFree(e) PROVE PapersInv'
  <1>1. PICK pc \in {"done", "upload", "write"} :
          /\ To(e, pc) /\ (pc = "upload" => errand[e].what = "create") /\ (pc = "write" => errand[e].what # "create")
    BY DEF assertNumberFree
  <1> DEFINE r == [errand[e] EXCEPT !.pc = pc]
  <1>2. /\ errand[e].pc = "number" /\ UNCHANGED <<invoice, bucket, opened, serial, faults>>
        /\ errand[e].what \in {"create", "update"} /\ errand[e].paper \in Papers
    BY AtWork DEF assertNumberFree, Same, Kind
  <1>3. /\ r \in Asked /\ r.pc = pc /\ r.what = errand[e].what /\ r.paper = errand[e].paper
        /\ r.fileKey = errand[e].fileKey /\ errand' = [errand EXCEPT ![e] = r]
    BY <1>1, AtWork DEF Asked, To
  <1> HIDE DEF r
  <1>4. Kind(r) /\ ~Uploads(r) /\ Proceeds(e, r)
    BY <1>1, <1>2, <1>3 DEF Kind, Uploads, Proceeds, Through
  <1>5. Active(errand[e]) /\ errand[e].pc # "drop" /\ \A k : ~Leaves(e, errand[e], k)
    BY <1>2 DEF Active, Leaves, Uploads
  <1>6. QED
    BY <1>2, <1>3, <1>4, <1>5, AtWork, QuietStep

LEMMA DiesKeeps == ASSUME PapersInv, NEW e \in Errands, ErrandDies(e) PROVE PapersInv'
  <1> DEFINE r == [errand[e] EXCEPT !.pc = "done"]
  <1>1. /\ Active(errand[e]) /\ UNCHANGED <<invoice, bucket, opened, serial>> /\ faults' = faults + 1
        /\ faults' \in Nat /\ faults' # 0
    BY AtWork DEF ErrandDies, Active
  <1>2. /\ r \in Asked /\ r.pc = "done" /\ r.paper = errand[e].paper
        /\ r.fileKey = errand[e].fileKey /\ errand' = [errand EXCEPT ![e] = r]
    BY AtWork DEF Asked, To, ErrandDies
  <1> HIDE DEF r
  <1>3. Kind(r) /\ ~Uploads(r) /\ Proceeds(e, r) /\ ~Active(r)
    BY <1>1, <1>2 DEF Kind, Uploads, Proceeds, Through, Active
  <1>4. QED
    BY <1>1, <1>2, <1>3, AtWork, QuietStep

LEMMA GetKeeps == ASSUME PapersInv, NEW e \in Errands, getPrivateObject(e) PROVE PapersInv'
  <1> DEFINE q == errand[e]
             pc == IF q.fileKey \in bucket THEN "view" ELSE "done"
             r == [q EXCEPT !.pc = pc]
  <1>1. /\ q.pc = "stream" /\ UNCHANGED <<invoice, bucket, serial, faults>> /\ To(e, pc)
        /\ q.what = "open" /\ q.paper \in Papers
        /\ opened' = IF q.fileKey \in bucket THEN [opened EXCEPT ![q.paper] = @ \cup {q.fileKey}] ELSE opened
    BY AtWork DEF getPrivateObject, Same, Kind
  <1>2. /\ r \in Asked /\ r.pc = pc /\ r.what = q.what /\ r.paper = q.paper
        /\ r.fileKey = q.fileKey /\ errand' = [errand EXCEPT ![e] = r]
    BY <1>1, AtWork DEF Asked, To
  <1>3. /\ opened' \in [Papers -> SUBSET Errands] /\ \A i \in Papers : opened[i] \subseteq opened'[i]
        /\ pc = "view" => q.fileKey \in opened'[q.paper]
    BY <1>1, AtWork
  <1> HIDE DEF r
  <1>4. Kind(r) /\ ~Uploads(r) /\ Proceeds(e, r) /\ r.pc # "drop"
    BY <1>1, <1>2 DEF Kind, Uploads, Proceeds, Through
  <1>5. Active(q) /\ \A k : ~Leaves(e, q, k)
    BY <1>1 DEF Active, Leaves, Uploads
  <1>6. QED
    BY <1>1, <1>2, <1>3, <1>4, <1>5, AtWork, QuietStep

LEMMA PutKeeps == ASSUME PapersInv, NEW e \in Errands, putPrivatePdf(e) PROVE PapersInv'
  <1> DEFINE q == errand[e]
             r == [q EXCEPT !.pc = "write"]
  <1>1. /\ q.pc = "upload" /\ UNCHANGED <<invoice, opened, serial, faults>> /\ bucket' = bucket \cup {e}
        /\ q.what \in {"create", "replace"} /\ q.paper \in Papers
    BY AtWork DEF putPrivatePdf, Same, Kind
  <1>2. /\ r \in Asked /\ r.pc = "write" /\ r.what = q.what /\ r.paper = q.paper
        /\ r.fileKey = q.fileKey /\ errand' = [errand EXCEPT ![e] = r]
    BY AtWork DEF Asked, To, putPrivatePdf
  <1> HIDE DEF r, q
  <1>3. Kind(r) /\ Uploads(r) /\ Proceeds(e, r)
    BY <1>1, <1>2 DEF Kind, Uploads, Proceeds, Through, q
  <1>4. \A i \in Papers : invoice[i].state = "live" <=> i \in Live
    BY DEF Live
  <1>5. LiveFileExists /\ OneLivePerNumber /\ OneLivePerNumber'
    BY <1>1 DEF PapersInv, OneLivePerNumber, Live
  <1>6. Files(e, r)
    BY <1>1, <1>2, <1>3, <1>4, <1>5, AtWork DEF Files, LiveFileExists
  <1>7. ASSUME serial PROVE Turns(e, r)
    <2>1. Active(q) /\ \A k : ~Leaves(e, q, k)
      BY <1>1 DEF Active, Leaves, Uploads
    <2>2. faults = 0 => \A k \in bucket : (\E i \in Live : invoice[i].fileKey = k) \/ Leaves(e, q, k)
      BY <1>7, <2>1, MyTurn DEF q
    <2>3. \A k \in bucket' : k \in bucket \/ Leaves(e, r, k)
      BY <1>1, <1>3 DEF Leaves
    <2>4. ASSUME faults' = 0, NEW k \in bucket'
          PROVE  (\E i \in Papers : invoice'[i].state = "live" /\ invoice'[i].fileKey = k) \/ Leaves(e, r, k)
      BY <1>1, <1>4, <2>1, <2>2, <2>3, <2>4 DEF Live
    <2>5. invoice[r.paper].state = "live" => r.fileKey = invoice[r.paper].fileKey
      BY <1>1, <1>2, <1>4, <1>7, <2>1 DEF PapersInv, InTurn, q
    <2>6. \A i \in Papers : invoice[i].state = "live" /\ invoice[i].viewed => invoice[i].fileKey \in opened[i]
      BY <1>4, <1>7 DEF PapersInv, InTurn, ViewedWasOpened
    <2>7. QED
      BY <1>1, <2>1, <2>4, <2>5, <2>6 DEF Turns, q
  <1>8. QED
    BY <1>3, <1>6, <1>7, ErrandStep

\* An errand about to write an object of its own: no record has it.
LEMMA OwnIsFree ==
  ASSUME PapersInv, NEW e \in Errands, errand[e].pc = "write"
  PROVE  (\A i \in Papers : invoice[i].fileKey # e) /\ errand[e].fileKey # e
  BY DEF PapersInv, Owned, Through

\* It was too late: the object the errand uploaded goes again.
LEMMA TooLateKeeps ==
  ASSUME PapersInv, NEW e \in Errands, Uploads(errand[e]),
         errand' = [errand EXCEPT ![e].pc = "drop", ![e].fileKey = e],
         UNCHANGED <<invoice, bucket, opened, serial, faults>>
  PROVE  PapersInv'
  <1> DEFINE q == errand[e]
             r == [q EXCEPT !.pc = "drop", !.fileKey = e]
  <1>1. q.pc = "write" /\ q.paper \in Papers
    BY AtWork DEF Uploads, Kind
  <1>2. /\ r \in Asked /\ r.pc = "drop" /\ r.what = q.what /\ r.paper = q.paper
        /\ r.fileKey = e /\ errand' = [errand EXCEPT ![e] = r]
    BY AtWork DEF Asked
  <1> HIDE DEF r
  <1>3. Kind(r) /\ ~Uploads(r) /\ Proceeds(e, r)
    BY <1>1, <1>2 DEF Kind, Uploads, Proceeds, Through
  <1>4. \A i \in Live : invoice[i].fileKey # r.fileKey
    BY <1>1, <1>2, OwnIsFree DEF Live
  <1>5. Active(q) /\ \A k : Leaves(e, q, k) => Leaves(e, r, k)
    BY <1>1, <1>2 DEF Active, Leaves, Uploads
  <1>6. QED
    BY <1>2, <1>3, <1>4, <1>5, AtWork, QuietStep

\* An errand ends and leaves nothing behind it.
LEMMA EndKeeps ==
  ASSUME PapersInv, NEW e \in Errands, Active(errand[e]), \A k : ~Leaves(e, errand[e], k),
         To(e, "done"), UNCHANGED <<invoice, bucket, opened, serial, faults>>
  PROVE  PapersInv'
  <1> DEFINE r == [errand[e] EXCEPT !.pc = "done"]
  <1>2. /\ r \in Asked /\ r.pc = "done" /\ r.paper = errand[e].paper
        /\ r.fileKey = errand[e].fileKey /\ errand' = [errand EXCEPT ![e] = r]
    BY AtWork DEF Asked, To
  <1> HIDE DEF r
  <1>3. Kind(r) /\ ~Uploads(r) /\ Proceeds(e, r) /\ ~Active(r)
    BY <1>2 DEF Kind, Uploads, Proceeds, Through, Active
  <1>4. QED
    BY <1>2, <1>3, AtWork, QuietStep

LEMMA CreateKeeps == ASSUME PapersInv, NEW e \in Errands, WriteCreate(e) PROVE PapersInv'
  <1> DEFINE q == errand[e]
             duplicate == Taken(q.number, NoFile) \/ invoice[q.paper].state # "none"
  <1>1. /\ q.pc = "write" /\ q.what = "create" /\ q.paper \in Papers /\ Uploads(q) /\ e \in bucket
        /\ UNCHANGED <<bucket, opened, serial, faults>> /\ q \in Asked
    BY AtWork DEF WriteCreate, Same, Kind, Uploads
  <1>2. CASE duplicate
    BY <1>1, <1>2, TooLateKeeps DEF WriteCreate
  <1>3. CASE ~duplicate
    <2> DEFINE p == q.paper
               v == [state |-> "live", number |-> q.number, fileKey |-> e, viewed |-> FALSE]
               r == [q EXCEPT !.pc = "done"]
    <2>1. /\ invoice' = [invoice EXCEPT ![p] = v] /\ invoice[p].state = "none"
          /\ \A i \in Live : invoice[i].number # q.number
      BY <1>3, InvoiceAssumption DEF WriteCreate, Taken, Live
    <2>2. /\ r \in Asked /\ r.pc = "done" /\ r.what = q.what /\ r.paper = p
          /\ r.fileKey = q.fileKey /\ errand' = [errand EXCEPT ![e] = r]
      BY <1>1, <1>3, AtWork DEF Asked, To, WriteCreate
    <2>3. v \in Paper /\ v.state = "live" /\ v.number = q.number /\ v.fileKey = e /\ ~v.viewed
      BY <1>1 DEF Paper, Asked
    <2> HIDE DEF r, v, q
    <2>4. /\ invoice' \in [Papers -> Paper]
          /\ \A i \in Papers : invoice'[i] = IF i = p THEN v ELSE invoice[i]
      BY <1>1, <2>1, <2>3, AtWork
    <2>5. Kind(r) /\ ~Uploads(r) /\ Proceeds(e, r)
      BY <1>1, <2>2 DEF Kind, Uploads, Proceeds, Through, q
    <2>6. \A i \in Papers : invoice[i].state = "live" <=> i \in Live
      BY DEF Live
    <2>7. LiveFileExists /\ OneLivePerNumber
      BY DEF PapersInv
    <2>8. \A i \in Papers : invoice'[i].state = "live" <=> i = p \/ i \in Live
      BY <1>1, <2>3, <2>4, <2>6
    <2>9. OneLivePerNumber'
      BY <2>1, <2>3, <2>4, <2>6, <2>7, <2>8 DEF OneLivePerNumber, Live
    <2>10. Files(e, r)
      BY <1>1, <2>2, <2>3, <2>4, <2>5, <2>6, <2>7, <2>8, <2>9, AtWork DEF Files, LiveFileExists, Through, q
    <2>11. ASSUME serial PROVE Turns(e, r)
      <3>1. Active(q) /\ ~Active(r) /\ \A k : Leaves(e, q, k) => k = e
        BY <1>1, <2>2 DEF Active, Leaves, Uploads
      <3>2. faults = 0 => \A k \in bucket : (\E i \in Live : invoice[i].fileKey = k) \/ Leaves(e, q, k)
        BY <2>11, <3>1, MyTurn DEF q
      <3>3. ASSUME faults' = 0, NEW k \in bucket'
            PROVE  \E i \in Papers : invoice'[i].state = "live" /\ invoice'[i].fileKey = k
        <4>1. CASE k = e
          BY <1>1, <2>3, <2>4, <4>1
        <4>2. CASE \E i \in Live : invoice[i].fileKey = k
          BY <2>1, <2>4, <4>2 DEF Live
        <4>3. QED
          BY <1>1, <3>1, <3>2, <3>3, <4>1, <4>2
      <3>4. \A i \in Papers : invoice'[i].state = "live" /\ invoice'[i].viewed => invoice'[i].fileKey \in opened'[i]
        BY <1>1, <2>3, <2>4, <2>6, <2>11 DEF PapersInv, InTurn, ViewedWasOpened
      <3>5. QED
        BY <1>1, <3>1, <3>3, <3>4 DEF Turns, q
    <2>12. QED
      BY <2>5, <2>10, <2>11, ErrandStep
  <1>4. QED
    BY <1>2, <1>3

LEMMA RenumberKeeps == ASSUME PapersInv, NEW e \in Errands, WriteNumber(e) PROVE PapersInv'
  <1> DEFINE q == errand[e]
             p == q.paper
             free == p \in Live /\ ~Taken(q.number, p)
  <1>1. /\ q.pc = "write" /\ q.what = "update" /\ p \in Papers /\ ~Uploads(q) /\ Active(q)
        /\ UNCHANGED <<bucket, opened, serial, faults>> /\ To(e, "done") /\ q \in Asked
        /\ \A k : ~Leaves(e, q, k)
    BY AtWork DEF WriteNumber, Same, Kind, Uploads, Active, Leaves
  <1>2. CASE ~free
    BY <1>1, <1>2, EndKeeps DEF WriteNumber
  <1>3. CASE free
    <2> DEFINE v == [invoice[p] EXCEPT !.number = q.number]
               r == [q EXCEPT !.pc = "done"]
    <2>1. /\ invoice' = [invoice EXCEPT ![p].number = q.number]
          /\ \A i \in Live : i # p => invoice[i].number # q.number
      BY <1>3 DEF WriteNumber, Taken
    <2>2. /\ r \in Asked /\ r.pc = "done" /\ r.what = q.what /\ r.paper = p
          /\ r.fileKey = q.fileKey /\ errand' = [errand EXCEPT ![e] = r]
      BY <1>1, AtWork DEF Asked, To
    <2>3. /\ v \in Paper /\ v.state = invoice[p].state /\ v.number = q.number
          /\ v.fileKey = invoice[p].fileKey /\ v.viewed = invoice[p].viewed
      BY <1>1, AtWork DEF Paper, Asked
    <2>4. /\ invoice' \in [Papers -> Paper]
          /\ \A i \in Papers : invoice'[i] = IF i = p THEN v ELSE invoice[i]
      BY <1>1, <2>1, <2>3, AtWork
    <2> HIDE DEF r, v, q, p
    <2>5. Kind(r) /\ ~Uploads(r) /\ ~Active(r) /\ Proceeds(e, r)
      BY <1>1, <2>2 DEF Kind, Uploads, Active, Proceeds, Through, q, p
    <2>6. \A i \in Papers : invoice[i].state = "live" <=> i \in Live
      BY DEF Live
    <2>7. LiveFileExists /\ OneLivePerNumber
      BY DEF PapersInv
    <2>8. \A i \in Papers : /\ invoice'[i].state = invoice[i].state /\ invoice'[i].viewed = invoice[i].viewed
                            /\ invoice'[i].fileKey = invoice[i].fileKey
      BY <2>3, <2>4
    <2>9. OneLivePerNumber'
      BY <2>1, <2>3, <2>4, <2>6, <2>7, <2>8 DEF OneLivePerNumber, Live
    <2>10. Files(e, r)
      BY <1>1, <2>2, <2>4, <2>5, <2>6, <2>7, <2>8, <2>9, AtWork DEF Files, LiveFileExists
    <2>11. ASSUME serial PROVE Turns(e, r)
      <3>1. faults = 0 => \A k \in bucket : \E i \in Live : invoice[i].fileKey = k
        BY <1>1, <2>11, MyTurn DEF q
      <3>2. ASSUME faults' = 0, NEW k \in bucket'
            PROVE  \E i \in Papers : invoice'[i].state = "live" /\ invoice'[i].fileKey = k
        BY <1>1, <2>8, <3>1, <3>2 DEF Live
      <3>3. \A i \in Papers : invoice'[i].state = "live" /\ invoice'[i].viewed => invoice'[i].fileKey \in opened'[i]
        BY <1>1, <2>6, <2>8, <2>11 DEF PapersInv, InTurn, ViewedWasOpened
      <3>4. QED
        BY <1>1, <2>5, <3>2, <3>3 DEF Turns, q
    <2>12. QED
      BY <2>5, <2>10, <2>11, ErrandStep
  <1>4. QED
    BY <1>2, <1>3

LEMMA ReplaceKeeps == ASSUME PapersInv, NEW e \in Errands, WriteReplace(e) PROVE PapersInv'
  <1> DEFINE q == errand[e]
             p == q.paper
  <1>1. /\ q.pc = "write" /\ q.what = "replace" /\ p \in Papers /\ Uploads(q) /\ e \in bucket
        /\ UNCHANGED <<bucket, opened, serial, faults>> /\ q \in Asked /\ Active(q)
    BY AtWork DEF WriteReplace, Same, Kind, Uploads, Active
  <1>2. CASE p \notin Live
    BY <1>1, <1>2, TooLateKeeps DEF WriteReplace
  <1>3. CASE p \in Live
    <2> DEFINE v == [invoice[p] EXCEPT !.fileKey = e, !.viewed = FALSE]
               r == [q EXCEPT !.pc = "drop"]
    <2>1. invoice' = [invoice EXCEPT ![p].fileKey = e, ![p].viewed = FALSE] /\ To(e, "drop")
      BY <1>3 DEF WriteReplace
    <2>2. /\ r \in Asked /\ r.pc = "drop" /\ r.what = q.what /\ r.paper = p
          /\ r.fileKey = q.fileKey /\ errand' = [errand EXCEPT ![e] = r]
      BY <1>1, <2>1, AtWork DEF Asked, To
    <2>3. /\ v \in Paper /\ v.state = "live" /\ v.number = invoice[p].number
          /\ v.fileKey = e /\ ~v.viewed
      BY <1>1, <1>3, AtWork DEF Paper, Live
    <2>4. /\ invoice' \in [Papers -> Paper]
          /\ \A i \in Papers : invoice'[i] = IF i = p THEN v ELSE invoice[i]
      BY <1>1, <2>1, <2>3, AtWork
    <2> HIDE DEF r, v, q, p
    <2>5. Kind(r) /\ ~Uploads(r) /\ Proceeds(e, r)
      BY <1>1, <2>2 DEF Kind, Uploads, Proceeds, Through, q, p
    <2>6. \A i \in Papers : invoice[i].state = "live" <=> i \in Live
      BY DEF Live
    <2>7. LiveFileExists /\ OneLivePerNumber
      BY DEF PapersInv
    <2>8. \A i \in Papers : /\ invoice'[i].state = "live" <=> i \in Live
                            /\ invoice'[i].number = invoice[i].number
      BY <1>3, <2>3, <2>4, <2>6
    <2>9. OneLivePerNumber'
      BY <2>7, <2>8 DEF OneLivePerNumber, Live
    <2>10. ASSUME NEW i \in Papers, invoice'[i].state = "live" PROVE invoice'[i].fileKey # r.fileKey
      <3>1. CASE i = p
        BY <1>1, <2>2, <2>3, <2>4, <3>1, OwnIsFree DEF q
      <3>2. CASE i # p
        <4>1. i \in Live /\ invoice[i].fileKey \in Errands
          BY <2>7, <2>8, <2>10, AtWork DEF LiveFileExists
        <4>2. errand[invoice[i].fileKey].paper = i
          BY <4>1 DEF PapersInv, Owned
        <4>3. q.fileKey \in Errands => errand[q.fileKey].paper = p
          BY DEF PapersInv, Owned, q, p
        <4>4. QED
          BY <2>2, <2>4, <3>2, <4>1, <4>2, <4>3
      <3>3. QED
        BY <3>1, <3>2
    <2>11. Files(e, r)
      BY <1>1, <2>2, <2>3, <2>4, <2>5, <2>6, <2>7, <2>8, <2>9, <2>10, AtWork DEF Files, LiveFileExists, Through, q
    <2>12. ASSUME serial PROVE Turns(e, r)
      <3>1. faults = 0 => \A k \in bucket : (\E i \in Live : invoice[i].fileKey = k) \/ k = e
        BY <1>1, <2>12, MyTurn DEF q, Leaves
      <3>2. q.fileKey = invoice[p].fileKey
        BY <1>1, <1>3, <2>12 DEF PapersInv, InTurn, q, p
      <3>3. ASSUME faults' = 0, NEW k \in bucket'
            PROVE  (\E i \in Papers : invoice'[i].state = "live" /\ invoice'[i].fileKey = k) \/ Leaves(e, r, k)
        <4>1. CASE k = e
          BY <1>1, <2>3, <2>4, <4>1
        <4>2. ASSUME NEW i \in Live, invoice[i].fileKey = k
              PROVE  (\E j \in Papers : invoice'[j].state = "live" /\ invoice'[j].fileKey = k) \/ Leaves(e, r, k)
          <5>1. CASE i = p
            BY <2>2, <3>2, <4>2, <5>1 DEF Leaves
          <5>2. CASE i # p
            BY <2>4, <4>2, <5>2 DEF Live
          <5>3. QED
            BY <5>1, <5>2
        <4>3. QED
          BY <1>1, <3>1, <3>3, <4>1, <4>2
      <3>4. \A i \in Papers : invoice'[i].state = "live" /\ invoice'[i].viewed => invoice'[i].fileKey \in opened'[i]
        BY <1>1, <2>3, <2>4, <2>6, <2>12 DEF PapersInv, InTurn, ViewedWasOpened
      <3>5. QED
        BY <1>1, <2>2, <3>3, <3>4 DEF Turns, q
    <2>13. QED
      BY <2>5, <2>11, <2>12, ErrandStep
  <1>4. QED
    BY <1>2, <1>3

LEMMA RemoveKeeps == ASSUME PapersInv, NEW e \in Errands, WriteRemove(e) PROVE PapersInv'
  <1> DEFINE q == errand[e]
             p == q.paper
  <1>1. /\ q.pc = "write" /\ q.what = "remove" /\ p \in Papers /\ ~Uploads(q) /\ \A k : ~Leaves(e, q, k)
        /\ UNCHANGED <<bucket, opened, serial, faults>> /\ q \in Asked /\ Active(q)
    BY AtWork DEF WriteRemove, Same, Kind, Uploads, Active, Leaves
  <1>2. CASE p \notin Live
    BY <1>1, <1>2, EndKeeps DEF WriteRemove
  <1>3. CASE p \in Live
    <2> DEFINE v == [invoice[p] EXCEPT !.state = "deleted"]
               key == invoice[p].fileKey
               r == [q EXCEPT !.pc = "drop", !.fileKey = key]
    <2>1. /\ invoice' = [invoice EXCEPT ![p].state = "deleted"]
          /\ errand' = [errand EXCEPT ![e].pc = "drop", ![e].fileKey = key]
      BY <1>3 DEF WriteRemove
    <2>2. /\ r \in Asked /\ r.pc = "drop" /\ r.what = q.what /\ r.paper = p
          /\ r.fileKey = key /\ errand' = [errand EXCEPT ![e] = r]
      BY <1>1, <2>1, AtWork DEF Asked, Paper
    <2>3. /\ v \in Paper /\ v.state = "deleted" /\ v.fileKey = key
      BY <1>1, AtWork DEF Paper
    <2>4. /\ invoice' \in [Papers -> Paper]
          /\ \A i \in Papers : invoice'[i] = IF i = p THEN v ELSE invoice[i]
      BY <1>1, <2>1, <2>3, AtWork
    <2>5. key \in Errands => errand[key].paper = p /\ errand[key].pc \in Through /\ key # e
      BY <1>1, OwnIsFree DEF PapersInv, Owned
    <2> HIDE DEF r, v, q, p
    <2>6. Kind(r) /\ ~Uploads(r) /\ Proceeds(e, r)
      BY <1>1, <2>2, <2>5 DEF Kind, Uploads, Proceeds, Through, q, p
    <2>7. \A i \in Papers : invoice[i].state = "live" <=> i \in Live
      BY DEF Live
    <2>8. LiveFileExists /\ OneLivePerNumber
      BY DEF PapersInv
    <2>9. \A i \in Papers : /\ invoice'[i].state = "live" <=> i \in Live /\ i # p
                            /\ invoice'[i].fileKey = invoice[i].fileKey
      BY <2>3, <2>4, <2>7
    <2>10. OneLivePerNumber'
      BY <2>4, <2>8, <2>9 DEF OneLivePerNumber, Live
    <2>11. ASSUME NEW i \in Papers, invoice'[i].state = "live" PROVE invoice'[i].fileKey # r.fileKey
      <3>1. i \in Live /\ i # p /\ invoice[i].fileKey \in Errands
        BY <2>8, <2>9, <2>11, AtWork DEF LiveFileExists
      <3>2. errand[invoice[i].fileKey].paper = i
        BY <3>1 DEF PapersInv, Owned
      <3>3. QED
        BY <2>2, <2>5, <2>9, <3>1, <3>2
    <2>12. Files(e, r)
      BY <1>1, <2>2, <2>4, <2>6, <2>7, <2>8, <2>9, <2>10, <2>11, AtWork DEF Files, LiveFileExists
    <2>13. ASSUME serial PROVE Turns(e, r)
      <3>1. faults = 0 => \A k \in bucket : \E i \in Live : invoice[i].fileKey = k
        BY <1>1, <2>13, MyTurn DEF q
      <3>2. ASSUME faults' = 0, NEW k \in bucket'
            PROVE  (\E i \in Papers : invoice'[i].state = "live" /\ invoice'[i].fileKey = k) \/ Leaves(e, r, k)
        BY <1>1, <2>2, <2>9, <3>1, <3>2 DEF Leaves, Live
      <3>3. \A i \in Papers : invoice'[i].state = "live" /\ invoice'[i].viewed => invoice'[i].fileKey \in opened'[i]
        BY <1>1, <2>4, <2>9, <2>13 DEF PapersInv, InTurn, ViewedWasOpened
      <3>4. QED
        BY <1>1, <2>2, <3>2, <3>3 DEF Turns, q
    <2>14. QED
      BY <2>6, <2>12, <2>13, ErrandStep
  <1>4. QED
    BY <1>2, <1>3

LEMMA DropKeeps == ASSUME PapersInv, NEW e \in Errands, deletePrivateObject(e) PROVE PapersInv'
  <1> DEFINE q == errand[e]
             r == [q EXCEPT !.pc = "done"]
  <1>1. /\ q.pc = "drop" /\ UNCHANGED <<invoice, opened, serial>> /\ To(e, "done") /\ Active(q)
        /\ \/ bucket' = bucket \ {q.fileKey} /\ UNCHANGED faults
           \/ bucket' = bucket /\ faults' = faults + 1
    BY DEF deletePrivateObject, Active
  <1>2. /\ r \in Asked /\ r.pc = "done" /\ r.what = q.what /\ r.paper = q.paper
        /\ r.fileKey = q.fileKey /\ errand' = [errand EXCEPT ![e] = r]
    BY <1>1, AtWork DEF Asked, To
  <1>3. \A k \in bucket \ bucket' : errand[k].pc \in Through
    BY <1>1, AtWork DEF PapersInv, Owned
  <1> HIDE DEF r, q
  <1>4. Kind(r) /\ ~Uploads(r) /\ ~Active(r) /\ Proceeds(e, r)
    BY <1>1, <1>2 DEF Kind, Uploads, Active, Proceeds, Through, q
  <1>5. \A i \in Papers : invoice[i].state = "live" <=> i \in Live
    BY DEF Live
  <1>6. LiveFileExists /\ OneLivePerNumber /\ OneLivePerNumber'
    BY <1>1 DEF PapersInv, OneLivePerNumber, Live
  <1>7. \A i \in Live : invoice[i].fileKey \in bucket'
    <2>1. \A i \in Live : invoice[i].fileKey # q.fileKey
      BY <1>1, AtWork DEF Spares, q
    <2>2. QED
      BY <1>1, <1>6, <2>1 DEF LiveFileExists
  <1>8. faults' \in Nat /\ (faults' = 0 => faults = 0 /\ bucket' = bucket \ {q.fileKey})
    BY <1>1, AtWork
  <1>9. Files(e, r)
    BY <1>1, <1>2, <1>3, <1>4, <1>5, <1>6, <1>7, <1>8, AtWork DEF Files
  <1>10. ASSUME serial PROVE Turns(e, r)
    <2>1. faults = 0 => \A k \in bucket : (\E i \in Live : invoice[i].fileKey = k) \/ k = q.fileKey
      BY <1>1, <1>10, MyTurn DEF q, Leaves, Uploads
    <2>2. ASSUME faults' = 0, NEW k \in bucket'
          PROVE  \E i \in Papers : invoice'[i].state = "live" /\ invoice'[i].fileKey = k
      BY <1>1, <1>8, <2>1, <2>2 DEF Live
    <2>3. \A i \in Papers : invoice[i].state = "live" /\ invoice[i].viewed => invoice[i].fileKey \in opened[i]
      BY <1>5, <1>10 DEF PapersInv, InTurn, ViewedWasOpened
    <2>4. QED
      BY <1>1, <1>4, <1>8, <2>2, <2>3 DEF Turns, q
  <1>11. QED
    BY <1>4, <1>9, <1>10, ErrandStep

LEMMA ViewKeeps == ASSUME PapersInv, NEW e \in Errands, MarkViewed(e) PROVE PapersInv'
  <1> DEFINE q == errand[e]
             p == q.paper
             v == [invoice[p] EXCEPT !.viewed = TRUE]
             r == [q EXCEPT !.pc = "done"]
  <1>1. /\ q.pc = "view" /\ q.what = "open" /\ p \in Papers /\ Active(q) /\ \A k : ~Leaves(e, q, k)
        /\ UNCHANGED <<bucket, opened, serial, faults>> /\ To(e, "done")
        /\ invoice' = [invoice EXCEPT ![p].viewed = TRUE] /\ q.fileKey \in opened[p]
    BY AtWork DEF MarkViewed, Same, Kind, Active, Leaves, Uploads, PapersInv, Errandly
  <1>2. /\ r \in Asked /\ r.pc = "done" /\ r.what = q.what /\ r.paper = p
        /\ r.fileKey = q.fileKey /\ errand' = [errand EXCEPT ![e] = r]
    BY <1>1, AtWork DEF Asked, To
  <1>3. /\ v \in Paper /\ v.state = invoice[p].state /\ v.number = invoice[p].number
        /\ v.fileKey = invoice[p].fileKey
    BY <1>1, AtWork DEF Paper
  <1>4. /\ invoice' \in [Papers -> Paper]
        /\ \A i \in Papers : invoice'[i] = IF i = p THEN v ELSE invoice[i]
    BY <1>1, <1>3, AtWork
  <1> HIDE DEF r, v, q, p
  <1>5. Kind(r) /\ ~Uploads(r) /\ ~Active(r) /\ Proceeds(e, r)
    BY <1>1, <1>2 DEF Kind, Uploads, Active, Proceeds, Through, q, p
  <1>6. \A i \in Papers : invoice[i].state = "live" <=> i \in Live
    BY DEF Live
  <1>7. LiveFileExists /\ OneLivePerNumber
    BY DEF PapersInv
  <1>8. \A i \in Papers : /\ invoice'[i].state = invoice[i].state /\ invoice'[i].number = invoice[i].number
                          /\ invoice'[i].fileKey = invoice[i].fileKey /\ (i # p => invoice'[i] = invoice[i])
    BY <1>3, <1>4
  <1>9. OneLivePerNumber'
    BY <1>7, <1>8 DEF OneLivePerNumber, Live
  <1>10. Files(e, r)
    BY <1>1, <1>2, <1>4, <1>5, <1>6, <1>7, <1>8, <1>9, AtWork DEF Files, LiveFileExists
  <1>11. ASSUME serial PROVE Turns(e, r)
    <2>1. faults = 0 => \A k \in bucket : \E i \in Live : invoice[i].fileKey = k
      BY <1>1, <1>11, MyTurn DEF q
    <2>2. ASSUME faults' = 0, NEW k \in bucket'
          PROVE  \E i \in Papers : invoice'[i].state = "live" /\ invoice'[i].fileKey = k
      BY <1>1, <1>8, <2>1, <2>2 DEF Live
    <2>3. p \in Live => invoice[p].fileKey \in opened[p]
      BY <1>1, <1>11 DEF PapersInv, InTurn, q, p
    <2>4. \A i \in Papers : invoice'[i].state = "live" /\ invoice'[i].viewed => invoice'[i].fileKey \in opened'[i]
      BY <1>1, <1>6, <1>8, <1>11, <2>3 DEF PapersInv, InTurn, ViewedWasOpened
    <2>5. QED
      BY <1>1, <1>5, <2>2, <2>4 DEF Turns, q
  <1>12. QED
    BY <1>5, <1>10, <1>11, ErrandStep

\* Every step of every errand.
LEMMA PapersStepInv == PapersInv /\ [InvoicesNext]_invoiceVars => PapersInv'
  <1> SUFFICES ASSUME PapersInv, [InvoicesNext]_invoiceVars PROVE PapersInv'
    OBVIOUS
  <1>1. CASE UNCHANGED invoiceVars
    BY <1>1 DEF invoiceVars, PapersInv, PapersTyped, Owned, Errandly, Uploads, Spares, Kind, LiveFileExists,
       OneLivePerNumber, InTurn, Active, Leaves, ViewedWasOpened, Live
  <1>2. ASSUME NEW e \in Errands, Arrive(e) \/ assertNumberFree(e) \/ putPrivatePdf(e) \/ getPrivateObject(e)
        PROVE  PapersInv'
    BY <1>2, ArriveKeeps, NumberKeeps, PutKeeps, GetKeeps
  <1>3. ASSUME NEW e \in Errands, WriteCreate(e) \/ WriteNumber(e) \/ WriteReplace(e) \/ WriteRemove(e)
        PROVE  PapersInv'
    BY <1>3, CreateKeeps, RenumberKeeps, ReplaceKeeps, RemoveKeeps
  <1>4. ASSUME NEW e \in Errands, deletePrivateObject(e) \/ MarkViewed(e) \/ ErrandDies(e)
        PROVE  PapersInv'
    BY <1>4, DropKeeps, ViewKeeps, DiesKeeps
  <1>5. QED
    BY <1>1, <1>2, <1>3, <1>4 DEF InvoicesNext

\* The invariant says more than PapersInOrder does.
LEMMA PapersByInv == PapersInv => PapersInOrder
  <1> SUFFICES ASSUME PapersInv PROVE PapersInOrder
    OBVIOUS
  <1>1. LiveFileExists /\ OneLivePerNumber /\ ViewedWasOpened
    BY DEF PapersInv, InTurn, ViewedWasOpened
  <1>2. ASSUME serial, faults = 0, \A e \in Errands : errand[e].pc \in {"idle", "done"}
        PROVE  bucket = {invoice[i].fileKey : i \in Live}
    <2>1. \A e \in Errands : \A k : ~Leaves(e, errand[e], k)
      BY <1>2 DEF Leaves, Uploads
    <2>2. \A k \in bucket : \E i \in Live : invoice[i].fileKey = k
      BY <1>2, <2>1 DEF PapersInv, InTurn
    <2>3. QED
      BY <1>1, <2>2 DEF LiveFileExists
  <1>3. QED
    BY <1>1, <1>2 DEF PapersInOrder, NothingLeftBehind

\* However uploads, replacements, renumberings, removals and views overlap, die
\* half-way or fail to delete, a live invoice has its PDF and a number of its
\* own; where they come one at a time and nothing fails, no object is left
\* behind, and one that counts as viewed was opened (invoices.service.ts).
THEOREM PapersAlwaysInOrder == InvoicesSpec => []PapersInOrder
  BY PapersStart, PapersStepInv, PapersByInv, PTL DEF InvoicesSpec

-----------------------------------------------------------------------------
(***************************************************************************)
(* The stock of a sized product                                            *)
(***************************************************************************)
\* What a request of the stock carries.
Row == [size : Sizes, qty : Int]
Snapshots == {<< >>} \cup [rows : Seq(Row), total : Int]
StockPc == {"idle", "check", "move", "push", "page", "count", "log", "done", "refused"}
StockOp == {"none", "order", "putBack", "add", "remove", "count"}
StockRequest == [pc : StockPc, op : StockOp, size : Buckets, attempt : Nat, saw : [Buckets -> Int],
                 version : Nat, current : Snapshots, given : {<< >>} \cup (Counts \X Counts)]

StockTyped ==
    /\ stockLevel \in Int /\ version \in Nat /\ sizeStock \in Seq(Row)
    /\ request \in [Requests -> StockRequest]
    /\ logs \in [Buckets -> Int] /\ book \in [Buckets -> Int] /\ byHand \in [Buckets -> Int]
    /\ stockDied \in Nat

\* No size has two buckets.
OneBucketEach(rows) == \A i, j \in DOMAIN rows : rows[i].size = rows[j].size => i = j
HasRow(rows, s) == \E i \in DOMAIN rows : rows[i].size = s

\* The operation of a request goes with where it stands, and it tries its
\* bucket again at most once, when the bucket is there.
OpFits(q, rows) ==
    /\ q.pc \in {"check", "move", "push"} => q.op \in {"order", "putBack", "add", "remove"}
    /\ q.pc \in {"page", "count"} => q.op = "count"
    /\ q.pc = "log" => q.op \in {"add", "remove", "count"}
    /\ q.op = "count" => q.size \in Sizes /\ q.given \in Counts \X Counts
    /\ q.op = "count" /\ q.pc \in {"count", "log"} => q.current # << >>
    /\ q.current # << >> => OneBucketEach(q.current.rows)
    /\ q.pc = "push" => q.size \in Sizes
    /\ q.attempt <= 1 /\ (q.pc \in {"check", "push"} => q.attempt = 0)
    /\ q.pc = "move" /\ q.attempt = 1 => HasRow(rows, q.size)

\* What a request read is still so, while the product has its version; what a
\* removal looked at is still there, while requests wait for each other.
SeesStill(q, level, rows, ver, bk, al) ==
    /\ q.version <= ver
    /\ q.pc \in {"page", "count"} /\ q.version = ver => q.saw = bk
    /\ q.pc = "count" /\ q.version = ver => q.current = [rows |-> rows, total |-> level]
    /\ al /\ q.op = "remove" /\ q.pc \in {"move", "push"} => Available(level, rows, q.size) >= 1

\* What a request has changed by hand and not logged yet.
ByDelta(q) == IF q.op \in {"order", "remove"} THEN -1 ELSE 1
CountedOff(q, b) ==
    IF b = q.size THEN q.given[1] - Available(q.current.total, q.current.rows, b)
    ELSE IF b = Unassigned THEN q.given[2] - Available(q.current.total, q.current.rows, b) ELSE 0
Unlogged(q, b) ==
    IF q.pc # "log" THEN 0 ELSE IF q.op = "count" THEN CountedOff(q, b)
    ELSE IF b = q.size THEN ByDelta(q) ELSE 0
UnloggedOf(rq, b) == SumFunctionOnSet([r \in Requests |-> Unlogged(rq[r], b)], Requests)

Idling(q) == q.pc \in {"idle", "done", "refused"}
TakeTurns == \A r, s \in Requests : Idling(request[r]) \/ Idling(request[s]) \/ r = s

StockInv ==
    /\ StockTyped /\ OneBucketEach(sizeStock) /\ StockFitsMoves
    /\ \A r \in Requests : OpFits(request[r], sizeStock)
    /\ \A r \in Requests : SeesStill(request[r], stockLevel, sizeStock, version, book, alone)
    /\ alone => TakeTurns
    /\ stockDied = 0 => \A b \in Buckets : byHand[b] = logs[b] + UnloggedOf(request, b)

-----------------------------------------------------------------------------
\* The buckets of a product.
RowSum(rows) == SumFunctionOnSet([i \in DOMAIN rows |-> rows[i].qty], DOMAIN rows)

LEMMA RowsAre ==
    ASSUME NEW rows \in Seq(Row)
    PROVE  /\ Len(rows) \in Nat /\ DOMAIN rows = 1 .. Len(rows) /\ IsFiniteSet(DOMAIN rows)
           /\ \A i \in DOMAIN rows : i \in Nat /\ rows[i] \in Row /\ rows[i].qty \in Int /\ rows[i].size \in Sizes
  <1>1. Len(rows) \in Nat /\ DOMAIN rows = 1 .. Len(rows) /\ \A i \in 1 .. Len(rows) : rows[i] \in Row
    OBVIOUS
  <1>2. IsFiniteSet(DOMAIN rows)
    BY <1>1, FS_Interval
  <1>3. \A i \in 1 .. Len(rows) : rows[i].qty \in Int /\ rows[i].size \in Sizes
    BY <1>1 DEF Row
  <1>4. QED
    BY <1>1, <1>2, <1>3

LEMMA AreRows ==
    ASSUME NEW n \in Nat, NEW next, DOMAIN next = 1 .. n, next = [i \in 1 .. n |-> next[i]],
           \A i \in 1 .. n : next[i] \in Row
    PROVE  next \in Seq(Row)
  <1>1. next \in [1 .. n -> Row]
    OBVIOUS
  <1>2. QED
    BY <1>1

LEMMA RowSumType ==
    ASSUME NEW rows \in Seq(Row)
    PROVE  /\ RowSum(rows) \in Int
           /\ \A t \in Int : unassignedOf(t, rows) = t - RowSum(rows) /\ unassignedOf(t, rows) \in Int
  <1>1. RowSum(rows) \in Int
    <2> DEFINE w == [i \in DOMAIN rows |-> rows[i].qty]
    <2>1. IsFiniteSet(DOMAIN rows) /\ \A i \in DOMAIN rows : w[i] \in Int
      BY RowsAre
    <2> HIDE DEF w
    <2>2. SumFunctionOnSet(w, DOMAIN rows) \in Int
      BY <2>1, SumType
    <2>3. QED
      BY <2>2 DEF RowSum, w
  <1>2. QED
    BY <1>1 DEF RowSum, unassignedOf

LEMMA QtyOf ==
    ASSUME NEW rows \in Seq(Row), OneBucketEach(rows)
    PROVE  /\ \A i \in DOMAIN rows : QtyIn(rows, rows[i].size) = rows[i].qty
           /\ \A s : ~HasRow(rows, s) => QtyIn(rows, s) = 0
           /\ \A s : QtyIn(rows, s) \in Int
  <1>1. ASSUME NEW i \in DOMAIN rows PROVE QtyIn(rows, rows[i].size) = rows[i].qty
    <2> DEFINE at == {j \in DOMAIN rows : rows[j].size = rows[i].size}
    <2>1. at = {i}
      BY DEF OneBucketEach
    <2>2. i \in Nat
      BY RowsAre
    <2>3. (CHOOSE k \in at : \A j \in at : k <= j) = i
      BY <2>1, <2>2
    <2>4. QED
      BY <2>1, <2>3 DEF QtyIn
  <1>2. ASSUME NEW s, ~HasRow(rows, s) PROVE QtyIn(rows, s) = 0
    BY <1>2 DEF QtyIn, HasRow
  <1>3. ASSUME NEW s PROVE QtyIn(rows, s) \in Int
    <2>1. CASE HasRow(rows, s)
      <3>1. PICK i \in DOMAIN rows : rows[i].size = s
        BY <2>1 DEF HasRow
      <3>2. rows[i].qty \in Int
        BY RowsAre
      <3>3. QED
        BY <1>1, <3>1, <3>2
    <2>2. QED
      BY <1>2, <2>1
  <1>4. QED
    BY <1>1, <1>2, <1>3

\* Only the bucket of size s is changed, by d or to n.
MovedBy(rows, next, s, d) ==
    /\ next \in Seq(Row) /\ OneBucketEach(next) /\ RowSum(next) = RowSum(rows) + d
    /\ \A t : HasRow(rows, t) => HasRow(next, t)
    /\ \A t : QtyIn(next, t) = QtyIn(rows, t) + (IF t = s THEN d ELSE 0)
SetTo(rows, next, s, n) ==
    /\ next \in Seq(Row) /\ OneBucketEach(next)
    /\ \A t : HasRow(rows, t) => HasRow(next, t)
    /\ \A t : QtyIn(next, t) = IF t = s THEN n ELSE QtyIn(rows, t)

\* A bucket is moved.
LEMMA Bumped ==
    ASSUME NEW rows \in Seq(Row), OneBucketEach(rows), NEW i \in DOMAIN rows, NEW d \in Int,
           NEW next, next = [rows EXCEPT ![i].qty = @ + d]
    PROVE  MovedBy(rows, next, rows[i].size, d)
  <1>1. /\ DOMAIN next = DOMAIN rows /\ next[i].qty = rows[i].qty + d
        /\ \A j \in DOMAIN rows : next[j].size = rows[j].size /\ (j # i => next[j] = rows[j])
        /\ \A j \in DOMAIN rows : next[j] \in Row /\ next[j].qty \in Int /\ rows[j].qty \in Int
    <2>1. \A j \in DOMAIN rows : rows[j] \in Row /\ rows[j].qty \in Int /\ rows[j].size \in Sizes
      BY RowsAre
    <2> HIDE DEF OneBucketEach
    <2>2. DOMAIN next = DOMAIN rows /\ next[i] = [rows[i] EXCEPT !.qty = rows[i].qty + d]
      OBVIOUS
    <2>3. \A j \in DOMAIN rows : j # i => next[j] = rows[j]
      OBVIOUS
    <2>4. next[i].qty = rows[i].qty + d /\ next[i].size = rows[i].size /\ next[i] \in Row
      BY <2>1, <2>2 DEF Row
    <2>5. QED
      BY <2>1, <2>2, <2>3, <2>4
  <1>2. next \in Seq(Row)
    <2>1. next = [j \in DOMAIN rows |-> next[j]]
      OBVIOUS
    <2>2. PICK n \in Nat : DOMAIN rows = 1 .. n
      BY RowsAre
    <2>3. DOMAIN next = 1 .. n /\ next = [j \in 1 .. n |-> next[j]] /\ \A j \in 1 .. n : next[j] \in Row
      BY <1>1, <2>1, <2>2
    <2>4. QED
      BY <2>3, AreRows
  <1>3. OneBucketEach(next)
    BY <1>1 DEF OneBucketEach
  <1>4. \A s : HasRow(rows, s) <=> HasRow(next, s)
    BY <1>1 DEF HasRow
  <1>5. RowSum(next) = RowSum(rows) + d
    <2> DEFINE w == [j \in DOMAIN rows |-> rows[j].qty]
               v == [j \in DOMAIN next |-> next[j].qty]
    <2>1. /\ \A j \in DOMAIN rows : w[j] \in Int /\ v[j] \in Int
          /\ \A j \in DOMAIN rows \ {i} : v[j] = w[j]
          /\ v[i] = w[i] + d
      BY <1>1
    <2>2. IsFiniteSet(DOMAIN rows)
      BY RowsAre
    <2> HIDE DEF w, v
    <2>3. SumFunctionOnSet(v, DOMAIN rows) = SumFunctionOnSet(w, DOMAIN rows) - w[i] + v[i]
      BY <2>1, <2>2, SumMoves
    <2>4. SumFunctionOnSet(w, DOMAIN rows) \in Int
      BY <2>1, <2>2, SumType
    <2>5. SumFunctionOnSet(v, DOMAIN next) = SumFunctionOnSet(w, DOMAIN rows) + d
      BY <1>1, <2>1, <2>3, <2>4
    <2>6. QED
      BY <2>5 DEF RowSum, w, v
  <1>6. ASSUME NEW s PROVE QtyIn(next, s) = QtyIn(rows, s) + (IF s = rows[i].size THEN d ELSE 0)
    <2>1. CASE HasRow(rows, s)
      <3>1. PICK j \in DOMAIN rows : rows[j].size = s
        BY <2>1 DEF HasRow
      <3>2. QtyIn(rows, s) = rows[j].qty /\ QtyIn(next, s) = next[j].qty
        BY <1>1, <1>2, <1>3, <3>1, QtyOf
      <3>3. j = i <=> s = rows[i].size
        BY <3>1 DEF OneBucketEach
      <3>4. rows[j].qty \in Int
        BY <1>1
      <3>5. QED
        BY <1>1, <3>1, <3>2, <3>3, <3>4
    <2>2. CASE ~HasRow(rows, s)
      <3>1. QtyIn(rows, s) = 0 /\ QtyIn(next, s) = 0
        BY <1>2, <1>3, <1>4, <2>2, QtyOf
      <3>2. s # rows[i].size
        BY <2>2 DEF HasRow
      <3>3. QED
        BY <3>1, <3>2
    <2>3. QED
      BY <2>1, <2>2
  <1>7. QED
    BY <1>2, <1>3, <1>4, <1>5, <1>6 DEF MovedBy

\* A bucket is added.
WithRow(rows, s, d) == Append(rows, [size |-> s, qty |-> d])

LEMMA Pushed ==
    ASSUME NEW rows \in Seq(Row), OneBucketEach(rows), NEW s \in Sizes, ~HasRow(rows, s), NEW d \in Int,
           NEW next, next = WithRow(rows, s, d)
    PROVE  MovedBy(rows, next, s, d) /\ SetTo(rows, next, s, d)
  <1> DEFINE row == [size |-> s, qty |-> d]
             n == Len(rows) + 1
  <1>0. row \in Row
    BY DEF Row
  <1>1. /\ next \in Seq(Row) /\ DOMAIN next = DOMAIN rows \cup {n} /\ next[n] = row /\ n \notin DOMAIN rows
        /\ \A j \in DOMAIN rows : next[j] = rows[j] /\ rows[j].qty \in Int
    <2>1. DOMAIN rows = 1 .. Len(rows) /\ Len(rows) \in Nat /\ \A j \in DOMAIN rows : rows[j].qty \in Int
      BY RowsAre
    <2>2. next \in Seq(Row) /\ Len(next) = n /\ next[n] = row /\ \A j \in 1 .. Len(rows) : next[j] = rows[j]
      BY <1>0, <2>1 DEF WithRow
    <2>3. DOMAIN next = 1 .. n
      BY <2>2, RowsAre
    <2>4. QED
      BY <2>1, <2>2, <2>3
  <1> HIDE DEF n
  <1>2. row.size = s /\ row.qty = d
    OBVIOUS
  <1> HIDE DEF row
  <1>3. OneBucketEach(next)
    <2>1. \A j \in DOMAIN rows : next[j].size # s
      BY <1>1 DEF HasRow
    <2>2. QED
      BY <1>1, <1>2, <2>1 DEF OneBucketEach
  <1>4. \A t : HasRow(next, t) <=> (HasRow(rows, t) \/ t = s)
    BY <1>1, <1>2 DEF HasRow
  <1>5. RowSum(next) = RowSum(rows) + d
    <2> DEFINE w == [j \in DOMAIN rows |-> rows[j].qty]
               v == [j \in DOMAIN next |-> next[j].qty]
    <2>1. /\ \A j \in DOMAIN rows : v[j] = w[j] /\ w[j] \in Int
          /\ v[n] = d
      BY <1>1, <1>2
    <2>2. IsFiniteSet(DOMAIN rows)
      BY RowsAre
    <2> HIDE DEF w, v
    <2>3. SumFunctionOnSet(v, DOMAIN rows \cup {n}) = SumFunctionOnSet(v, DOMAIN rows) + v[n]
      BY <1>1, <2>1, <2>2, SumAdds
    <2>4. SumFunctionOnSet(v, DOMAIN rows) = SumFunctionOnSet(w, DOMAIN rows)
      BY <2>1, <2>2, SumSame
    <2>5. QED
      BY <1>1, <2>1, <2>3, <2>4 DEF RowSum, w, v
  <1>6. ASSUME NEW t PROVE QtyIn(next, t) = IF t = s THEN d ELSE QtyIn(rows, t)
    <2>1. CASE t = s
      BY <1>1, <1>2, <1>3, <2>1, QtyOf
    <2>2. CASE t # s /\ HasRow(rows, t)
      <3>1. PICK j \in DOMAIN rows : rows[j].size = t
        BY <2>2 DEF HasRow
      <3>2. QtyIn(rows, t) = rows[j].qty /\ QtyIn(next, t) = next[j].qty
        BY <1>1, <1>3, <3>1, QtyOf
      <3>3. QED
        BY <1>1, <2>2, <3>2
    <2>3. CASE t # s /\ ~HasRow(rows, t)
      <3>1. QtyIn(rows, t) = 0 /\ QtyIn(next, t) = 0
        BY <1>1, <1>3, <1>4, <2>3, QtyOf
      <3>2. QED
        BY <2>3, <3>1
    <2>4. QED
      BY <2>1, <2>2, <2>3
  <1>7. ASSUME NEW t PROVE QtyIn(next, t) = QtyIn(rows, t) + (IF t = s THEN d ELSE 0)
    <2>1. QtyIn(rows, s) = 0 /\ QtyIn(rows, t) \in Int
      BY QtyOf
    <2>2. QED
      BY <1>6, <2>1
  <1>8. QED
    BY <1>1, <1>3, <1>4, <1>5, <1>6, <1>7 DEF MovedBy, SetTo

\* A bucket is counted.
LEMMA Recounted ==
    ASSUME NEW rows \in Seq(Row), OneBucketEach(rows), NEW s \in Sizes, NEW n \in Int,
           NEW next, next = WithCount(rows, s, n)
    PROVE  SetTo(rows, next, s, n)
  <1>1. CASE ~HasRow(rows, s)
    <2>1. next = WithRow(rows, s, n)
      BY <1>1 DEF WithCount, HasRow, WithRow
    <2>2. QED
      BY <1>1, <2>1, Pushed
  <1>2. CASE HasRow(rows, s)
    <2>1. next = [i \in DOMAIN rows |-> IF rows[i].size = s THEN [rows[i] EXCEPT !.qty = n] ELSE rows[i]]
      BY <1>2 DEF WithCount, HasRow
    <2>2. /\ DOMAIN next = DOMAIN rows
          /\ \A j \in DOMAIN rows : /\ next[j].size = rows[j].size /\ next[j] \in Row
                                    /\ next[j].qty = IF rows[j].size = s THEN n ELSE rows[j].qty
      <3>1. DOMAIN next = DOMAIN rows
        BY <2>1
      <3>2. ASSUME NEW j \in DOMAIN rows
            PROVE  /\ next[j].size = rows[j].size /\ next[j] \in Row
                   /\ next[j].qty = IF rows[j].size = s THEN n ELSE rows[j].qty
        <4>1. rows[j] \in Row
          BY RowsAre
        <4>2. next[j] = IF rows[j].size = s THEN [rows[j] EXCEPT !.qty = n] ELSE rows[j]
          BY <2>1
        <4>3. QED
          BY <4>1, <4>2 DEF Row
      <3>3. QED
        BY <3>1, <3>2
    <2>3. next \in Seq(Row)
      <3>1. next = [j \in DOMAIN rows |-> next[j]]
        BY <2>1
      <3>2. QED
        BY <2>2, <3>1, RowsAre, AreRows
    <2>4. OneBucketEach(next)
      BY <2>2 DEF OneBucketEach
    <2>5. \A t : HasRow(next, t) <=> HasRow(rows, t)
      BY <2>2 DEF HasRow
    <2>6. ASSUME NEW t PROVE QtyIn(next, t) = IF t = s THEN n ELSE QtyIn(rows, t)
      <3>1. CASE HasRow(rows, t)
        <4>1. PICK j \in DOMAIN rows : rows[j].size = t
          BY <3>1 DEF HasRow
        <4>2. QtyIn(rows, t) = rows[j].qty /\ QtyIn(next, t) = next[j].qty
          BY <2>2, <2>3, <2>4, <4>1, QtyOf
        <4>3. QED
          BY <2>2, <4>1, <4>2
      <3>2. CASE ~HasRow(rows, t)
        <4>1. QtyIn(rows, t) = 0 /\ QtyIn(next, t) = 0
          BY <2>3, <2>4, <2>5, <3>2, QtyOf
        <4>2. QED
          BY <1>2, <3>2, <4>1
      <3>3. QED
        BY <3>1, <3>2
    <2>7. QED
      BY <2>3, <2>4, <2>5, <2>6 DEF SetTo
  <1>3. QED
    BY <1>1, <1>2

-----------------------------------------------------------------------------
\* Types of what a request carries.
LEMMA AvailableType ==
    ASSUME NEW t \in Int, NEW rows \in Seq(Row), OneBucketEach(rows), NEW b
    PROVE  Available(t, rows, b) \in Int
  BY RowSumType, QtyOf DEF Available

LEMMA NoRequestTyped ==
    /\ NoRequest \in StockRequest /\ Zero \in [Buckets -> Int]
    /\ NoRequest.pc = "idle" /\ NoRequest.op = "none" /\ NoRequest.attempt = 0 /\ NoRequest.version = 0
    /\ NoRequest.current = << >>
  BY DEF NoRequest, StockRequest, StockPc, StockOp, Snapshots, Zero, Buckets

LEMMA UnloggedType ==
    ASSUME NEW q \in StockRequest, NEW rows, OpFits(q, rows), NEW b \in Buckets
    PROVE  Unlogged(q, b) \in Int
  <1>1. CASE q.pc # "log"
    BY <1>1 DEF Unlogged
  <1>2. CASE q.pc = "log" /\ q.op # "count"
    BY <1>2 DEF Unlogged, ByDelta
  <1>3. CASE q.pc = "log" /\ q.op = "count"
    <2>1. q.given \in Counts \X Counts /\ q.current \in [rows : Seq(Row), total : Int] /\ OneBucketEach(q.current.rows)
      BY <1>3 DEF OpFits, StockRequest, Snapshots
    <2>2. Available(q.current.total, q.current.rows, b) \in Int
      BY <2>1, AvailableType
    <2>3. q.given[1] \in Int /\ q.given[2] \in Int
      BY <2>1, StockAssumption
    <2>4. CountedOff(q, b) \in Int
      BY <2>2, <2>3 DEF CountedOff
    <2>5. QED
      BY <1>3, <2>4 DEF Unlogged
  <1>4. QED
    BY <1>1, <1>2, <1>3

LEMMA StockInitInv == StockInit => StockInv
  <1> SUFFICES ASSUME StockInit PROVE StockInv
    OBVIOUS
  <1>1. StockTyped
    BY NoRequestTyped DEF StockInit, StockTyped, Buckets
  <1>2. OneBucketEach(sizeStock) /\ \A s : ~HasRow(sizeStock, s)
    BY DEF StockInit, OneBucketEach, HasRow
  <1>3. StockFitsMoves
    <2>1. \A s \in Sizes : QtyIn(sizeStock, s) = 0
      BY <1>1, <1>2, QtyOf DEF StockTyped
    <2>2. RowSum(sizeStock) = 0
      <3>1. DOMAIN sizeStock = {}
        BY DEF StockInit
      <3>2. IsFiniteSet({})
        BY FS_EmptySet
      <3>3. QED
        BY <3>1, <3>2, SumStep DEF RowSum
    <2>3. unassignedOf(stockLevel, sizeStock) = 1
      <3>1. sizeStock \in Seq(Row) /\ stockLevel = 1
        BY <1>1 DEF StockTyped, StockInit
      <3>2. unassignedOf(1, sizeStock) = 1 - RowSum(sizeStock)
        BY <3>1, RowSumType
      <3>3. QED
        BY <2>2, <3>1, <3>2
    <2>4. book[Unassigned] = 1 /\ \A s \in Sizes : book[s] = 0
      BY StockAssumption DEF StockInit, Zero, Buckets
    <2>5. QED
      BY <2>1, <2>3, <2>4 DEF StockFitsMoves
  <1>4. \A r \in Requests : OpFits(request[r], sizeStock)
    BY NoRequestTyped DEF StockInit, OpFits
  <1>5. \A r \in Requests : SeesStill(request[r], stockLevel, sizeStock, version, book, alone)
    BY NoRequestTyped DEF StockInit, SeesStill
  <1>6. TakeTurns
    BY NoRequestTyped DEF StockInit, TakeTurns, Idling
  <1>7. ASSUME NEW b \in Buckets PROVE byHand[b] = logs[b] + UnloggedOf(request, b)
    <2> DEFINE w == [r \in Requests |-> Unlogged(request[r], b)]
    <2>1. \A r \in Requests : w[r] = 0
      BY NoRequestTyped DEF StockInit, Unlogged
    <2> HIDE DEF w
    <2>2. SumFunctionOnSet(w, Requests) = 0
      BY <2>1, SumNone, StockAssumption
    <2>3. QED
      BY <2>2 DEF StockInit, UnloggedOf, Zero, w
  <1>8. QED
    BY <1>1, <1>2, <1>3, <1>4, <1>5, <1>6, <1>7 DEF StockInv

\* One request moves on; what is unlogged changes by its part.
LEMMA StockMovesOn ==
    ASSUME StockInv, NEW r \in Requests, NEW n \in StockRequest, request' = [request EXCEPT ![r] = n],
           NEW rows, OpFits(n, rows)
    PROVE  /\ request' \in [Requests -> StockRequest] /\ request'[r] = n
           /\ \A s \in Requests \ {r} : request'[s] = request[s]
           /\ \A b \in Buckets :
                /\ Unlogged(n, b) \in Int /\ Unlogged(request[r], b) \in Int /\ UnloggedOf(request, b) \in Int
                /\ UnloggedOf(request', b) = UnloggedOf(request, b) - Unlogged(request[r], b) + Unlogged(n, b)
  <1>1. /\ request \in [Requests -> StockRequest] /\ request' \in [Requests -> StockRequest] /\ request'[r] = n
        /\ \A s \in Requests \ {r} : request'[s] = request[s]
    BY DEF StockInv, StockTyped
  <1>2. ASSUME NEW b \in Buckets
        PROVE  /\ Unlogged(n, b) \in Int /\ Unlogged(request[r], b) \in Int /\ UnloggedOf(request, b) \in Int
               /\ UnloggedOf(request', b) = UnloggedOf(request, b) - Unlogged(request[r], b) + Unlogged(n, b)
    <2> DEFINE w == [s \in Requests |-> Unlogged(request[s], b)]
               v == [s \in Requests |-> Unlogged(request'[s], b)]
    <2>1. \A s \in Requests : w[s] \in Int
      BY <1>1, UnloggedType DEF StockInv
    <2>2. Unlogged(n, b) \in Int
      BY UnloggedType
    <2>3. /\ v[r] = Unlogged(n, b) /\ w[r] = Unlogged(request[r], b)
          /\ \A s \in Requests \ {r} : v[s] = w[s]
      BY <1>1
    <2>4. \A s \in Requests : v[s] \in Int
      BY <2>1, <2>2, <2>3
    <2>5. /\ UnloggedOf(request, b) = SumFunctionOnSet(w, Requests)
          /\ UnloggedOf(request', b) = SumFunctionOnSet(v, Requests)
      BY DEF UnloggedOf
    <2> HIDE DEF w, v
    <2>6. IsFiniteSet(Requests)
      BY StockAssumption
    <2>7. SumFunctionOnSet(v, Requests) = SumFunctionOnSet(w, Requests) - w[r] + v[r]
      BY <2>1, <2>3, <2>4, <2>6, SumMoves
    <2>8. SumFunctionOnSet(w, Requests) \in Int
      BY <2>1, <2>6, SumType
    <2>9. QED
      BY <2>1, <2>2, <2>3, <2>5, <2>7, <2>8
  <1>3. QED
    BY <1>1, <1>2

\* A request that comes has the product to itself, when requests wait.
LEMMA TurnKept ==
    ASSUME StockInv, NEW r \in Requests, NEW n, request'[r] = n,
           \A s \in Requests \ {r} : request'[s] = request[s], alone' = alone,
           \/ Idling(n) \/ ~Idling(request[r])
           \/ alone => \A s \in Requests : Idling(request[s])
    PROVE  alone' => TakeTurns'
  BY DEF StockInv, TakeTurns, Idling

\* A step that changes nothing but the request.
LEMMA OnlyRequest ==
    ASSUME StockInv, NEW r \in Requests, NEW n \in StockRequest, request' = [request EXCEPT ![r] = n],
           UNCHANGED <<stockLevel, sizeStock, version, logs, book, byHand, alone>>,
           stockDied' \in Nat, stockDied' = 0 => stockDied = 0,
           OpFits(n, sizeStock), SeesStill(n, stockLevel, sizeStock, version, book, alone),
           \/ Idling(n) \/ ~Idling(request[r])
           \/ alone => \A s \in Requests : Idling(request[s]),
           stockDied' = 0 => \A b \in Buckets : Unlogged(n, b) = Unlogged(request[r], b)
    PROVE  StockInv'
  <1>1. /\ request' \in [Requests -> StockRequest] /\ request'[r] = n
        /\ \A s \in Requests \ {r} : request'[s] = request[s]
        /\ \A b \in Buckets :
             /\ Unlogged(n, b) \in Int /\ Unlogged(request[r], b) \in Int /\ UnloggedOf(request, b) \in Int
             /\ UnloggedOf(request', b) = UnloggedOf(request, b) - Unlogged(request[r], b) + Unlogged(n, b)
    BY StockMovesOn
  <1>2. StockTyped'
    BY <1>1 DEF StockInv, StockTyped
  <1>3. OneBucketEach(sizeStock)' /\ StockFitsMoves'
    BY DEF StockInv, StockFitsMoves
  <1>4. \A s \in Requests : OpFits(request'[s], sizeStock')
    BY <1>1 DEF StockInv
  <1>5. \A s \in Requests : SeesStill(request'[s], stockLevel', sizeStock', version', book', alone')
    BY <1>1 DEF StockInv
  <1>6. alone' => TakeTurns'
    BY <1>1, TurnKept
  <1>7. stockDied' = 0 => \A b \in Buckets : byHand'[b] = logs'[b] + UnloggedOf(request', b)
    <2> SUFFICES ASSUME stockDied' = 0, NEW b \in Buckets PROVE byHand[b] = logs[b] + UnloggedOf(request', b)
      OBVIOUS
    <2>1. byHand[b] = logs[b] + UnloggedOf(request, b) /\ Unlogged(n, b) = Unlogged(request[r], b)
      BY DEF StockInv
    <2> DEFINE u == UnloggedOf(request, b)
               v == UnloggedOf(request', b)
               x == Unlogged(n, b)
               y == Unlogged(request[r], b)
    <2>2. x \in Int /\ y \in Int /\ u \in Int /\ v = u - y + x /\ x = y
      BY <1>1, <2>1
    <2> HIDE DEF u, v, x, y
    <2>3. v = u
      BY <2>2
    <2>4. UnloggedOf(request', b) = UnloggedOf(request, b)
      BY <2>3 DEF u, v
    <2>5. QED
      BY <2>1, <2>4
  <1>8. QED
    BY <1>2, <1>3, <1>4, <1>5, <1>6, <1>7 DEF StockInv

\* A step that writes the product: nobody else's version is the new one.
LEMMA StockMoved ==
    ASSUME StockInv, NEW r \in Requests, NEW n \in StockRequest, request' = [request EXCEPT ![r] = n],
           request[r].pc \notin {"idle", "done", "refused", "log"}, n.pc \in {"log", "done"}, n.version <= version,
           stockLevel' \in Int, sizeStock' \in Seq(Row), OneBucketEach(sizeStock'),
           \A s : HasRow(sizeStock, s) => HasRow(sizeStock', s), OpFits(n, sizeStock'),
           version' = version + 1, book' \in [Buckets -> Int], byHand' \in [Buckets -> Int], StockFitsMoves',
           UNCHANGED <<logs, alone, stockDied>>,
           \A b \in Buckets : byHand'[b] = byHand[b] + Unlogged(n, b)
    PROVE  StockInv'
  <1>1. /\ request' \in [Requests -> StockRequest] /\ request'[r] = n
        /\ \A s \in Requests \ {r} : request'[s] = request[s]
        /\ \A b \in Buckets :
             /\ Unlogged(n, b) \in Int /\ Unlogged(request[r], b) \in Int /\ UnloggedOf(request, b) \in Int
             /\ UnloggedOf(request', b) = UnloggedOf(request, b) - Unlogged(request[r], b) + Unlogged(n, b)
    BY StockMovesOn
  <1>2. StockTyped'
    BY <1>1 DEF StockInv, StockTyped
  <1>3. ASSUME NEW s \in Requests PROVE OpFits(request'[s], sizeStock')
    <2>1. CASE s = r
      BY <1>1, <2>1
    <2>2. CASE s # r
      <3>1. OpFits(request[s], sizeStock) /\ request'[s] = request[s]
        BY <1>1, <2>2 DEF StockInv
      <3>2. QED
        BY <3>1 DEF OpFits
    <2>3. QED
      BY <2>1, <2>2
  <1>4. ASSUME NEW s \in Requests
        PROVE  SeesStill(request'[s], stockLevel', sizeStock', version', book', alone')
    <2>0. version \in Nat /\ request[s].version \in Nat /\ n.version \in Nat
      BY DEF StockInv, StockTyped, StockRequest
    <2>1. CASE s = r
      BY <1>1, <2>0, <2>1 DEF SeesStill
    <2>2. CASE s # r
      <3>1. request'[s] = request[s] /\ request[s].version <= version
        BY <1>1, <2>2 DEF StockInv, SeesStill
      <3>2. alone => Idling(request[s])
        BY <2>2 DEF StockInv, TakeTurns, Idling
      <3>3. QED
        BY <2>0, <3>1, <3>2 DEF SeesStill, Idling
    <2>3. QED
      BY <2>1, <2>2
  <1>5. alone' => TakeTurns'
    BY <1>1, TurnKept DEF Idling
  <1>6. \A b \in Buckets : Unlogged(request[r], b) = 0
    BY DEF Unlogged
  <1>7. stockDied' = 0 => \A b \in Buckets : byHand'[b] = logs'[b] + UnloggedOf(request', b)
    <2> SUFFICES ASSUME stockDied = 0, NEW b \in Buckets PROVE byHand'[b] = logs[b] + UnloggedOf(request', b)
      OBVIOUS
    <2>1. byHand[b] = logs[b] + UnloggedOf(request, b) /\ logs[b] \in Int
      BY DEF StockInv, StockTyped
    <2>2. /\ Unlogged(n, b) \in Int /\ UnloggedOf(request, b) \in Int
          /\ UnloggedOf(request', b) = UnloggedOf(request, b) - Unlogged(request[r], b) + Unlogged(n, b)
      BY <1>1
    <2>3. Unlogged(request[r], b) = 0
      BY <1>6
    <2>4. byHand'[b] = byHand[b] + Unlogged(n, b)
      OBVIOUS
    <2> DEFINE u == UnloggedOf(request, b)
               v == UnloggedOf(request', b)
               x == Unlogged(n, b)
               y == Unlogged(request[r], b)
    <2>5. byHand[b] = logs[b] + u /\ x \in Int /\ u \in Int /\ v = u - y + x /\ y = 0 /\ byHand'[b] = byHand[b] + x
      BY <2>1, <2>2, <2>3, <2>4
    <2> HIDE DEF u, v, x, y
    <2>6. byHand'[b] = logs[b] + v
      BY <2>1, <2>5
    <2>7. QED
      BY <2>6 DEF v
  <1>8. QED
    BY <1>2, <1>3, <1>4, <1>5, <1>7 DEF StockInv

\* A step that logs what its request has changed by hand.
LEMMA StockLogged ==
    ASSUME StockInv, NEW r \in Requests, request[r].pc = "log",
           request' = [request EXCEPT ![r].pc = "done"],
           UNCHANGED <<stockLevel, sizeStock, version, book, byHand, alone, stockDied>>,
           logs' \in [Buckets -> Int], \A b \in Buckets : logs'[b] = logs[b] + Unlogged(request[r], b)
    PROVE  StockInv'
  <1> DEFINE n == [request[r] EXCEPT !.pc = "done"]
  <1>0. request[r] \in StockRequest /\ OpFits(request[r], sizeStock)
        /\ SeesStill(request[r], stockLevel, sizeStock, version, book, alone)
    BY DEF StockInv, StockTyped
  <1>1. n \in StockRequest /\ OpFits(n, sizeStock) /\ SeesStill(n, stockLevel, sizeStock, version, book, alone)
        /\ n.pc = "done"
    BY <1>0 DEF StockRequest, StockPc, OpFits, SeesStill
  <1>2. request' = [request EXCEPT ![r] = n]
    OBVIOUS
  <1> HIDE DEF n
  <1>3. /\ request' \in [Requests -> StockRequest] /\ request'[r] = n
        /\ \A s \in Requests \ {r} : request'[s] = request[s]
        /\ \A b \in Buckets :
             /\ Unlogged(n, b) \in Int /\ Unlogged(request[r], b) \in Int /\ UnloggedOf(request, b) \in Int
             /\ UnloggedOf(request', b) = UnloggedOf(request, b) - Unlogged(request[r], b) + Unlogged(n, b)
    BY <1>1, <1>2, StockMovesOn
  <1>4. StockTyped'
    BY <1>3 DEF StockInv, StockTyped
  <1>5. OneBucketEach(sizeStock)' /\ StockFitsMoves'
    BY DEF StockInv, StockFitsMoves
  <1>6. \A s \in Requests : OpFits(request'[s], sizeStock')
    BY <1>1, <1>3 DEF StockInv
  <1>7. \A s \in Requests : SeesStill(request'[s], stockLevel', sizeStock', version', book', alone')
    BY <1>1, <1>3 DEF StockInv
  <1>8. alone' => TakeTurns'
    BY <1>1, <1>3, TurnKept DEF Idling
  <1>9. stockDied' = 0 => \A b \in Buckets : byHand'[b] = logs'[b] + UnloggedOf(request', b)
    <2> SUFFICES ASSUME stockDied = 0, NEW b \in Buckets PROVE byHand[b] = logs'[b] + UnloggedOf(request', b)
      OBVIOUS
    <2>1. byHand[b] = logs[b] + UnloggedOf(request, b) /\ logs[b] \in Int
      BY DEF StockInv, StockTyped
    <2>2. Unlogged(n, b) = 0
      BY <1>1 DEF Unlogged
    <2> DEFINE u == UnloggedOf(request, b)
               v == UnloggedOf(request', b)
               x == Unlogged(n, b)
               y == Unlogged(request[r], b)
    <2>3. byHand[b] = logs[b] + u /\ x = 0 /\ y \in Int /\ u \in Int /\ v = u - y + x /\ logs'[b] = logs[b] + y
      BY <1>3, <2>1, <2>2
    <2> HIDE DEF u, v, x, y
    <2>4. byHand[b] = logs'[b] + v
      BY <2>1, <2>3
    <2>5. QED
      BY <2>4 DEF v
  <1>10. QED
    BY <1>4, <1>5, <1>6, <1>7, <1>8, <1>9 DEF StockInv

\* A movement that lands: the bucket it names, and the total, move by its unit.
LEMMA LandedKeeps ==
    ASSUME StockInv, NEW r \in Requests, request[r].pc \in {"move", "push"}, Landed(r),
           stockLevel' = stockLevel + Delta(r), sizeStock' \in Seq(Row), OneBucketEach(sizeStock'),
           \A s : HasRow(sizeStock, s) => HasRow(sizeStock', s),
           RowSum(sizeStock') = RowSum(sizeStock) + (IF request[r].size = Unassigned THEN 0 ELSE Delta(r)),
           \A s \in Sizes :
               QtyIn(sizeStock', s) = QtyIn(sizeStock, s) + (IF s = request[r].size THEN Delta(r) ELSE 0)
    PROVE  /\ StockInv'
           /\ Available(stockLevel', sizeStock', request[r].size)
                = Available(stockLevel, sizeStock, request[r].size) + Delta(r)
  <1> DEFINE q == request[r]
             d == Delta(r)
             n == [q EXCEPT !.pc = IF IsByHand(r) THEN "log" ELSE "done"]
  <1>0. /\ q \in StockRequest /\ q.size \in Buckets /\ OpFits(q, sizeStock)
        /\ SeesStill(q, stockLevel, sizeStock, version, book, alone)
        /\ stockLevel \in Int /\ sizeStock \in Seq(Row) /\ OneBucketEach(sizeStock)
        /\ book \in [Buckets -> Int] /\ byHand \in [Buckets -> Int]
        /\ d \in Int /\ d = ByDelta(q)
    BY DEF StockInv, StockTyped, StockRequest, Delta, ByDelta
  <1>1. /\ n \in StockRequest /\ n.pc \in {"log", "done"} /\ n.version <= version
        /\ request' = [request EXCEPT ![r] = n] /\ n.size = q.size /\ n.op = q.op
        /\ n.pc = "log" <=> IsByHand(r)
    <2>1. n \in StockRequest /\ n.pc \in {"log", "done"} /\ n.version = q.version /\ (n.pc = "log" <=> IsByHand(r))
          /\ n.size = q.size /\ n.op = q.op
      BY <1>0 DEF StockRequest, StockPc
    <2>2. request' = [request EXCEPT ![r] = n]
      BY DEF Landed
    <2>3. QED
      BY <1>0, <2>1, <2>2 DEF SeesStill
  <1>2. OpFits(n, sizeStock')
    BY <1>0 DEF OpFits, IsByHand
  <1>3. book' = [book EXCEPT ![q.size] = @ + d] /\ book' \in [Buckets -> Int]
    <2>1. book' = [book EXCEPT ![q.size] = @ + d]
      BY DEF Landed
    <2> HIDE DEF q, d
    <2>2. QED
      BY <1>0, <2>1
  <1>4. /\ byHand' \in [Buckets -> Int] /\ \A b \in Buckets : byHand'[b] = byHand[b] + Unlogged(n, b)
    <2>1. byHand' = IF IsByHand(r) THEN [byHand EXCEPT ![q.size] = @ + d] ELSE byHand
      BY DEF Landed
    <2>2. \A b \in Buckets : Unlogged(n, b) = IF IsByHand(r) /\ b = q.size THEN d ELSE 0
      BY <1>0, <1>1 DEF Unlogged, IsByHand, ByDelta
    <2> HIDE DEF q, d, n
    <2>3. byHand' \in [Buckets -> Int]
      BY <1>0, <2>1
    <2>4. QED
      BY <1>0, <2>1, <2>2
  <1>5. stockLevel' \in Int
    <2> HIDE DEF d
    <2> QED BY <1>0
  <1>6. Available(stockLevel', sizeStock', q.size) = Available(stockLevel, sizeStock, q.size) + d
    <2>1. CASE q.size = Unassigned
      <3>1. /\ unassignedOf(stockLevel', sizeStock') = stockLevel' - RowSum(sizeStock')
            /\ unassignedOf(stockLevel, sizeStock) = stockLevel - RowSum(sizeStock)
            /\ RowSum(sizeStock) \in Int /\ RowSum(sizeStock') = RowSum(sizeStock) + 0
        BY <1>0, <1>5, <2>1, RowSumType
      <3> DEFINE a == RowSum(sizeStock)
                 b == RowSum(sizeStock')
      <3> HIDE DEF a, b, d
      <3>2. stockLevel' - b = (stockLevel - a) + d
        BY <1>0, <3>1 DEF a, b, d
      <3>3. QED
        BY <2>1, <3>1, <3>2 DEF Available, a, b
    <2>2. CASE q.size # Unassigned
      BY <1>0, <2>2 DEF Available, Buckets
    <2>3. QED
      BY <2>1, <2>2
  <1>7. StockFitsMoves'
    <2>0. /\ \A s \in Sizes : QtyIn(sizeStock, s) = book[s]
          /\ unassignedOf(stockLevel, sizeStock) = book[Unassigned]
      BY DEF StockInv, StockFitsMoves
    <2>1. ASSUME NEW s \in Sizes PROVE QtyIn(sizeStock', s) = book'[s]
      <3>1. book'[s] = book[s] + (IF s = q.size THEN d ELSE 0)
        <4>1. s \in Buckets /\ book[s] \in Int
          BY <1>0 DEF Buckets
        <4> HIDE DEF q, d
        <4>2. QED
          BY <1>0, <1>3, <4>1
      <3>2. QED
        BY <2>0, <3>1
    <2>2. unassignedOf(stockLevel', sizeStock') = book'[Unassigned]
      <3>1. CASE q.size = Unassigned
        <4>1. book'[Unassigned] = book[Unassigned] + d
          <5> HIDE DEF q, d
          <5> QED BY <1>0, <1>3, <3>1
        <4>2. QED
          BY <1>6, <2>0, <3>1, <4>1 DEF Available
      <3>2. CASE q.size # Unassigned
        <4>1. book'[Unassigned] = book[Unassigned]
          <5> HIDE DEF q, d
          <5> QED BY <1>0, <1>3, <3>2 DEF Buckets
        <4>2. /\ unassignedOf(stockLevel', sizeStock') = stockLevel' - RowSum(sizeStock')
              /\ unassignedOf(stockLevel, sizeStock) = stockLevel - RowSum(sizeStock)
              /\ RowSum(sizeStock) \in Int /\ RowSum(sizeStock') = RowSum(sizeStock) + d
          BY <1>0, <1>5, <3>2, RowSumType
        <4> DEFINE a == RowSum(sizeStock)
                   b == RowSum(sizeStock')
        <4> HIDE DEF a, b, d
        <4>3. stockLevel' - b = stockLevel - a
          BY <1>0, <4>2 DEF a, b, d
        <4>4. QED
          BY <2>0, <4>1, <4>2, <4>3 DEF a, b
      <3>3. QED
        BY <3>1, <3>2
    <2>3. QED
      BY <2>1, <2>2 DEF StockFitsMoves
  <1>8. StockInv'
    <2>1. q.pc \notin {"idle", "done", "refused", "log"}
      OBVIOUS
    <2>2. version' = version + 1 /\ UNCHANGED <<logs, alone, stockDied>>
      BY DEF Landed
    <2> HIDE DEF n
    <2>3. QED
      BY <1>1, <1>2, <1>3, <1>4, <1>5, <1>7, <2>1, <2>2, StockMoved
  <1>9. QED
    BY <1>6, <1>8

-----------------------------------------------------------------------------
\* One lemma for each action.
LEMMA NamedIsHas == \A s : Named(s) # {} <=> HasRow(sizeStock, s)
  BY DEF Named, HasRow

LEMMA OfRequest ==
    ASSUME StockInv, NEW r \in Requests
    PROVE  /\ request[r] \in StockRequest /\ OpFits(request[r], sizeStock)
           /\ SeesStill(request[r], stockLevel, sizeStock, version, book, alone)
           /\ stockLevel \in Int /\ sizeStock \in Seq(Row) /\ OneBucketEach(sizeStock)
           /\ version \in Nat /\ stockDied \in Nat
           /\ logs \in [Buckets -> Int] /\ book \in [Buckets -> Int] /\ byHand \in [Buckets -> Int]
  BY DEF StockInv, StockTyped

LEMMA StartKeepsStock ==
    ASSUME StockInv, NEW r \in Requests, Start(r) PROVE StockInv'
  <1>1. PICK op \in {"order", "putBack", "add", "remove"}, b \in Buckets :
            request' = [request EXCEPT ![r] =
               [NoRequest EXCEPT !.op = op, !.size = b,
                   !.pc = IF op \in {"add", "remove"} THEN "check" ELSE "move"]]
    BY DEF Start
  <1> DEFINE n == [NoRequest EXCEPT !.op = op, !.size = b,
                       !.pc = IF op \in {"add", "remove"} THEN "check" ELSE "move"]
  <1>2. /\ n \in StockRequest /\ n.op = op /\ n.size = b /\ n.attempt = 0 /\ n.version = 0 /\ n.current = << >>
        /\ n.pc = IF op \in {"add", "remove"} THEN "check" ELSE "move"
    BY NoRequestTyped DEF StockRequest, StockPc, StockOp
  <1>3. request' = [request EXCEPT ![r] = n]
    BY <1>1
  <1> HIDE DEF n
  <1>4. OpFits(n, sizeStock)
    BY <1>2 DEF OpFits
  <1>5. SeesStill(n, stockLevel, sizeStock, version, book, alone)
    BY <1>2, OfRequest DEF SeesStill
  <1>6. request[r].pc = "idle" /\ (alone => \A s \in Requests : Idling(request[s]))
        /\ UNCHANGED <<stockLevel, sizeStock, version, logs, book, byHand, alone, stockDied>>
    BY DEF Start, Ready, Idling
  <1>7. \A c \in Buckets : Unlogged(n, c) = Unlogged(request[r], c)
    BY <1>2, <1>6 DEF Unlogged
  <1>8. QED
    BY <1>2, <1>3, <1>4, <1>5, <1>6, <1>7, OnlyRequest, OfRequest

LEMMA OpenKeepsStock ==
    ASSUME StockInv, NEW r \in Requests, OpenPage(r) PROVE StockInv'
  <1>1. PICK s \in Sizes, g \in Counts, u \in Counts :
            request' = [request EXCEPT ![r] =
               [NoRequest EXCEPT !.pc = "page", !.op = "count", !.size = s, !.saw = book,
                   !.version = version, !.given = <<g, u>>]]
    BY DEF OpenPage
  <1> DEFINE n == [NoRequest EXCEPT !.pc = "page", !.op = "count", !.size = s, !.saw = book,
                       !.version = version, !.given = <<g, u>>]
  <1>2. /\ n \in StockRequest /\ n.op = "count" /\ n.size = s /\ n.attempt = 0 /\ n.version = version
        /\ n.current = << >> /\ n.pc = "page" /\ n.saw = book /\ n.given = <<g, u>>
    BY NoRequestTyped, OfRequest DEF StockRequest, StockPc, StockOp, Buckets
  <1>3. request' = [request EXCEPT ![r] = n]
    BY <1>1
  <1> HIDE DEF n
  <1>4. OpFits(n, sizeStock)
    BY <1>2 DEF OpFits
  <1>5. SeesStill(n, stockLevel, sizeStock, version, book, alone)
    BY <1>2, OfRequest DEF SeesStill
  <1>6. request[r].pc = "idle" /\ (alone => \A t \in Requests : Idling(request[t]))
        /\ UNCHANGED <<stockLevel, sizeStock, version, logs, book, byHand, alone, stockDied>>
    BY DEF OpenPage, Ready, Idling
  <1>7. \A c \in Buckets : Unlogged(n, c) = Unlogged(request[r], c)
    BY <1>2, <1>6 DEF Unlogged
  <1>8. QED
    BY <1>2, <1>3, <1>4, <1>5, <1>6, <1>7, OnlyRequest, OfRequest

LEMMA CheckKeepsStock ==
    ASSUME StockInv, NEW r \in Requests, CheckAvailable(r) PROVE StockInv'
  <1> DEFINE q == request[r]
             short == q.op = "remove" /\ Available(stockLevel, sizeStock, q.size) < 1
             n == [q EXCEPT !.pc = IF short THEN "refused" ELSE "move"]
  <1>1. /\ q.pc = "check" /\ request' = [request EXCEPT ![r] = n]
        /\ UNCHANGED <<stockLevel, sizeStock, version, logs, book, byHand, alone, stockDied>>
    BY DEF CheckAvailable
  <1>2. q \in StockRequest /\ OpFits(q, sizeStock) /\ SeesStill(q, stockLevel, sizeStock, version, book, alone)
        /\ Available(stockLevel, sizeStock, q.size) \in Int /\ stockDied \in Nat
    BY OfRequest, AvailableType
  <1>3. n \in StockRequest /\ n.pc = (IF short THEN "refused" ELSE "move")
    BY <1>2 DEF StockRequest, StockPc
  <1>4. OpFits(n, sizeStock)
    BY <1>1, <1>2 DEF OpFits, StockRequest
  <1>5. SeesStill(n, stockLevel, sizeStock, version, book, alone)
    BY <1>1, <1>2 DEF SeesStill, StockRequest
  <1>6. \A c \in Buckets : Unlogged(n, c) = Unlogged(q, c)
    BY <1>1, <1>3 DEF Unlogged
  <1> HIDE DEF n
  <1>7. QED
    BY <1>1, <1>2, <1>3, <1>4, <1>5, <1>6, OnlyRequest DEF Idling

LEMMA ReadKeepsStock ==
    ASSUME StockInv, NEW r \in Requests, ReadForCount(r) PROVE StockInv'
  <1> DEFINE q == request[r]
             n == [q EXCEPT !.pc = "count", !.current = [rows |-> sizeStock, total |-> stockLevel]]
  <1>1. /\ q.pc = "page" /\ request' = [request EXCEPT ![r] = n]
        /\ UNCHANGED <<stockLevel, sizeStock, version, logs, book, byHand, alone, stockDied>>
    BY OfRequest DEF ReadForCount, StockRequest
  <1>2. q \in StockRequest /\ OpFits(q, sizeStock) /\ SeesStill(q, stockLevel, sizeStock, version, book, alone)
        /\ stockDied \in Nat /\ stockLevel \in Int /\ sizeStock \in Seq(Row) /\ OneBucketEach(sizeStock)
    BY OfRequest
  <1>3. /\ n \in StockRequest /\ n.pc = "count" /\ n.op = q.op /\ n.size = q.size /\ n.given = q.given
        /\ n.attempt = q.attempt /\ n.version = q.version /\ n.saw = q.saw
        /\ n.current = [rows |-> sizeStock, total |-> stockLevel]
    BY <1>2 DEF StockRequest, StockPc, Snapshots
  <1>4. n.current # << >> /\ n.current.rows = sizeStock
    BY <1>3
  <1>5. OpFits(n, sizeStock)
    BY <1>1, <1>2, <1>3, <1>4 DEF OpFits
  <1>6. SeesStill(n, stockLevel, sizeStock, version, book, alone)
    BY <1>1, <1>2, <1>3 DEF SeesStill
  <1>7. \A c \in Buckets : Unlogged(n, c) = Unlogged(q, c)
    BY <1>1, <1>3 DEF Unlogged
  <1> HIDE DEF n
  <1>8. QED
    BY <1>1, <1>2, <1>3, <1>5, <1>6, <1>7, OnlyRequest DEF Idling

LEMMA RequestDiesKeeps ==
    ASSUME StockInv, NEW r \in Requests, RequestDies(r) PROVE StockInv'
  <1> DEFINE q == request[r]
             n == [q EXCEPT !.pc = "refused"]
  <1>1. /\ request' = [request EXCEPT ![r] = n] /\ stockDied' = stockDied + 1
        /\ UNCHANGED <<stockLevel, sizeStock, version, logs, book, byHand, alone>>
    BY DEF RequestDies
  <1>2. q \in StockRequest /\ OpFits(q, sizeStock) /\ SeesStill(q, stockLevel, sizeStock, version, book, alone)
        /\ stockDied \in Nat
    BY OfRequest
  <1>3. n \in StockRequest /\ n.pc = "refused" /\ OpFits(n, sizeStock)
        /\ SeesStill(n, stockLevel, sizeStock, version, book, alone)
    BY <1>2 DEF StockRequest, StockPc, OpFits, SeesStill
  <1>4. stockDied' \in Nat /\ stockDied' # 0
    BY <1>1, <1>2
  <1> HIDE DEF n
  <1>5. QED
    BY <1>1, <1>2, <1>3, <1>4, OnlyRequest DEF Idling

LEMMA AdjustmentKeepsStock ==
    ASSUME StockInv, NEW r \in Requests, LogAdjustment(r) PROVE StockInv'
  <1> DEFINE q == request[r]
             d == Delta(r)
  <1>1. /\ q.pc = "log" /\ q.op \in {"add", "remove"} /\ logs' = [logs EXCEPT ![q.size] = @ + d]
        /\ request' = [request EXCEPT ![r].pc = "done"]
        /\ UNCHANGED <<stockLevel, sizeStock, version, book, byHand, alone, stockDied>>
    BY DEF LogAdjustment, IsByHand
  <1>2. \A b \in Buckets : Unlogged(q, b) = IF b = q.size THEN d ELSE 0
    BY <1>1 DEF Unlogged, Delta, ByDelta
  <1>3. d \in Int /\ logs \in [Buckets -> Int]
    BY OfRequest DEF Delta
  <1>4. logs' \in [Buckets -> Int] /\ \A b \in Buckets : logs'[b] = logs[b] + (IF b = q.size THEN d ELSE 0)
    <2> DEFINE s == q.size
    <2>1. logs' = [logs EXCEPT ![s] = @ + d] /\ s \in Buckets
      BY <1>1, OfRequest DEF StockRequest
    <2> HIDE DEF s, d
    <2>2. logs' \in [Buckets -> Int] /\ \A b \in Buckets : logs'[b] = logs[b] + (IF b = s THEN d ELSE 0)
      BY <1>3, <2>1
    <2>3. QED
      BY <2>2 DEF s
  <1>5. \A b \in Buckets : logs'[b] = logs[b] + Unlogged(q, b)
    BY <1>2, <1>4
  <1>6. QED
    BY <1>1, <1>4, <1>5, StockLogged

LEMMA CountLogKeepsStock ==
    ASSUME StockInv, NEW r \in Requests, LogCount(r) PROVE StockInv'
  <1> DEFINE q == request[r]
             was(b) == Available(q.current.total, q.current.rows, b)
             x == q.given[1] - was(q.size)
             y == q.given[2] - was(Unassigned)
             s == q.size
  <1>0. q \in StockRequest /\ OpFits(q, sizeStock) /\ logs \in [Buckets -> Int]
    BY OfRequest
  <1>1. /\ q.pc = "log" /\ q.op = "count"
        /\ logs' = [logs EXCEPT ![q.size] = @ + q.given[1] - was(q.size),
                                ![Unassigned] = @ + q.given[2] - was(Unassigned)]
        /\ request' = [request EXCEPT ![r].pc = "done"]
        /\ UNCHANGED <<stockLevel, sizeStock, version, book, byHand, alone, stockDied>>
    BY DEF LogCount
  <1>2. /\ s \in Sizes /\ q.given \in Counts \X Counts /\ q.current \in [rows : Seq(Row), total : Int]
        /\ OneBucketEach(q.current.rows)
    BY <1>0, <1>1 DEF OpFits, StockRequest, Snapshots
  <1>3. \A b : was(b) \in Int
    BY <1>2, AvailableType
  <1>4. q.given[1] \in Int /\ q.given[2] \in Int
    BY <1>2, StockAssumption
  <1>5. \A b \in Buckets : Unlogged(q, b) = IF b = s THEN x ELSE IF b = Unassigned THEN y ELSE 0
    BY <1>1 DEF Unlogged, CountedOff
  <1>6. x \in Int /\ y \in Int
    BY <1>3, <1>4
  <1>7. logs' = [logs EXCEPT ![s] = @ + x, ![Unassigned] = @ + y]
    <2> DEFINE g == q.given[1]
               h == q.given[2]
               e == was(q.size)
               f == was(Unassigned)
    <2>1. g \in Int /\ h \in Int /\ e \in Int /\ f \in Int /\ s \in Buckets /\ Unassigned \in Buckets /\ s # Unassigned
      BY <1>2, <1>3, <1>4, StockAssumption DEF Buckets
    <2>2. logs' = [logs EXCEPT ![s] = @ + g - e, ![Unassigned] = @ + h - f]
      BY <1>1
    <2>3. x = g - e /\ y = h - f
      OBVIOUS
    <2> HIDE DEF g, h, e, f, x, y, s
    <2>4. \A b \in Buckets : logs[b] \in Int
      BY <1>0
    <2>5. logs[s] + g - e = logs[s] + x /\ logs[Unassigned] + h - f = logs[Unassigned] + y
      BY <2>1, <2>3, <2>4
    <2>6. QED
      BY <1>0, <2>1, <2>2, <2>5
  <1>8. s \in Buckets /\ Unassigned \in Buckets /\ s # Unassigned
    BY <1>2, StockAssumption DEF Buckets
  <1>9. /\ logs' \in [Buckets -> Int]
        /\ \A b \in Buckets : logs'[b] = logs[b] + (IF b = s THEN x ELSE IF b = Unassigned THEN y ELSE 0)
    <2> HIDE DEF x, y, s
    <2> QED BY <1>0, <1>6, <1>7, <1>8
  <1>10. \A b \in Buckets : logs'[b] = logs[b] + Unlogged(q, b)
    BY <1>5, <1>9
  <1>11. QED
    BY <1>1, <1>9, <1>10, StockLogged

LEMMA IncrementKeepsStock ==
    ASSUME StockInv, NEW r \in Requests, IncrementBucket(r)
    PROVE  /\ StockInv'
           /\ request'[r].pc = "log" => Available(stockLevel', sizeStock', request[r].size)
                                          = Available(stockLevel, sizeStock, request[r].size) + Delta(r)
  <1> DEFINE q == request[r]
             d == Delta(r)
  <1>0. /\ q \in StockRequest /\ OpFits(q, sizeStock)
        /\ SeesStill(q, stockLevel, sizeStock, version, book, alone)
        /\ stockLevel \in Int /\ sizeStock \in Seq(Row) /\ OneBucketEach(sizeStock)
        /\ request \in [Requests -> StockRequest] /\ stockDied \in Nat
        /\ d \in Int /\ RowSum(sizeStock) \in Int /\ q.pc = "move" /\ q.size \in Buckets
        /\ \A s : QtyIn(sizeStock, s) \in Int
    <2>1. d \in Int /\ q.pc = "move"
      BY DEF IncrementBucket, Delta
    <2>2. q \in StockRequest /\ request \in [Requests -> StockRequest]
      BY DEF StockInv, StockTyped
    <2>3. q.size \in Buckets
      BY <2>2 DEF StockRequest
    <2>4. RowSum(sizeStock) \in Int /\ \A s : QtyIn(sizeStock, s) \in Int
      BY OfRequest, RowSumType, QtyOf
    <2>5. QED
      BY <2>1, <2>2, <2>3, <2>4, OfRequest
  <1>1. CASE /\ q.size = Unassigned /\ stockLevel' = stockLevel + d
             /\ Landed(r) /\ UNCHANGED sizeStock
    <2>1. RowSum(sizeStock') = RowSum(sizeStock) + (IF q.size = Unassigned THEN 0 ELSE d)
      <3> HIDE DEF d, q
      <3> QED BY <1>0, <1>1
    <2>2. \A s \in Sizes : QtyIn(sizeStock', s) = QtyIn(sizeStock, s) + (IF s = q.size THEN d ELSE 0)
      <3> HIDE DEF d, q
      <3>1. \A s \in Sizes : s # Unassigned
        BY StockAssumption
      <3> QED BY <1>0, <1>1, <3>1
    <2>3. QED
      BY <1>0, <1>1, <2>1, <2>2, LandedKeeps
  <1>2. CASE /\ q.size # Unassigned /\ Named(q.size) # {} /\ stockLevel' = stockLevel + d
             /\ \E i \in Named(q.size) :
                   /\ \A j \in Named(q.size) : i <= j
                   /\ sizeStock' = [sizeStock EXCEPT ![i].qty = @ + d]
             /\ Landed(r)
    <2>1. PICK i \in DOMAIN sizeStock : sizeStock[i].size = q.size /\ sizeStock' = [sizeStock EXCEPT ![i].qty = @ + d]
      BY <1>2 DEF Named
    <2>2. PICK next, rows, e, b : next = sizeStock' /\ rows = sizeStock /\ e = d /\ b = q.size
      OBVIOUS
    <2>3. /\ rows \in Seq(Row) /\ OneBucketEach(rows) /\ i \in DOMAIN rows /\ e \in Int
          /\ next = [rows EXCEPT ![i].qty = @ + e] /\ rows[i].size = b
      BY <1>0, <2>1, <2>2
    <2>4. MovedBy(rows, next, b, e)
      BY <2>3, Bumped
    <2>5. QED
      BY <1>0, <1>2, <2>2, <2>4, LandedKeeps DEF MovedBy
  <1>3. CASE /\ q.size # Unassigned /\ Named(q.size) = {}
             /\ request' = [request EXCEPT ![r].pc = "push"]
             /\ UNCHANGED <<stockLevel, sizeStock, version, logs, book, byHand, alone, stockDied>>
    <2> DEFINE n == [q EXCEPT !.pc = "push"]
    <2>1. request' = [request EXCEPT ![r] = n] /\ request'[r] = n
      BY <1>0, <1>3
    <2>2. n \in StockRequest /\ n.pc = "push"
      BY <1>0 DEF StockRequest, StockPc
    <2>3. ~HasRow(sizeStock, q.size) /\ q.size \in Sizes
      BY <1>0, <1>3, NamedIsHas DEF Buckets
    <2>4. q.attempt = 0
      BY <1>0, <2>3 DEF OpFits, StockRequest
    <2>5. OpFits(n, sizeStock)
      BY <1>0, <2>3, <2>4 DEF OpFits, StockRequest
    <2>6. SeesStill(n, stockLevel, sizeStock, version, book, alone)
      BY <1>0 DEF SeesStill, StockRequest
    <2>7. \A c \in Buckets : Unlogged(n, c) = Unlogged(q, c)
      BY <1>0, <2>2 DEF Unlogged
    <2> HIDE DEF n
    <2>8. StockInv'
      BY <1>0, <1>3, <2>1, <2>2, <2>5, <2>6, <2>7, OnlyRequest DEF Idling
    <2>9. QED
      BY <2>1, <2>2, <2>8
  <1>4. QED
    BY <1>1, <1>2, <1>3 DEF IncrementBucket

LEMMA PushKeepsStock ==
    ASSUME StockInv, NEW r \in Requests, PushBucket(r)
    PROVE  /\ StockInv'
           /\ request'[r].pc = "log" => Available(stockLevel', sizeStock', request[r].size)
                                          = Available(stockLevel, sizeStock, request[r].size) + Delta(r)
  <1> DEFINE q == request[r]
             d == Delta(r)
  <1>0. /\ q \in StockRequest /\ OpFits(q, sizeStock)
        /\ SeesStill(q, stockLevel, sizeStock, version, book, alone)
        /\ stockLevel \in Int /\ sizeStock \in Seq(Row) /\ OneBucketEach(sizeStock)
        /\ request \in [Requests -> StockRequest] /\ stockDied \in Nat
        /\ d \in Int /\ RowSum(sizeStock) \in Int /\ q.pc = "push" /\ q.size \in Sizes
        /\ \A s : QtyIn(sizeStock, s) \in Int
    <2>1. d \in Int /\ q.pc = "push"
      BY DEF PushBucket, Delta
    <2>2. q \in StockRequest /\ request \in [Requests -> StockRequest] /\ OpFits(q, sizeStock)
      BY DEF StockInv, StockTyped
    <2>3. q.size \in Sizes
      BY <2>1, <2>2 DEF OpFits
    <2>4. RowSum(sizeStock) \in Int /\ \A s : QtyIn(sizeStock, s) \in Int
      BY OfRequest, RowSumType, QtyOf
    <2>5. QED
      BY <2>1, <2>2, <2>3, <2>4, OfRequest
  <1>1. CASE Named(q.size) = {} /\ Push(r)
    <2>1. /\ stockLevel' = stockLevel + d /\ Landed(r) /\ sizeStock' = WithRow(sizeStock, q.size, d)
          /\ ~HasRow(sizeStock, q.size) /\ q.size # Unassigned
      BY <1>0, <1>1, NamedIsHas, StockAssumption DEF Push, WithRow
    <2>2. PICK next, rows, e, b : next = sizeStock' /\ rows = sizeStock /\ e = d /\ b = q.size
      OBVIOUS
    <2>3. /\ rows \in Seq(Row) /\ OneBucketEach(rows) /\ b \in Sizes /\ e \in Int
          /\ next = WithRow(rows, b, e) /\ ~HasRow(rows, b)
      BY <1>0, <2>1, <2>2
    <2>4. MovedBy(rows, next, b, e)
      BY <2>3, Pushed
    <2>5. QED
      BY <1>0, <2>1, <2>2, <2>4, LandedKeeps DEF MovedBy
  <1>2. CASE /\ Named(q.size) # {}
             /\ request' = [request EXCEPT ![r].attempt = @ + 1,
                   ![r].pc = IF request[r].attempt + 1 < MOVE_ATTEMPTS THEN "move" ELSE "refused"]
             /\ UNCHANGED <<stockLevel, sizeStock, version, logs, book, byHand, alone, stockDied>>
    <2>1. q.attempt = 0 /\ HasRow(sizeStock, q.size)
      BY <1>0, <1>2, NamedIsHas DEF OpFits
    <2> DEFINE n == [q EXCEPT !.attempt = 1, !.pc = "move"]
    <2>2. request' = [request EXCEPT ![r] = n] /\ request'[r] = n
      <3>1. request[r].attempt + 1 < MOVE_ATTEMPTS /\ request[r].attempt + 1 = 1
        BY <2>1 DEF MOVE_ATTEMPTS
      <3>2. request' = [request EXCEPT ![r].attempt = @ + 1, ![r].pc = "move"]
        BY <1>2, <3>1
      <3>3. QED
        BY <1>0, <3>1, <3>2 DEF StockRequest
    <2>3. n \in StockRequest /\ n.pc = "move"
      BY <1>0 DEF StockRequest, StockPc
    <2>4. OpFits(n, sizeStock)
      BY <1>0, <2>1 DEF OpFits, StockRequest
    <2>5. SeesStill(n, stockLevel, sizeStock, version, book, alone)
      BY <1>0 DEF SeesStill, StockRequest
    <2>6. \A c \in Buckets : Unlogged(n, c) = Unlogged(q, c)
      BY <1>0, <2>3 DEF Unlogged
    <2> HIDE DEF n
    <2>7. StockInv'
      BY <1>0, <1>2, <2>2, <2>3, <2>4, <2>5, <2>6, OnlyRequest DEF Idling
    <2>8. QED
      BY <2>2, <2>3, <2>7
  <1>3. QED
    BY <1>1, <1>2 DEF PushBucket

LEMMA WriteKeepsStock ==
    ASSUME StockInv, NEW r \in Requests, WriteCount(r) PROVE StockInv'
  <1> DEFINE q == request[r]
             s == q.size
             g == q.given[1]
             u == q.given[2]
             rows == WithCount(q.current.rows, s, g)
             counted == [book EXCEPT ![s] = g, ![Unassigned] = u]
  <1>0. /\ q \in StockRequest /\ OpFits(q, sizeStock)
        /\ SeesStill(q, stockLevel, sizeStock, version, book, alone)
        /\ stockLevel \in Int /\ sizeStock \in Seq(Row) /\ OneBucketEach(sizeStock)
        /\ version \in Nat /\ stockDied \in Nat /\ q.pc = "count" /\ q.op = "count"
        /\ book \in [Buckets -> Int] /\ byHand \in [Buckets -> Int]
        /\ s \in Sizes /\ s # Unassigned /\ s \in Buckets /\ Unassigned \in Buckets /\ g \in Int /\ u \in Int
    <2>1. q \in StockRequest /\ OpFits(q, sizeStock) /\ q.pc = "count"
      BY OfRequest DEF WriteCount
    <2>2. q.op = "count" /\ s \in Sizes /\ q.given \in Counts \X Counts
      BY <2>1 DEF OpFits
    <2>3. s # Unassigned /\ s \in Buckets /\ Unassigned \in Buckets /\ g \in Int /\ u \in Int
      BY <2>2, StockAssumption DEF Buckets
    <2>4. QED
      BY <2>1, <2>2, <2>3, OfRequest
  <1>1. CASE q.version = version /\ Write(r)
    <2> DEFINE n == [q EXCEPT !.pc = "log"]
    <2>1. q.saw = book /\ q.current = [rows |-> sizeStock, total |-> stockLevel]
      BY <1>0, <1>1 DEF SeesStill
    <2>2. q.current.rows = sizeStock /\ q.current.total = stockLevel
      BY <2>1
    <2>3. /\ sizeStock' = rows /\ stockLevel' = u - unassignedOf(0, rows) /\ version' = version + 1
          /\ byHand' = [b \in Buckets |-> byHand[b] + counted[b] - book[b]]
          /\ book' = [b \in Buckets |->
                IF b \in {s, Unassigned} THEN counted[b] + book[b] - q.saw[b] ELSE book[b]]
          /\ request' = [request EXCEPT ![r] = n]
          /\ UNCHANGED <<logs, alone, stockDied>>
      BY <1>1 DEF Write
    <2>4. /\ n \in StockRequest /\ n.pc = "log" /\ n.op = q.op /\ n.size = s /\ n.given = q.given
          /\ n.current = q.current /\ n.version = q.version
      BY <1>0 DEF StockRequest, StockPc
    <2>5. OpFits(n, sizeStock')
      BY <1>0 DEF OpFits
    <2>6. PICK next : next = sizeStock'
      OBVIOUS
    <2>7. next = WithCount(sizeStock, s, g)
      BY <2>2, <2>3, <2>6
    <2>a. PICK old, k, z : old = sizeStock /\ k = s /\ z = g
      OBVIOUS
    <2>b. /\ old \in Seq(Row) /\ OneBucketEach(old) /\ k \in Sizes /\ z \in Int
          /\ next = WithCount(old, k, z)
      BY <1>0, <2>7, <2>a
    <2>c. SetTo(old, next, k, z)
      BY <2>b, Recounted
    <2>8. /\ next \in Seq(Row) /\ OneBucketEach(next) /\ \A t : HasRow(sizeStock, t) => HasRow(next, t)
      BY <2>a, <2>c DEF SetTo
    <2>9. \A t : QtyIn(next, t) = IF t = s THEN g ELSE QtyIn(sizeStock, t)
      BY <2>a, <2>c DEF SetTo
    <2>10. \A b \in Buckets : counted[b] \in Int /\ book[b] \in Int /\ byHand[b] \in Int
           /\ counted[b] = IF b = s THEN g ELSE IF b = Unassigned THEN u ELSE book[b]
      <3> HIDE DEF g, s, u
      <3> QED BY <1>0
    <2>11. /\ book' \in [Buckets -> Int] /\ byHand' \in [Buckets -> Int]
           /\ \A b \in Buckets : book'[b] = counted[b] /\ byHand'[b] = byHand[b] + counted[b] - book[b]
      <3>1. book' = [b \in Buckets |-> IF b \in {s, Unassigned} THEN counted[b] + book[b] - book[b] ELSE book[b]]
        BY <2>1, <2>3
      <3>2. byHand' = [b \in Buckets |-> byHand[b] + counted[b] - book[b]]
        BY <2>3
      <3> HIDE DEF counted, s, g, u
      <3>3. \A b \in Buckets : b \notin {s, Unassigned} => counted[b] = book[b]
        BY <2>10
      <3>4. QED
        BY <2>10, <3>1, <3>2, <3>3
    <2>12. /\ stockLevel' \in Int /\ unassignedOf(stockLevel', next) = u
      <3>1. unassignedOf(0, next) = 0 - RowSum(next) /\ RowSum(next) \in Int
            /\ \A t \in Int : unassignedOf(t, next) = t - RowSum(next)
        BY <2>8, RowSumType
      <3>2. stockLevel' = u - unassignedOf(0, next)
        BY <2>3, <2>6
      <3> DEFINE a == RowSum(next)
                 e == unassignedOf(0, next)
      <3>3. e = 0 - a /\ a \in Int /\ stockLevel' = u - e
        BY <3>1, <3>2
      <3> HIDE DEF a, e, u
      <3>4. stockLevel' \in Int /\ stockLevel' - a = u
        BY <1>0, <3>3
      <3>5. QED
        BY <3>1, <3>4 DEF a
    <2>13. StockFitsMoves /\ \A b \in Buckets : Available(stockLevel, sizeStock, b) = book[b]
      BY DEF StockInv, StockFitsMoves, Available, Buckets
    <2>14. StockFitsMoves'
      <3>1. \A t \in Sizes : QtyIn(next, t) = book'[t]
        <4>1. \A t \in Sizes : t \in Buckets /\ t # Unassigned /\ QtyIn(sizeStock, t) = book[t]
          BY <2>13, StockAssumption DEF Buckets, StockFitsMoves
        <4> HIDE DEF counted, s, g, u
        <4>2. QED
          BY <2>9, <2>10, <2>11, <4>1
      <3>2. unassignedOf(stockLevel', next) = book'[Unassigned]
        <4> HIDE DEF counted, s, g, u
        <4> QED BY <1>0, <2>10, <2>11, <2>12
      <3>3. QED
        BY <2>6, <3>1, <3>2 DEF StockFitsMoves
    <2>15. ASSUME NEW b \in Buckets PROVE byHand'[b] = byHand[b] + Unlogged(n, b)
      <3>1. Unlogged(n, b) = IF b = s THEN g - book[b] ELSE IF b = Unassigned THEN u - book[b] ELSE 0
        <4>1. n.pc = "log" /\ n.op = "count" /\ n.size = s /\ n.given[1] = g /\ n.given[2] = u
              /\ n.current.rows = sizeStock /\ n.current.total = stockLevel
          BY <1>0, <2>2, <2>4
        <4>2. Available(n.current.total, n.current.rows, b) = book[b]
          BY <2>13, <4>1
        <4> HIDE DEF n, s, g, u
        <4>3. Unlogged(n, b) = CountedOff(n, b)
          BY <4>1 DEF Unlogged
        <4>4. CountedOff(n, b) = IF b = s THEN g - book[b] ELSE IF b = Unassigned THEN u - book[b] ELSE 0
          BY <4>1, <4>2 DEF CountedOff
        <4>5. QED
          BY <4>3, <4>4
      <3>2. Unlogged(n, b) = counted[b] - book[b]
        <4> DEFINE x == Unlogged(n, b)
        <4>1. x = IF b = s THEN g - book[b] ELSE IF b = Unassigned THEN u - book[b] ELSE 0
          BY <3>1
        <4> HIDE DEF x, counted, s, g, u
        <4>2. x = counted[b] - book[b]
          BY <2>10, <4>1
        <4>3. QED
          BY <4>2 DEF x
      <3> DEFINE x == Unlogged(n, b)
                 y == counted[b]
      <3>3. x = y - book[b] /\ y \in Int /\ book[b] \in Int /\ byHand[b] \in Int
            /\ byHand'[b] = byHand[b] + y - book[b]
        BY <2>10, <2>11, <3>2
      <3> HIDE DEF x, y
      <3>4. byHand'[b] = byHand[b] + x
        BY <3>3
      <3>5. QED
        BY <3>4 DEF x
    <2>16. n.version <= version
      BY <1>0, <2>4 DEF SeesStill
    <2>17. version' = version + 1 /\ request' = [request EXCEPT ![r] = n] /\ UNCHANGED <<logs, alone, stockDied>>
      BY <2>3
    <2> HIDE DEF n
    <2>18. QED
      BY <1>0, <2>4, <2>5, <2>6, <2>8, <2>11, <2>12, <2>14, <2>15, <2>16, <2>17, StockMoved
  <1>2. CASE /\ q.version # version /\ request' = [request EXCEPT ![r].pc = "refused"]
             /\ UNCHANGED <<stockLevel, sizeStock, version, logs, book, byHand, alone, stockDied>>
    <2> DEFINE n == [q EXCEPT !.pc = "refused"]
    <2>1. request' = [request EXCEPT ![r] = n]
      BY <1>2
    <2>2. n \in StockRequest /\ n.pc = "refused" /\ OpFits(n, sizeStock)
          /\ SeesStill(n, stockLevel, sizeStock, version, book, alone)
      BY <1>0 DEF StockRequest, StockPc, OpFits, SeesStill
    <2>3. \A c \in Buckets : Unlogged(n, c) = Unlogged(q, c)
      BY <1>0, <2>2 DEF Unlogged
    <2> HIDE DEF n
    <2>4. QED
      BY <1>0, <1>2, <2>1, <2>2, <2>3, OnlyRequest DEF Idling
  <1>3. QED
    BY <1>1, <1>2 DEF WriteCount

-----------------------------------------------------------------------------
\* A step of a request, and what it says of a removal by hand.
LEMMA RequestStep ==
    ASSUME StockInv, NEW r \in Requests,
           \/ Start(r) \/ CheckAvailable(r) \/ IncrementBucket(r) \/ PushBucket(r) \/ LogAdjustment(r)
           \/ OpenPage(r) \/ ReadForCount(r) \/ WriteCount(r) \/ LogCount(r) \/ RequestDies(r)
    PROVE  StockInv' /\ RemovalHadStock
  <1>1. CASE IncrementBucket(r) \/ PushBucket(r)
    <2>1. /\ StockInv'
          /\ request'[r].pc = "log" => Available(stockLevel', sizeStock', request[r].size)
                                         = Available(stockLevel, sizeStock, request[r].size) + Delta(r)
      BY <1>1, IncrementKeepsStock, PushKeepsStock
    <2>2. \A s \in Requests \ {r} : request'[s] = request[s]
      BY <1>1 DEF IncrementBucket, PushBucket, Push, Landed, StockInv, StockTyped
    <2>3. ASSUME NEW s \in Requests, alone, request[s].op = "remove", request[s].pc # "log",
                 request'[s].pc = "log"
          PROVE  Available(stockLevel', sizeStock', request[s].size) >= 0
      <3>1. s = r
        BY <2>2, <2>3
      <3>2. Available(stockLevel, sizeStock, request[r].size) >= 1
        BY <1>1, <2>3, <3>1, OfRequest DEF SeesStill, IncrementBucket, PushBucket
      <3>3. Available(stockLevel, sizeStock, request[r].size) \in Int
        BY OfRequest, AvailableType
      <3>4. Delta(r) = -1
        BY <2>3, <3>1 DEF Delta
      <3> DEFINE a == Available(stockLevel, sizeStock, request[r].size)
                 b == Available(stockLevel', sizeStock', request[r].size)
      <3>5. a \in Int /\ a >= 1 /\ b = a + (-1)
        BY <2>1, <2>3, <3>1, <3>2, <3>3, <3>4
      <3> HIDE DEF a, b
      <3>6. b >= 0
        BY <3>5
      <3>7. QED
        BY <3>1, <3>6 DEF b
    <2>4. QED
      BY <2>1, <2>3 DEF RemovalHadStock
  <1>2. CASE \/ Start(r) \/ CheckAvailable(r) \/ LogAdjustment(r) \/ OpenPage(r) \/ ReadForCount(r)
             \/ WriteCount(r) \/ LogCount(r) \/ RequestDies(r)
    <2>1. StockInv'
      BY <1>2, StartKeepsStock, CheckKeepsStock, AdjustmentKeepsStock, OpenKeepsStock, ReadKeepsStock,
         WriteKeepsStock, CountLogKeepsStock, RequestDiesKeeps
    <2>2. request \in [Requests -> StockRequest]
      BY DEF StockInv, StockTyped
    <2>3. ASSUME NEW s \in Requests, request[s].op = "remove", request[s].pc # "log", request'[s].pc = "log"
          PROVE  FALSE
      <3>1. \A t \in Requests \ {r} : request'[t] = request[t]
        <4>1. CASE Start(r) \/ OpenPage(r)
          BY <2>2, <4>1 DEF Start, OpenPage
        <4>2. CASE CheckAvailable(r) \/ LogAdjustment(r) \/ ReadForCount(r)
          BY <2>2, <4>2 DEF CheckAvailable, LogAdjustment, ReadForCount
        <4>3. CASE WriteCount(r) \/ LogCount(r) \/ RequestDies(r)
          BY <2>2, <4>3 DEF WriteCount, Write, LogCount, RequestDies
        <4>4. QED
          BY <1>2, <4>1, <4>2, <4>3
      <3>2. s = r
        BY <2>3, <3>1
      <3>3. request'[r].pc # "log" \/ request[r].op = "count"
        <4>1. CASE Start(r)
          <5>1. PICK op \in {"order", "putBack", "add", "remove"}, b \in Buckets :
                    request' = [request EXCEPT ![r] =
                       [NoRequest EXCEPT !.op = op, !.size = b,
                           !.pc = IF op \in {"add", "remove"} THEN "check" ELSE "move"]]
            BY <4>1 DEF Start
          <5>2. request'[r].pc = IF op \in {"add", "remove"} THEN "check" ELSE "move"
            BY <2>2, <5>1 DEF NoRequest
          <5>3. QED
            BY <5>2
        <4>2. CASE OpenPage(r)
          BY <2>2, <4>2 DEF OpenPage, NoRequest
        <4>3. CASE CheckAvailable(r)
          <5>1. PICK p \in {"refused", "move"} : request' = [request EXCEPT ![r].pc = p]
            BY <4>3 DEF CheckAvailable
          <5>2. QED
            BY <2>2, <5>1 DEF StockRequest
        <4>4. CASE LogAdjustment(r) \/ LogCount(r) \/ RequestDies(r)
          <5>1. PICK p \in {"refused", "done"} : request' = [request EXCEPT ![r].pc = p]
            BY <4>4 DEF LogAdjustment, LogCount, RequestDies
          <5>2. QED
            BY <2>2, <5>1 DEF StockRequest
        <4>5. CASE ReadForCount(r)
          BY <2>2, <4>5 DEF ReadForCount, StockRequest
        <4>6. CASE WriteCount(r)
          BY <4>6, OfRequest DEF WriteCount, OpFits
        <4>7. QED
          BY <1>2, <4>1, <4>2, <4>3, <4>4, <4>5, <4>6
      <3>4. QED
        BY <2>3, <3>2, <3>3
    <2>4. QED
      BY <2>1, <2>3 DEF RemovalHadStock
  <1>3. QED
    BY <1>1, <1>2

LEMMA StockStep ==
    ASSUME StockInv, [StockNext]_stockVars
    PROVE  StockInv' /\ RemovalHadStock
  <1>1. CASE StockNext
    BY <1>1, RequestStep DEF StockNext
  <1>2. CASE UNCHANGED stockVars
    <2>1. StockInv'
      BY <1>2 DEF stockVars, StockInv, StockTyped, StockFitsMoves, TakeTurns
    <2>2. RemovalHadStock
      BY <1>2 DEF stockVars, RemovalHadStock
    <2>3. QED
      BY <2>1, <2>2
  <1>3. QED
    BY <1>1, <1>2

LEMMA StockInvExplains == StockInv => StockTypeOK /\ StockFitsMoves /\ LogExplainsHand /\ MoveNeverGivesUp
  <1> SUFFICES ASSUME StockInv PROVE StockTypeOK /\ StockFitsMoves /\ LogExplainsHand /\ MoveNeverGivesUp
    OBVIOUS
  <1>1. StockTypeOK
    <2>1. \A i \in DOMAIN sizeStock : sizeStock[i].size \in Sizes /\ sizeStock[i].qty \in Int
      BY RowsAre DEF StockInv, StockTyped
    <2>2. \A r \in Requests : request[r].pc \in StockPc /\ request[r].size \in Buckets
      BY OfRequest DEF StockRequest
    <2>3. QED
      BY <2>1, <2>2 DEF StockInv, StockTyped, StockTypeOK, StockPc
  <1>2. MoveNeverGivesUp
    <2>1. ASSUME NEW r \in Requests PROVE request[r].attempt < MOVE_ATTEMPTS
      <3>1. request[r].attempt \in Nat /\ request[r].attempt <= 1
        BY OfRequest DEF StockRequest, OpFits
      <3>2. QED
        BY <3>1 DEF MOVE_ATTEMPTS
    <2>2. QED
      BY <2>1 DEF MoveNeverGivesUp
  <1>3. LogExplainsHand
    <2>1. SUFFICES ASSUME stockDied = 0, \A r \in Requests : request[r].pc # "log" PROVE logs = byHand
      BY DEF LogExplainsHand
    <2>2. logs \in [Buckets -> Int] /\ byHand \in [Buckets -> Int]
      BY DEF StockInv, StockTyped
    <2>3. ASSUME NEW b \in Buckets PROVE byHand[b] = logs[b]
      <3> DEFINE w == [r \in Requests |-> Unlogged(request[r], b)]
      <3>1. \A r \in Requests : w[r] = 0
        BY <2>1 DEF Unlogged
      <3> HIDE DEF w
      <3>2. SumFunctionOnSet(w, Requests) = 0
        BY <3>1, SumNone, StockAssumption
      <3>3. UnloggedOf(request, b) = 0
        BY <3>2 DEF UnloggedOf, w
      <3>4. byHand[b] = logs[b] + UnloggedOf(request, b)
        BY <2>1 DEF StockInv
      <3>5. QED
        BY <2>2, <3>3, <3>4
    <2>4. QED
      BY <2>2, <2>3
  <1>4. QED
    BY <1>1, <1>2, <1>3 DEF StockInv

\* The total is the sum of its buckets and of what is in no size, and each of
\* them holds what every movement that ended left in it, however movements and
\* counts interleave; what was changed by hand and is not logged is on its way
\* to the log; no movement is given up; and a hand alone on the product takes
\* only what is there (moveStock, adjustInventory, setSizeStock).
THEOREM StockAlwaysExplained == StockSpec => StockExplained
  <1>1. StockInv /\ [StockNext]_stockVars
            => [(StockFitsMoves /\ LogExplainsHand /\ MoveNeverGivesUp)' /\ RemovalHadStock]_stockVars
    <2> SUFFICES ASSUME StockInv, [StockNext]_stockVars
                 PROVE  (StockFitsMoves /\ LogExplainsHand /\ MoveNeverGivesUp)' /\ RemovalHadStock
      OBVIOUS
    <2>1. StockInv' /\ RemovalHadStock
      BY StockStep
    <2>2. StockInv' => (StockFitsMoves /\ LogExplainsHand /\ MoveNeverGivesUp)'
      BY StockInvExplains, PTL
    <2>3. QED
      BY <2>1, <2>2
  <1>2. StockInv /\ [StockNext]_stockVars => StockInv'
    BY StockStep
  <1>3. QED
    BY <1>1, <1>2, StockInitInv, PTL DEF StockSpec, StockExplained

\* The types of the stock (OrdersService moves it, ProductsService counts it).
THEOREM StockTypeCorrect == StockSpec => []StockTypeOK
  <1>1. StockInv /\ [StockNext]_stockVars => StockInv'
    BY StockStep
  <1>2. QED
    BY <1>1, StockInitInv, StockInvExplains, PTL DEF StockSpec

-----------------------------------------------------------------------------
(***************************************************************************)
(* The members of a tribe                                                  *)
(***************************************************************************)
Syncing == {"member", "picture", "write", "remove"}

\* Where a request stands goes with what it carries.
Formed(w, q) ==
    /\ q.pc \in {"idle", "save", "read", "find", "upsert"} => q.member = Nobody
    /\ q.pc \in {"link"} \cup Syncing => q.member \in Members
    /\ q.pc \in {"idle", "save"} => q.order = Nobody
    /\ q.pc = "idle" => q.left = {}
    /\ q.left # {} => q.given # Nobody
    /\ q.order = Nobody => q.previous = Nobody
    /\ w = Script => q.order = Nobody /\ q.left = {} /\ q.pc \notin {"save", "read"}
    /\ w # Script /\ q.pc \in {"read", "find", "upsert", "link"} => q.order # Nobody

\* The orders of a request; no two requests record one.
OrdersOf(q) == {o \in Created : o = q.order \/ o \in q.left}
OwnOrders ==
    /\ \A w, x \in Writers : w # x => writer[w].order = Nobody \/ writer[w].order # writer[x].order
    /\ \A w \in Writers : /\ writer[w].order \notin writer[w].left
                          /\ \A o \in OrdersOf(writer[w]) : Placed(o)

\* What a request knows of the order it records and of the member it found for
\* it, and that a member it read is still so while its version is.
Aware(q) ==
    /\ q.order # Nobody =>
          /\ q.pc \in {"find", "upsert", "link"} =>
                q.phone = purchase[q.order].phone /\ q.previous = purchase[q.order].link
          /\ q.pc = "link" => q.member # q.previous
          /\ q.pc \in Syncing => q.phone = purchase[q.order].phone /\ q.member = purchase[q.order].link
          /\ q.pc \in {"link"} \cup Syncing /\ Exists(q.member) => member[q.member].phone = q.phone
          /\ q.pc # "remove"
    /\ q.pc = "picture" /\ SameVersion(q) => q.stored = member[q.member].fields

\* A member shows what its orders make it; a request is about to undo that; a
\* request will still look at the member, and see it right.
Right(m) == Linked(m) # {} /\ member[m].fields = PictureOf(m)
Outdated(q, m) ==
    /\ q.member = m /\ SameVersion(q)
    /\ \/ q.pc = "write" /\ (Linked(m) = {} \/ q.fields # PictureOf(m))
       \/ q.pc = "remove" /\ Linked(m) # {}
Owes(q, m) ==
    \/ q.pc = "read" /\ purchase[q.order].link = m
    \/ q.pc \in {"find", "upsert", "link"} /\ q.previous = m
    \/ q.pc \in Syncing /\ q.previous = m /\ q.member # m
    \/ q.pc \in {"link", "member", "picture"} /\ q.member = m
    \/ q.pc \in {"write", "remove"} /\ q.member = m /\ ~Outdated(q, m)
RightForGood(m) == Right(m) /\ \A w \in Writers : ~Outdated(writer[w], m)

\* An order is linked to the member with its phone, or somebody records it.
Home(o) == purchase[o].link \in Members /\ member[purchase[o].link].phone = purchase[o].phone
Removing(q) == q.pc = "remove" /\ SameVersion(q)

Cared   == \A m \in Members : Exists(m) => RightForGood(m) \/ \E w \in Writers : Owes(writer[w], m)
Housed  == \A o \in Created : Placed(o) => Home(o) \/ \E w \in Writers : writer[w].order = o
Spared ==
    \A x \in Writers : Removing(writer[x]) =>
        \A o \in Linked(writer[x].member) :
            \E w \in Writers : writer[w].order = o /\ writer[w].pc \in Syncing

\* The script runs by itself.  The groups it has still to link are as it read
\* them; the others have their member, which is right or the one it is at;
\* every other member is on its list.  If nothing was wrong, it changes nothing.
On == script.phase # "off"
Known(p) == \E o \in Created : script.seen[o].phone = p
Linking(q) == q.pc \in {"find", "upsert", "link"}
Ahead(p) == p \in script.left \/ (Linking(writer[Script]) /\ writer[Script].phone = p)
At(m) == writer[Script].pc \in Syncing /\ writer[Script].member = m
GroupDone(p) ==
    \E m \in Members : /\ member[m].phone = p /\ \A o \in InGroup(p) : purchase[o].link = m
                       /\ Right(m) \/ At(m)

ScriptStands ==
    LET q == writer[Script] IN
    /\ \A w \in Writers : WriterAt(w, "idle")
    /\ \A o \in Created : script.seen[o].phone = purchase[o].phone
    /\ \A p \in script.left : Known(p)
    /\ script.phase = "existing" => q.pc = "idle" /\ \A o \in Created : Placed(o) => script.seen[o].phone \in script.left
    /\ script.phase = "sweep" => q.pc \in {"idle"} \cup Syncing /\ script.left = {}
    /\ Linking(q) => q.phone \in Phones /\ Known(q.phone) /\ q.phone \notin script.left
    /\ q.pc = "link" => member[q.member].phone = q.phone
    /\ q.pc = "picture" => SameVersion(q)
    /\ q.pc = "write" => Linked(q.member) # {} /\ q.fields = PictureOf(q.member)
    /\ q.pc = "remove" => Linked(q.member) = {}
    /\ \A o \in Created : Ahead(script.seen[o].phone) => purchase[o].link = script.seen[o].link

Repairing ==
    ~script.moved =>
        /\ script.phase # "existing" => \A p \in Phones : Known(p) /\ ~Ahead(p) => GroupDone(p)
        /\ script.phase # "existing" =>
              \A m \in Members : Exists(m) => m \in script.sweep \/ Known(member[m].phone)
                                                \/ (script.phase = "sweep" /\ At(m))

Idempotent ==
    ~drift =>
        /\ EverythingMatches
        /\ writer[Script].pc \in {"idle", "find", "member", "picture"}
        /\ \A o \in Created : purchase[o].link = script.seen[o].link

WholeInv ==
    /\ MembersTypeOK /\ OneMemberPerPhone
    /\ \A w \in Everyone : Formed(w, writer[w]) /\ Aware(writer[w])
    /\ OwnOrders
    /\ \A o \in Created : Placed(o) \/ purchase[o].link = Nobody
    /\ ~On => WriterAt(Script, "idle") /\ (~drift => Cared /\ Housed /\ Spared)
    /\ On => ScriptStands /\ Repairing /\ Idempotent

-----------------------------------------------------------------------------
LEMMA RestingIs ==
    /\ Resting \in Writer /\ Resting.pc = "idle" /\ Resting.left = {} /\ Resting.order = Nobody
    /\ Resting.member = Nobody /\ Resting.previous = Nobody /\ Resting.fresh = FALSE /\ Resting.phone = Nobody
    /\ Resting.given = Nobody
  <1>1. NoFields \in Fields
    BY MembersAssumption DEF NoFields, Fields, Texts
  <1> QED
    BY <1>1, MembersAssumption DEF Resting, Writer, SyncPc, Texts

LEMMA RecordedIs ==
    ASSUME NEW q \in Writer
    PROVE  /\ Recorded(q) \in Writer
           /\ Recorded(q).pc = (IF q.left = {} THEN "idle" ELSE "save")
           /\ Recorded(q).left = q.left /\ Recorded(q).order = Nobody /\ Recorded(q).member = Nobody
           /\ Recorded(q).previous = Nobody /\ Recorded(q).fresh = FALSE
           /\ q.left # {} => Recorded(q).given = q.given
  BY RestingIs DEF Recorded, Writer, SyncPc

LEMMA SyncedIs ==
    ASSUME NEW q \in Writer
    PROVE  /\ Synced(q) \in Writer
           /\ Synced(q).left = q.left /\ Synced(q).order = Nobody /\ Synced(q).previous = Nobody
           /\ Synced(q).fresh = FALSE /\ (q.left # {} => Synced(q).given = q.given)
           /\ q.previous \notin {Nobody, q.member} => Synced(q).pc = "member" /\ Synced(q).member = q.previous
           /\ q.previous \in {Nobody, q.member} => Synced(q) = Recorded(q)
  <1>1. Recorded(q) \in Writer /\ Recorded(q).left = q.left /\ Recorded(q).order = Nobody
        /\ Recorded(q).previous = Nobody /\ Recorded(q).fresh = FALSE /\ (q.left # {} => Recorded(q).given = q.given)
    BY RecordedIs
  <1> HIDE DEF Recorded
  <1>2. CASE q.previous \in {Nobody, q.member}
    BY <1>1, <1>2 DEF Synced
  <1>3. CASE q.previous \notin {Nobody, q.member}
    BY <1>1, <1>3 DEF Synced, Writer, SyncPc
  <1> QED
    BY <1>2, <1>3

LEMMA HasLeast ==
    ASSUME NEW S, IsFiniteSet(S), S # {}, S \subseteq Int
    PROVE  \E m \in S : \A y \in S : m <= y
  <1> DEFINE R == {p \in Int \X Int : p[1] < p[2]}
  <1>1. \A x, y \in S : <<x, y>> \in R <=> x < y
    OBVIOUS
  <1>2. \A x \in S : <<x, x>> \notin R
    BY <1>1
  <1>3. \A x, y, z \in S : <<x, y>> \in R /\ <<y, z>> \in R => <<x, z>> \in R
    BY <1>1
  <1> HIDE DEF R
  <1>4. \E x \in S : \A y \in S : <<y, x>> \notin R
    BY <1>2, <1>3, HasTop, Zenon
  <1>5. PICK x \in S : \A y \in S : ~(y < x)
    BY <1>1, <1>4
  <1> QED
    BY <1>5

LEMMA MaxIn == ASSUME NEW S \in SUBSET Created, S # {} PROVE Max(S) \in S
  <1>0. IsFiniteSet(S) /\ S \subseteq Int
    <2>1. IsFiniteSet(Created) /\ Created \subseteq Int
      BY MembersAssumption
    <2> QED
      BY <2>1, FS_Subset
  <1>1. \E m \in S : \A y \in S : y <= m
    BY <1>0, HasGreatest, Zenon
  <1>2. \E m \in S : \A y \in S : m >= y
    BY <1>0, <1>1
  <1> QED
    BY <1>2 DEF Max

LEMMA MinIn == ASSUME NEW S \in SUBSET Created, S # {} PROVE Min(S) \in S
  <1>1. IsFiniteSet(S) /\ S \subseteq Int
    <2>1. IsFiniteSet(Created) /\ Created \subseteq Int
      BY MembersAssumption
    <2> QED
      BY <2>1, FS_Subset
  <1>2. \E m \in S : \A y \in S : m <= y
    BY <1>1, HasLeast, Zenon
  <1> QED
    BY <1>2 DEF Min

\* What buildMemberFields makes of orders is a member's fields.
LEMMA FieldsAre ==
    ASSUME NEW S \in SUBSET Created, NEW docs \in [S -> Purchase]
    PROVE  buildMemberFields(docs) \in Fields
  <1> DEFINE all       == DOMAIN docs
             live      == {o \in all : ~docs[o].deleted}
             addressed == {o \in all : hasFullAddress(docs[o])}
             newest(t) == Max({o \in addressed : docs[o].text = t})
  <1>1. all = S /\ live \in SUBSET Created /\ addressed \in SUBSET Created /\ all \in SUBSET Created
    OBVIOUS
  <1>2. \A o \in S : docs[o].text \in Texts
    BY DEF Purchase
  <1>3. (IF addressed = {} THEN 0 ELSE docs[Max(addressed)].text) \in Texts
    <2>1. addressed # {} => Max(addressed) \in addressed
      BY <1>1, MaxIn
    <2>2. 0 \in Texts
      BY MembersAssumption DEF Texts
    <2> QED
      BY <1>1, <1>2, <2>1, <2>2
  <1>4. {<<docs[o].text, newest(docs[o].text)>> : o \in addressed} \in SUBSET (Texts \X Created)
    <2>1. ASSUME NEW o \in addressed PROVE docs[o].text \in Texts /\ newest(docs[o].text) \in Created
      <3>1. o \in {x \in addressed : docs[x].text = docs[o].text}
        OBVIOUS
      <3>2. {x \in addressed : docs[x].text = docs[o].text} \in SUBSET Created
        BY <1>1
      <3>3. newest(docs[o].text) \in {x \in addressed : docs[x].text = docs[o].text}
        BY <3>1, <3>2, MaxIn
      <3> QED
        BY <1>1, <1>2, <3>2, <3>3
    <2> HIDE DEF newest, addressed
    <2> QED
      BY <2>1
  <1>5. Cardinality(live) \in Nat
    BY <1>1, FS_CardinalityType, FS_Subset, MembersAssumption
  <1>6. /\ live # {} => Min(live) \in Nat /\ Max(live) \in Nat
        /\ all # {} => Min(all) \in Nat
    BY <1>1, MinIn, MaxIn, MembersAssumption
  <1> HIDE DEF all, live, addressed, newest
  <1>7. [latest    |-> IF addressed = {} THEN 0 ELSE docs[Max(addressed)].text,
         addresses |-> {<<docs[o].text, newest(docs[o].text)>> : o \in addressed},
         count     |-> Cardinality(live),
         first     |-> IF live = {} THEN 0 ELSE Min(live),
         last      |-> IF live = {} THEN 0 ELSE Max(live),
         joined    |-> IF all = {} THEN 0 ELSE Min(all)] \in Fields
    BY <1>3, <1>4, <1>5, <1>6 DEF Fields
  <1> QED
    BY <1>7 DEF buildMemberFields, all, live, addressed, newest

LEMMA PictureIs ==
    ASSUME MembersTypeOK, NEW m \in Members
    PROVE  PictureOf(m) \in Fields
  <1>1. [o \in Linked(m) |-> purchase[o]] \in [Linked(m) -> Purchase] /\ Linked(m) \in SUBSET Created
    BY DEF MembersTypeOK, Linked
  <1> QED
    BY <1>1, FieldsAre DEF PictureOf

-----------------------------------------------------------------------------
\* What is said of a request's record stays so while no order and no member
\* changes.
LEMMA Frame ==
    ASSUME UNCHANGED <<purchase, member>>
    PROVE  /\ \A o : Placed(o)' = Placed(o) /\ Home(o)' = Home(o)
           /\ \A m : /\ Exists(m)' = Exists(m) /\ Linked(m)' = Linked(m) /\ PictureOf(m)' = PictureOf(m)
                     /\ Right(m)' = Right(m)
           /\ \A q : Aware(q)' = Aware(q) /\ SameVersion(q)' = SameVersion(q) /\ Removing(q)' = Removing(q)
           /\ \A q, m : Outdated(q, m)' = Outdated(q, m) /\ Owes(q, m)' = Owes(q, m)
           /\ OneMemberPerPhone' = OneMemberPerPhone
  <1>1. \A m : Exists(m)' = Exists(m) /\ Linked(m)' = Linked(m)
    BY DEF Exists, Linked
  <1>2. \A m : PictureOf(m)' = PictureOf(m)
    BY <1>1 DEF PictureOf
  <1>3. \A q : SameVersion(q)' = SameVersion(q)
    BY <1>1 DEF SameVersion
  <1>4. \A q : Aware(q)' = Aware(q) /\ Removing(q)' = Removing(q)
    BY <1>1, <1>3 DEF Aware, Removing
  <1>5. \A q, m : Outdated(q, m)' = Outdated(q, m)
    BY <1>1, <1>2, <1>3 DEF Outdated
  <1>6. \A q, m : Owes(q, m)' = Owes(q, m)
    BY <1>5 DEF Owes
  <1>7. \A o : Placed(o)' = Placed(o) /\ Home(o)' = Home(o)
    BY DEF Placed, Home
  <1>8. \A m : Right(m)' = Right(m)
    BY <1>1, <1>2 DEF Right
  <1>9. OneMemberPerPhone' = OneMemberPerPhone
    BY <1>1 DEF OneMemberPerPhone
  <1> QED
    BY <1>1, <1>2, <1>3, <1>4, <1>5, <1>6, <1>7, <1>8, <1>9

\* A request may go on to q: nobody else records its order ...
Clear(w, q) ==
    /\ q.order \notin q.left
    /\ \A o \in OrdersOf(q) : Placed(o)
    /\ q.order = Nobody \/ \A x \in Writers \ {w} : writer[x].order # q.order

\* ... and what it leaves is right.
LeavesRight(w, q) ==
    /\ \A m \in Members : Exists(m) /\ Owes(writer[w], m) =>
          Owes(q, m) \/ (Right(m) /\ \A x \in Writers \ {w} : ~Outdated(writer[x], m))
    /\ \A m \in Members : Outdated(q, m) => Outdated(writer[w], m)
    /\ writer[w].order \notin {Nobody, q.order} => Home(writer[w].order)
    /\ q.pc = "remove" => Linked(q.member) = {}
    /\ writer[w].pc \in Syncing /\ writer[w].order # Nobody =>
          \/ q.order = writer[w].order /\ q.pc \in Syncing
          \/ \A x \in Writers : ~(Removing(writer[x]) /\ writer[x].member = writer[w].member)

\* Which requests have which orders.
LEMMA OrdersStayOwn ==
    ASSUME WholeInv, NEW w \in Writers, NEW q \in Writer, writer' = [writer EXCEPT ![w] = q],
           q.order \notin q.left,
           \A o \in OrdersOf(q) : purchase'[o].phone # Nobody,
           q.order = Nobody \/ \A x \in Writers \ {w} : writer[x].order # q.order,
           \A o \in Created : Placed(o) => purchase'[o].phone # Nobody
    PROVE  OwnOrders'
  <1>1. w \in Everyone /\ \A x \in Writers : writer'[x] = IF x = w THEN q ELSE writer[x]
    BY DEF WholeInv, MembersTypeOK, Everyone
  <1>2. \A x, y \in Writers : x # y => writer'[x].order = Nobody \/ writer'[x].order # writer'[y].order
    BY <1>1 DEF WholeInv, OwnOrders
  <1>3. \A x \in Writers : writer'[x].order \notin writer'[x].left /\ \A o \in OrdersOf(writer'[x]) : purchase'[o].phone # Nobody
    <2>1. \A x \in Writers : \A o \in OrdersOf(writer[x]) : o \in Created /\ Placed(o)
      BY DEF WholeInv, OwnOrders, OrdersOf
    <2> QED
      BY <1>1, <2>1 DEF WholeInv, OwnOrders
  <1>4. \A x \in Writers : OrdersOf(writer[x])' = OrdersOf(writer'[x])
    BY DEF OrdersOf
  <1> QED
    BY <1>2, <1>3 DEF OwnOrders, OrdersOf, Placed

\* One request goes on; no order and no member changes.
LEMMA WriterMoves ==
    ASSUME WholeInv, ~On, NEW w \in Writers, NEW q \in Writer, writer' = [writer EXCEPT ![w] = q],
           UNCHANGED <<purchase, member, script>>, drift' \in BOOLEAN, drift => drift',
           Formed(w, q), Aware(q), Clear(w, q), ~drift' => LeavesRight(w, q)
    PROVE  WholeInv'
  <1>1. /\ w \in Everyone /\ Script \in Everyone /\ w # Script
        /\ \A x \in Everyone : writer'[x] = IF x = w THEN q ELSE writer[x]
    BY MembersAssumption DEF WholeInv, MembersTypeOK, Everyone
  <1>2. MembersTypeOK'
    BY DEF WholeInv, MembersTypeOK
  <1>3. \A x \in Everyone : Formed(x, writer'[x]) /\ Aware(writer[x])' 
    <2>1. \A x \in Everyone : Formed(x, writer'[x])
      BY <1>1 DEF WholeInv
    <2>2. \A x \in Everyone : Aware(writer'[x])
      BY <1>1 DEF WholeInv
    <2> QED
      BY <2>1, <2>2, Frame DEF Aware, SameVersion, Exists
  <1>4. OwnOrders'
    BY OrdersStayOwn DEF Clear, Placed
  <1>5. \A o \in Created : Placed(o)' \/ purchase'[o].link = Nobody
    BY DEF WholeInv, Placed
  <1>6. ~On' /\ WriterAt(Script, "idle")'
    BY <1>1 DEF WholeInv, On, WriterAt
  <1>7. ASSUME ~drift' PROVE Cared' /\ Housed' /\ Spared'
    <2>1. LeavesRight(w, q) /\ Cared /\ Housed /\ Spared
      BY <1>7 DEF WholeInv
    <2>2. ASSUME NEW m \in Members, Exists(m)
          PROVE  \/ Right(m) /\ \A x \in Writers : ~Outdated(writer'[x], m)
                 \/ \E x \in Writers : Owes(writer'[x], m)
      <3>1. CASE RightForGood(m)
        BY <1>1, <2>1, <3>1 DEF RightForGood, LeavesRight, Everyone
      <3>2. CASE \E x \in Writers : Owes(writer[x], m)
        <4>1. PICK x \in Writers : Owes(writer[x], m)
          BY <3>2
        <4>2. CASE x # w
          BY <1>1, <4>1, <4>2 DEF Everyone
        <4>3. CASE x = w /\ Owes(q, m)
          BY <1>1, <4>3 DEF Everyone
        <4>4. CASE x = w /\ ~Owes(q, m)
          <5>1. Right(m) /\ \A y \in Writers \ {w} : ~Outdated(writer[y], m)
            BY <2>1, <2>2, <4>1, <4>4 DEF LeavesRight
          <5>2. CASE Outdated(q, m)
            <6>1. Outdated(writer[w], m)
              BY <2>1, <5>2 DEF LeavesRight
            <6>2. FALSE
              BY <4>1, <4>4, <6>1, <5>2, <5>1, <2>1 DEF Owes, Outdated, LeavesRight
            <6> QED
              BY <6>2
          <5> QED
            BY <1>1, <5>1, <5>2 DEF Everyone
        <4> QED
          BY <4>2, <4>3, <4>4
      <3> QED
        BY <2>1, <2>2, <3>1, <3>2 DEF Cared
    <2>3. Cared'
      <3> SUFFICES ASSUME NEW m \in Members, Exists(m)' PROVE RightForGood(m)' \/ \E x \in Writers : Owes(writer[x], m)'
        BY DEF Cared
      <3>1. Exists(m)
        BY Frame
      <3>2. \A x \in Writers : Outdated(writer[x], m)' = Outdated(writer'[x], m) /\ Owes(writer[x], m)' = Owes(writer'[x], m)
        BY Frame DEF Outdated, Owes, SameVersion, Exists, Linked, PictureOf
      <3> QED
        BY <2>2, <3>1, <3>2, Frame DEF RightForGood
    <2>4. Housed'
      <3> SUFFICES ASSUME NEW o \in Created, Placed(o) PROVE Home(o) \/ \E x \in Writers : writer'[x].order = o
        BY Frame DEF Housed
      <3> QED
        BY <1>1, <2>1, MembersAssumption DEF Housed, LeavesRight, Everyone
    <2>5. Spared'
      <3>1. ASSUME NEW x \in Writers, Removing(writer'[x]), NEW o \in Linked(writer'[x].member)
            PROVE  \E y \in Writers : writer'[y].order = o /\ writer'[y].pc \in Syncing
        <4>1. x # w /\ writer'[x] = writer[x] /\ x \in Everyone
          BY <1>1, <2>1, <3>1 DEF LeavesRight, Removing, Everyone
        <4>2. PICK y \in Writers : writer[y].order = o /\ writer[y].pc \in Syncing
          BY <2>1, <3>1, <4>1 DEF Spared
        <4>3. o \in Created /\ purchase[o].link = writer[x].member
          BY <3>1, <4>1 DEF Linked
        <4>4. writer[y].member = writer[x].member
          BY <4>2, <4>3, MembersAssumption DEF WholeInv, Aware, Everyone
        <4>5. CASE y = w
          BY <1>1, <2>1, <3>1, <4>1, <4>2, <4>3, <4>4, <4>5, MembersAssumption DEF LeavesRight, Everyone
        <4> QED
          BY <1>1, <4>2, <4>5 DEF Everyone
      <3>2. \A x \in Writers : Removing(writer[x])' = Removing(writer'[x])
        BY DEF Removing, SameVersion, Exists
      <3> QED
        BY <3>1, <3>2, Frame DEF Spared, Linked
    <2> QED
      BY <2>3, <2>4, <2>5
  <1>8. OneMemberPerPhone'
    BY Frame DEF WholeInv
  <1>9. \A x \in Everyone : Formed(x, writer[x])'
    BY <1>3 DEF Formed
  <1> QED
    BY <1>2, <1>3, <1>4, <1>5, <1>6, <1>7, <1>8, <1>9 DEF WholeInv

-----------------------------------------------------------------------------
\* The script is off while requests run, and waits for them.
LEMMA ScriptIsOff ==
    ASSUME WholeInv, NEW w \in Writers, ~WriterAt(w, "idle")
    PROVE  ~On /\ w \in Everyone /\ w # Script /\ writer[w] \in Writer
  BY MembersAssumption DEF WholeInv, ScriptStands, MembersTypeOK, Everyone

LEMMA IdleIs ==
    ASSUME WholeInv, Quiet, NEW w \in Writers, NEW op, StartsWrite(w, op)
    PROVE  /\ ~On /\ w \in Everyone /\ w # Script /\ writer[w] \in Writer
           /\ writer[w].pc = "idle" /\ writer[w].order = Nobody /\ writer[w].left = {}
  BY MembersAssumption DEF WholeInv, On, StartsWrite, WriterAt, MembersTypeOK, Everyone, Formed

\* A request keeps its orders, or leaves some.
LEMMA ClearIs ==
    ASSUME WholeInv, NEW w \in Writers, NEW q \in Writer,
           q.order \in {Nobody, writer[w].order}, q.left \subseteq writer[w].left
    PROVE  Clear(w, q)
  <1>1. /\ q.left \subseteq Created /\ writer[w].order \notin writer[w].left
        /\ Nobody \notin Created
    BY MembersAssumption DEF WholeInv, OwnOrders, Writer
  <1>2. OrdersOf(q) \subseteq OrdersOf(writer[w])
    BY <1>1 DEF OrdersOf
  <1>3. /\ \A o \in OrdersOf(writer[w]) : Placed(o)
        /\ writer[w].order = Nobody \/ \A x \in Writers \ {w} : writer[x].order # writer[w].order
    BY DEF WholeInv, OwnOrders
  <1> QED
    BY <1>1, <1>2, <1>3 DEF Clear

LEMMA AddressIsRead ==
    ASSUME WholeInv, Quiet, NEW w \in Writers, NEW o \in Created, NEW p \in Phones,
           NEW t \in Texts \ {0}, ReadForAddress(w, o, p, t)
    PROVE  WholeInv'
  <1>1. StartsWrite(w, "edit") /\ Placed(o) /\ UNCHANGED <<purchase, member, script, drift>>
        /\ writer' = [writer EXCEPT ![w] = [Resting EXCEPT !.pc = "save", !.left = {o}, !.text = t, !.given = p]]
    BY DEF ReadForAddress, Go
  <1>2. PICK q : q = [Resting EXCEPT !.pc = "save", !.left = {o}, !.text = t, !.given = p]
    OBVIOUS
  <1>3. q \in Writer /\ q.pc = "save" /\ q.left = {o} /\ q.given = p /\ q.order = Nobody /\ q.member = Nobody /\ q.previous = Nobody
    BY <1>2, RestingIs DEF Writer, SyncPc
  <1>4. Formed(w, q) /\ Aware(q)
    BY <1>1, <1>3, IdleIs, MembersAssumption DEF Formed, Aware, Syncing
  <1>5. Clear(w, q)
    BY <1>1, <1>3, MembersAssumption DEF Clear, OrdersOf
  <1>6. LeavesRight(w, q)
    BY <1>1, <1>3, IdleIs DEF LeavesRight, Owes, Outdated, Syncing
  <1> QED
    BY <1>1, <1>2, <1>3, <1>4, <1>5, <1>6, WriterMoves, IdleIs DEF WholeInv, MembersTypeOK

LEMMA PendingIsFound ==
    ASSUME WholeInv, Quiet, NEW w \in Writers, NEW p \in Phones, NEW t \in Texts \ {0}, FindPending(w, p, t)
    PROVE  WholeInv'
  <1>1. PICK S \in SUBSET Created :
           /\ StartsWrite(w, "attach") /\ (\A o \in S : Placed(o))
           /\ UNCHANGED <<purchase, member, script, drift>>
           /\ writer' = [writer EXCEPT ![w] = [Resting EXCEPT !.pc = "save", !.left = S, !.text = t, !.given = p]]
    <2> DEFINE pending == {o \in Created : /\ purchase[o].phone = p /\ ~purchase[o].deleted
                                           /\ ~hasFullAddress(purchase[o])}
    <2>1. \A o \in pending : Placed(o)
      BY MembersAssumption DEF Placed
    <2> QED
      BY <2>1 DEF FindPending, Go
  <1>2. PICK q : q = [Resting EXCEPT !.pc = "save", !.left = S, !.text = t, !.given = p]
    OBVIOUS
  <1>3. q \in Writer /\ q.pc = "save" /\ q.left = S /\ q.given = p /\ q.order = Nobody /\ q.member = Nobody /\ q.previous = Nobody
    BY <1>2, RestingIs DEF Writer, SyncPc
  <1>4. Formed(w, q) /\ Aware(q)
    BY <1>1, <1>3, IdleIs, MembersAssumption DEF Formed, Aware, Syncing
  <1>5. Clear(w, q)
    BY <1>1, <1>3, MembersAssumption DEF Clear, OrdersOf
  <1>6. LeavesRight(w, q)
    BY <1>1, <1>3, IdleIs DEF LeavesRight, Owes, Outdated, Syncing
  <1> QED
    BY <1>1, <1>2, <1>3, <1>4, <1>5, <1>6, WriterMoves, IdleIs DEF WholeInv, MembersTypeOK

\* A request that is at work.
LEMMA WorkerIs ==
    ASSUME WholeInv, NEW w \in Writers, ~WriterAt(w, "idle")
    PROVE  /\ ~On /\ w \in Everyone /\ w # Script /\ writer[w] \in Writer
           /\ Formed(w, writer[w]) /\ Aware(writer[w]) /\ drift \in BOOLEAN
           /\ ~drift => Cared /\ Housed /\ Spared
  <1>1. ~On /\ w \in Everyone /\ w # Script /\ writer[w] \in Writer
    BY ScriptIsOff
  <1> QED
    BY <1>1 DEF WholeInv, MembersTypeOK

LEMMA PurchaseIsRead ==
    ASSUME WholeInv, NEW w \in Writers, ReadPurchase(w)
    PROVE  WholeInv'
  <1>1. /\ writer[w].pc = "read" /\ UNCHANGED <<purchase, member, script, drift>>
        /\ writer' = [writer EXCEPT ![w] = [writer[w] EXCEPT !.pc = "find", !.phone = purchase[writer[w].order].phone,
                                                             !.previous = purchase[writer[w].order].link]]
    BY DEF ReadPurchase, Go, WriterAt
  <1>2. /\ ~On /\ w # Script /\ writer[w] \in Writer /\ Formed(w, writer[w]) /\ Aware(writer[w])
        /\ drift \in BOOLEAN
    BY <1>1, WorkerIs DEF WriterAt
  <1>3. writer[w].order \in Created /\ purchase[writer[w].order] \in Purchase /\ writer[w].order # Nobody
        /\ purchase[writer[w].order].phone # Nobody
    <2>1. writer[w].order \in Created /\ writer[w].order # Nobody
      BY <1>1, <1>2 DEF Formed, Writer
    <2> QED
      BY <2>1 DEF WholeInv, MembersTypeOK, OwnOrders, OrdersOf, Placed
  <1>4. PICK q : q = [writer[w] EXCEPT !.pc = "find", !.phone = purchase[writer[w].order].phone,
                                       !.previous = purchase[writer[w].order].link]
    OBVIOUS
  <1>5. /\ q \in Writer /\ q.pc = "find" /\ q.order = writer[w].order /\ q.left = writer[w].left
        /\ q.member = writer[w].member /\ q.phone = purchase[writer[w].order].phone /\ q.given = writer[w].given
        /\ q.previous = purchase[writer[w].order].link
    BY <1>2, <1>3, <1>4 DEF Writer, SyncPc, Purchase
  <1>6. Formed(w, q) /\ Aware(q)
    BY <1>1, <1>2, <1>3, <1>5 DEF Formed, Aware, Syncing
  <1>7. Clear(w, q)
    BY <1>5, ClearIs
  <1>8. LeavesRight(w, q)
    BY <1>1, <1>3, <1>5 DEF LeavesRight, Owes, Outdated, Syncing
  <1> QED
    BY <1>1, <1>2, <1>4, <1>5, <1>6, <1>7, <1>8, WriterMoves

\* A request found the member m for the order it records.
LEMMA FoundIs ==
    ASSUME WholeInv, NEW w \in Writers, writer[w].pc \in {"find", "upsert"}, NEW m \in Members
    PROVE  /\ Found(w, m) \in Writer /\ writer[w].order \in Created
           /\ Found(w, m).pc = (IF writer[w].previous = m THEN "member" ELSE "link")
           /\ Found(w, m).member = m /\ Found(w, m).order = writer[w].order /\ Found(w, m).left = writer[w].left
           /\ Found(w, m).phone = writer[w].phone /\ Found(w, m).given = writer[w].given /\ Found(w, m).previous = writer[w].previous
  <1>1. w # Script /\ writer[w] \in Writer /\ Formed(w, writer[w])
    BY WorkerIs DEF WriterAt
  <1>2. writer[w].order \in Created
    BY <1>1 DEF Formed, Writer
  <1>3. ToLink(w, m) = {} <=> writer[w].previous = m
    BY <1>1, <1>2 DEF ToLink
  <1> QED
    BY <1>1, <1>2, <1>3 DEF Found, Writer, SyncPc

\* It found it under the phone of the order.
LEMMA FoundKeeps ==
    ASSUME WholeInv, NEW w \in Writers, writer[w].pc \in {"find", "upsert"},
           NEW m \in Owner(writer[w].phone), writer' = [writer EXCEPT ![w] = Found(w, m)],
           UNCHANGED <<purchase, member, script, drift>>
    PROVE  WholeInv'
  <1>1. /\ ~On /\ w # Script /\ writer[w] \in Writer /\ Formed(w, writer[w]) /\ Aware(writer[w])
        /\ drift \in BOOLEAN /\ m \in Members /\ member[m].phone = writer[w].phone
    BY WorkerIs DEF WriterAt, Owner
  <1>2. PICK q : q = Found(w, m)
    OBVIOUS
  <1>3. /\ q \in Writer /\ q.pc = (IF writer[w].previous = m THEN "member" ELSE "link")
        /\ q.order = writer[w].order /\ q.left = writer[w].left /\ writer[w].order \in Created
        /\ q.member = m /\ q.phone = writer[w].phone /\ q.given = writer[w].given /\ q.previous = writer[w].previous
    BY <1>1, <1>2, FoundIs
  <1>4. writer[w].order # Nobody
    BY <1>3, MembersAssumption
  <1>5. Formed(w, q) /\ Aware(q)
    BY <1>1, <1>3, <1>4 DEF Formed, Aware, Syncing
  <1>6. Clear(w, q)
    BY <1>3, ClearIs
  <1>7. LeavesRight(w, q)
    BY <1>1, <1>3, <1>4 DEF LeavesRight, Owes, Outdated, Syncing
  <1> QED
    BY <1>1, <1>2, <1>3, <1>5, <1>6, <1>7, WriterMoves

LEMMA MemberIsFound ==
    ASSUME WholeInv, NEW w \in Writers, FindMember(w)
    PROVE  WholeInv'
  <1>1. /\ writer[w].pc = "find" /\ UNCHANGED <<purchase, member, script, drift>>
    BY DEF FindMember, WriterAt
  <1>2. CASE \E m \in Owner(writer[w].phone) : Go(w, Found(w, m))
    BY <1>1, <1>2, FoundKeeps DEF Go
  <1>3. CASE Go(w, [writer[w] EXCEPT !.pc = "upsert"])
    <2>1. /\ ~On /\ w # Script /\ writer[w] \in Writer /\ Formed(w, writer[w]) /\ Aware(writer[w])
          /\ drift \in BOOLEAN
      BY <1>1, WorkerIs DEF WriterAt
    <2>2. PICK q : q = [writer[w] EXCEPT !.pc = "upsert"]
      OBVIOUS
    <2>3. /\ q \in Writer /\ q.pc = "upsert" /\ q.order = writer[w].order /\ q.left = writer[w].left
          /\ q.member = writer[w].member /\ q.phone = writer[w].phone /\ q.given = writer[w].given /\ q.previous = writer[w].previous
      BY <2>1, <2>2 DEF Writer, SyncPc
    <2>4. Formed(w, q) /\ Aware(q)
      BY <1>1, <2>1, <2>3 DEF Formed, Aware, Syncing
    <2>5. Clear(w, q)
      BY <2>3, ClearIs
    <2>6. LeavesRight(w, q)
      BY <1>1, <2>1, <2>3 DEF LeavesRight, Owes, Outdated, Syncing
    <2> QED
      BY <1>1, <1>3, <2>1, <2>2, <2>3, <2>4, <2>5, <2>6, WriterMoves DEF Go
  <1> QED
    BY <1>2, <1>3 DEF FindMember

LEMMA MemberIsRead ==
    ASSUME WholeInv, NEW w \in Writers, ReadMember(w)
    PROVE  WholeInv'
  <1>1. writer[w].pc = "member" /\ UNCHANGED <<purchase, member, script>>
    BY DEF ReadMember, WriterAt
  <1>2. /\ ~On /\ w # Script /\ writer[w] \in Writer /\ Formed(w, writer[w]) /\ Aware(writer[w])
        /\ drift \in BOOLEAN /\ writer[w].member \in Members
    BY <1>1, WorkerIs DEF WriterAt, Formed, Syncing
  <1>3. CASE /\ Exists(writer[w].member) /\ UNCHANGED drift
             /\ Go(w, [writer[w] EXCEPT !.pc = "picture", !.fresh = TRUE, !.stored = member[writer[w].member].fields])
    <2>1. PICK q : q = [writer[w] EXCEPT !.pc = "picture", !.fresh = TRUE, !.stored = member[writer[w].member].fields]
      OBVIOUS
    <2>2. member[writer[w].member].fields \in Fields
      BY <1>2 DEF WholeInv, MembersTypeOK
    <2>3. /\ q \in Writer /\ q.pc = "picture" /\ q.order = writer[w].order /\ q.left = writer[w].left
          /\ q.member = writer[w].member /\ q.phone = writer[w].phone /\ q.given = writer[w].given /\ q.previous = writer[w].previous
          /\ q.stored = member[writer[w].member].fields
      BY <1>2, <2>1, <2>2 DEF Writer, SyncPc
    <2>4. Formed(w, q) /\ Aware(q)
      BY <1>1, <1>2, <2>3 DEF Formed, Aware, Syncing
    <2>5. Clear(w, q)
      BY <2>3, ClearIs
    <2>6. LeavesRight(w, q)
      BY <1>1, <1>2, <2>3 DEF LeavesRight, Owes, Outdated, Syncing
    <2> QED
      BY <1>1, <1>2, <1>3, <2>1, <2>3, <2>4, <2>5, <2>6, WriterMoves DEF Go
  <1>4. CASE /\ ~Exists(writer[w].member) /\ Go(w, Recorded(writer[w]))
             /\ drift' \in BOOLEAN /\ (drift => drift') /\ (~drift' => writer[w].order = Nobody)
    <2>1. PICK q : q = Recorded(writer[w])
      OBVIOUS
    <2>2. /\ q \in Writer /\ q.pc = (IF writer[w].left = {} THEN "idle" ELSE "save") /\ q.left = writer[w].left
          /\ q.order = Nobody /\ q.member = Nobody /\ q.previous = Nobody
          /\ (q.left # {} => q.given = writer[w].given)
      BY <1>2, <2>1, RecordedIs
    <2>3. Formed(w, q) /\ Aware(q)
      BY <1>2, <2>2 DEF Formed, Aware, Syncing
    <2>4. Clear(w, q)
      BY <2>2, ClearIs
    <2>5. ~drift' => LeavesRight(w, q)
      BY <1>1, <1>2, <1>4, <2>2, MembersAssumption DEF LeavesRight, Owes, Outdated, Syncing, Formed
    <2> QED
      BY <1>1, <1>2, <1>4, <2>1, <2>2, <2>3, <2>4, <2>5, WriterMoves DEF Go
  <1>5. CASE /\ ~Exists(writer[w].member) /\ writer[w].order # Nobody
             /\ Go(w, [writer[w] EXCEPT !.pc = "read", !.pass = 1, !.tries = 0, !.member = Nobody])
             /\ drift' = (drift \/ writer[w].previous \notin {Nobody, writer[w].member})
    <2>1. PICK q : q = [writer[w] EXCEPT !.pc = "read", !.pass = 1, !.tries = 0, !.member = Nobody]
      OBVIOUS
    <2>2. /\ q \in Writer /\ q.pc = "read" /\ q.left = writer[w].left /\ q.order = writer[w].order
          /\ q.member = Nobody /\ q.previous = writer[w].previous /\ q.phone = writer[w].phone /\ q.given = writer[w].given
      <3>1. 1 \in 0 .. 1 /\ 0 \in Nat
        OBVIOUS
      <3>2. PICK Passes : Passes = 0 .. 1
        OBVIOUS
      <3>3. Writer = [pc : SyncPc, left : SUBSET Created, text : Texts, given : Phones \cup {Nobody}, phone : Phones \cup {Nobody},
                      order : Created \cup {Nobody}, member : Members \cup {Nobody},
                      previous : Members \cup {Nobody}, fresh : BOOLEAN, stored : Fields, fields : Fields,
                      tries : Nat, pass : Passes]
        BY <3>2 DEF Writer
      <3> QED
        BY <1>2, <2>1, <3>1, <3>2, <3>3 DEF SyncPc
    <2>3. Formed(w, q) /\ Aware(q)
      BY <1>1, <1>2, <1>5, <2>2 DEF Formed, Aware, Syncing
    <2>4. Clear(w, q)
      BY <2>2, ClearIs
    <2>5. ~drift' => LeavesRight(w, q)
      BY <1>1, <1>2, <1>5, <2>2, MembersAssumption DEF LeavesRight, Owes, Outdated, Syncing, Removing, SameVersion
    <2> QED
      BY <1>1, <1>2, <1>5, <2>1, <2>2, <2>3, <2>4, <2>5, WriterMoves DEF Go
  <1> QED
    BY <1>2, <1>3, <1>4, <1>5 DEF ReadMember

\* A request is done with its member: the one its order left comes next.
LEMMA SyncedFits ==
    ASSUME NEW w \in Writers, NEW q0 \in Writer, Formed(w, q0), q0.pc \in Syncing
    PROVE  /\ Synced(q0) \in Writer /\ Formed(w, Synced(q0)) /\ Synced(q0).pc \in {"idle", "save", "member"}
           /\ Synced(q0).order = Nobody /\ Synced(q0).left = q0.left /\ Synced(q0).fresh = FALSE
           /\ Synced(q0).previous = Nobody
           /\ q0.previous \notin {Nobody, q0.member} => Synced(q0).pc = "member" /\ Synced(q0).member = q0.previous
           /\ q0.left # {} => Synced(q0).given = q0.given
  <1>1. CASE q0.previous \in {Nobody, q0.member}
    <2>1. Synced(q0) = Recorded(q0)
      BY <1>1, SyncedIs
    <2> QED
      BY <1>1, <2>1, RecordedIs DEF Formed, Syncing
  <1>2. CASE q0.previous \notin {Nobody, q0.member}
    <2>1. /\ Synced(q0) \in Writer /\ Synced(q0).left = q0.left /\ Synced(q0).order = Nobody
          /\ Synced(q0).previous = Nobody /\ Synced(q0).fresh = FALSE /\ Synced(q0).pc = "member"
          /\ Synced(q0).member = q0.previous /\ (q0.left # {} => Synced(q0).given = q0.given)
      BY <1>2, SyncedIs
    <2>2. w # Script /\ q0.previous \in Members
      BY <1>2, MembersAssumption DEF Writer
    <2> QED
      BY <1>2, <2>1, <2>2 DEF Formed, Syncing
  <1> QED
    BY <1>1, <1>2

LEMMA PictureIsRead ==
    ASSUME WholeInv, NEW w \in Writers, ReadPicture(w)
    PROVE  WholeInv'
  <1>1. writer[w].pc = "picture" /\ UNCHANGED <<purchase, member, script>>
    BY DEF ReadPicture, WriterAt
  <1>2. /\ ~On /\ w \in Everyone /\ w # Script /\ writer[w] \in Writer /\ Formed(w, writer[w]) /\ Aware(writer[w])
        /\ drift \in BOOLEAN /\ writer[w].member \in Members
    BY <1>1, WorkerIs DEF WriterAt, Formed, Syncing
  <1>3. PICK m \in Members : m = writer[w].member
    BY <1>2
  <1>4. CASE /\ Linked(m) = {} /\ UNCHANGED drift
             /\ Go(w, [writer[w] EXCEPT !.pc = "remove", !.stored = NoFields])
    <2>1. PICK q : q = [writer[w] EXCEPT !.pc = "remove", !.stored = NoFields]
      OBVIOUS
    <2>2. /\ q \in Writer /\ q.pc = "remove" /\ q.left = writer[w].left /\ q.order = writer[w].order
          /\ q.member = m /\ q.previous = writer[w].previous /\ q.phone = writer[w].phone /\ q.given = writer[w].given
      BY <1>2, <1>3, <2>1, RestingIs DEF Writer, SyncPc, Resting
    <2>3. writer[w].order = Nobody
      <3> SUFFICES ASSUME writer[w].order # Nobody PROVE FALSE
        OBVIOUS
      <3>1. writer[w].order \in Created /\ purchase[writer[w].order].link = m
        BY <1>1, <1>2, <1>3 DEF Aware, Syncing, Writer
      <3> QED
        BY <1>4, <3>1 DEF Linked
    <2>4. Formed(w, q) /\ Aware(q)
      BY <1>1, <1>2, <1>3, <2>2, <2>3 DEF Formed, Aware, Syncing
    <2>5. Clear(w, q)
      BY <2>2, ClearIs
    <2>6. LeavesRight(w, q)
      BY <1>1, <1>3, <1>4, <2>2, <2>3 DEF LeavesRight, Owes, Outdated, Syncing
    <2> QED
      BY <1>1, <1>2, <1>4, <2>1, <2>2, <2>4, <2>5, <2>6, WriterMoves DEF Go
  <1>5. CASE /\ Linked(m) # {} /\ UNCHANGED drift
             /\ Go(w, [writer[w] EXCEPT !.pc = "write", !.stored = NoFields, !.fields = PictureOf(m)])
    <2>1. PICK q : q = [writer[w] EXCEPT !.pc = "write", !.stored = NoFields, !.fields = PictureOf(m)]
      OBVIOUS
    <2>2. PictureOf(m) \in Fields /\ NoFields \in Fields
      BY PictureIs, RestingIs DEF WholeInv, Resting, Writer
    <2>3. /\ q \in Writer /\ q.pc = "write" /\ q.left = writer[w].left /\ q.order = writer[w].order
          /\ q.member = m /\ q.previous = writer[w].previous /\ q.fields = PictureOf(m) /\ q.phone = writer[w].phone /\ q.given = writer[w].given
      BY <1>2, <1>3, <2>1, <2>2 DEF Writer, SyncPc
    <2>4. Formed(w, q) /\ Aware(q)
      BY <1>1, <1>2, <1>3, <2>3 DEF Formed, Aware, Syncing
    <2>5. Clear(w, q)
      BY <2>3, ClearIs
    <2>6. LeavesRight(w, q)
      BY <1>1, <1>3, <1>5, <2>3 DEF LeavesRight, Owes, Outdated, Syncing
    <2> QED
      BY <1>1, <1>2, <1>5, <2>1, <2>3, <2>4, <2>5, <2>6, WriterMoves DEF Go
  <1>6. CASE /\ Linked(m) # {} /\ PictureOf(m) = writer[w].stored /\ drift' = (drift \/ Misled(w))
             /\ Go(w, Synced(writer[w]))
    <2>1. PICK q : q = Synced(writer[w])
      OBVIOUS
    <2>2. /\ q \in Writer /\ Formed(w, q) /\ q.pc \in {"idle", "save", "member"} /\ q.left = writer[w].left
          /\ q.order = Nobody /\ q.previous = Nobody
          /\ writer[w].previous \notin {Nobody, m} => q.pc = "member" /\ q.member = writer[w].previous
      BY <1>1, <1>2, <1>3, <2>1, SyncedFits DEF Syncing
    <2>3. Aware(q)
      BY <2>2 DEF Aware
    <2>4. Clear(w, q)
      BY <2>2, ClearIs
    <2>5. ASSUME ~drift' PROVE LeavesRight(w, q)
      <3>1. /\ SameVersion(writer[w])
            /\ \A x \in Everyone \ {w} : writer[x].member = m /\ SameVersion(writer[x]) =>
                  writer[x].pc # "remove" /\ (writer[x].pc = "write" => writer[x].fields = PictureOf(m))
        BY <1>2, <1>3, <1>6, <2>5 DEF Misled, WriterAt
      <3>2. Right(m)
        BY <1>1, <1>2, <1>3, <1>6, <3>1 DEF Right, Aware
      <3>3. \A x \in Writers \ {w} : ~Outdated(writer[x], m)
        BY <1>6, <3>1 DEF Outdated, Everyone
      <3>4. writer[w].order # Nobody => Home(writer[w].order)
        BY <1>1, <1>2, <1>3, <3>1 DEF Home, Aware, Syncing, SameVersion
      <3>5. \A x \in Writers : ~(Removing(writer[x]) /\ writer[x].member = m)
        BY <1>1, <3>1 DEF Removing, Everyone
      <3>6. \A n \in Members : Owes(writer[w], n) => n = m \/ Owes(q, n)
        BY <1>1, <1>3, <2>2, MembersAssumption DEF Owes, Syncing
      <3>7. \A n \in Members : ~Outdated(q, n)
        BY <2>2 DEF Outdated
      <3> QED
        BY <1>3, <2>2, <3>2, <3>3, <3>4, <3>5, <3>6, <3>7 DEF LeavesRight
    <2>6. drift' \in BOOLEAN /\ (drift => drift')
      BY <1>2, <1>6 DEF Misled
    <2> QED
      BY <1>1, <1>2, <1>6, <2>1, <2>2, <2>3, <2>4, <2>5, <2>6, WriterMoves DEF Go
  <1> QED
    BY <1>3, <1>4, <1>5, <1>6 DEF ReadPicture

\* The version moved under a request: it starts over, or gives up.
LEMMA AgainKeeps ==
    ASSUME WholeInv, NEW w \in Writers, writer[w].pc \in {"write", "remove"}, ~SameVersion(writer[w]), Again(w),
           UNCHANGED <<purchase, member>>
    PROVE  WholeInv'
  <1>2. /\ ~On /\ w \in Everyone /\ w # Script /\ writer[w] \in Writer /\ Formed(w, writer[w]) /\ Aware(writer[w])
        /\ drift \in BOOLEAN /\ writer[w].member \in Members
    BY WorkerIs DEF WriterAt, Formed, Syncing
  <1>3. CASE /\ Go(w, [writer[w] EXCEPT !.pc = "member", !.fields = NoFields, !.fresh = FALSE, !.tries = @ + 1])
             /\ UNCHANGED <<script, drift>>
    <2>1. PICK q : q = [writer[w] EXCEPT !.pc = "member", !.fields = NoFields, !.fresh = FALSE, !.tries = @ + 1]
      OBVIOUS
    <2>2. NoFields \in Fields /\ writer[w].tries + 1 \in Nat
      BY <1>2, RestingIs DEF Resting, Writer
    <2>3. /\ q \in Writer /\ q.pc = "member" /\ q.left = writer[w].left /\ q.order = writer[w].order
          /\ q.member = writer[w].member /\ q.previous = writer[w].previous /\ q.phone = writer[w].phone /\ q.given = writer[w].given
      BY <1>2, <2>1, <2>2 DEF Writer, SyncPc
    <2>4. Formed(w, q) /\ Aware(q)
      BY <1>2, <2>3 DEF Formed, Aware, Syncing
    <2>5. Clear(w, q)
      BY <2>3, ClearIs
    <2>6. LeavesRight(w, q)
      BY <2>3 DEF LeavesRight, Owes, Outdated, Syncing
    <2> QED
      BY <1>2, <1>3, <2>1, <2>3, <2>4, <2>5, <2>6, WriterMoves DEF Go
  <1>4. CASE Go(w, Recorded(writer[w])) /\ UNCHANGED script /\ drift' = TRUE
    <2>1. PICK q : q = Recorded(writer[w])
      OBVIOUS
    <2>2. /\ q \in Writer /\ q.pc = (IF writer[w].left = {} THEN "idle" ELSE "save") /\ q.left = writer[w].left
          /\ q.order = Nobody /\ q.member = Nobody /\ q.previous = Nobody
          /\ (q.left # {} => q.given = writer[w].given)
      BY <1>2, <2>1, RecordedIs
    <2>3. Formed(w, q) /\ Aware(q)
      BY <1>2, <2>2 DEF Formed, Aware, Syncing
    <2>4. Clear(w, q)
      BY <2>2, ClearIs
    <2> QED
      BY <1>2, <1>4, <2>1, <2>2, <2>3, <2>4, WriterMoves DEF Go
  <1> QED
    BY <1>2, <1>3, <1>4 DEF Again

LEMMA DeathKeeps ==
    ASSUME WholeInv, NEW w \in Writers, WriterDies(w)
    PROVE  WholeInv'
  <1>1. w # Script /\ ~WriterAt(w, "idle")
    BY MembersAssumption DEF WriterDies
  <1>2. ~On /\ w \in Everyone /\ writer[w] \in Writer
    BY <1>1, ScriptIsOff
  <1>3. UNCHANGED <<purchase, member, script>> /\ drift' = TRUE /\ writer' = [writer EXCEPT ![w] = Resting]
    BY <1>1 DEF WriterDies, Go
  <1>4. Formed(w, Resting) /\ Aware(Resting)
    BY <1>1, RestingIs DEF Formed, Aware, Syncing
  <1>5. Clear(w, Resting)
    BY RestingIs, ClearIs
  <1> QED
    BY <1>2, <1>3, <1>4, <1>5, RestingIs, WriterMoves

-----------------------------------------------------------------------------
OnlyOne(w, o) == \A x \in Writers \ {w} : writer[x].order # o

\* One order changes, but not its link, and its request is about to record it.
LEMMA OrderMoves ==
    ASSUME WholeInv, ~On, NEW w \in Writers, NEW o \in Created, NEW p \in Purchase, NEW q \in Writer,
           writer' = [writer EXCEPT ![w] = q], purchase' = [purchase EXCEPT ![o] = p],
           UNCHANGED <<member, script, drift>>,
           p.phone # Nobody, p.link = purchase[o].link,
           writer[w].pc \in {"idle", "save"}, writer[w].order = Nobody,
           q.pc = "read", q.order = o, q.member = Nobody, o \notin q.left, q.left \subseteq writer[w].left,
           q.left # {} => q.given # Nobody,
           OnlyOne(w, o)
    PROVE  WholeInv'
  <1>1. /\ w \in Everyone /\ Script \in Everyone /\ w # Script /\ Nobody \notin Created
        /\ \A x \in Everyone : writer'[x] = IF x = w THEN q ELSE writer[x]
        /\ \A x \in Created : purchase'[x] = IF x = o THEN p ELSE purchase[x]
        /\ \A x \in Created : purchase'[x].link = purchase[x].link
        /\ writer[Script].pc = "idle" /\ drift \in BOOLEAN
        /\ Formed(Script, writer[Script])
    BY MembersAssumption DEF WholeInv, MembersTypeOK, Everyone, WriterAt
  <1>2. MembersTypeOK'
    BY DEF WholeInv, MembersTypeOK
  <1>3. \A m : Exists(m)' = Exists(m) /\ Linked(m)' = Linked(m) /\ \A x : SameVersion(x)' = SameVersion(x)
    BY <1>1 DEF Exists, Linked, SameVersion
  <1>4. \A m : m # p.link => PictureOf(m)' = PictureOf(m)
    <2>1. ASSUME NEW m, m # p.link PROVE [x \in Linked(m) |-> purchase'[x]] = [x \in Linked(m) |-> purchase[x]]
      BY <1>1, <2>1 DEF Linked
    <2> QED
      BY <1>3, <2>1 DEF PictureOf
  <1>5. \A x \in Writers \ {w} : writer[x] \in Writer /\ writer[x].order # o /\ writer'[x] = writer[x]
                                 /\ (writer[x].order \in Created \/ writer[x].order = Nobody)
    BY <1>1 DEF WholeInv, MembersTypeOK, Everyone, OnlyOne, Writer
  <1>6. \A x \in Everyone : Formed(x, writer[x])'
    <2>1. Formed(w, q)
      BY <1>1 DEF Formed, Syncing
    <2> QED
      BY <1>1, <2>1 DEF WholeInv, Formed
  <1>7. \A x \in Everyone : Aware(writer[x])'
    <2>1. ASSUME NEW x \in Writers \ {w} PROVE Aware(writer[x])'
      <3>1. Aware(writer[x]) /\ writer'[x] = writer[x]
        BY <1>5 DEF WholeInv, Everyone
      <3>2. writer[x].order # Nobody => purchase'[writer[x].order] = purchase[writer[x].order]
        BY <1>1, <1>5
      <3> QED
        BY <1>3, <3>1, <3>2 DEF Aware
    <2>2. Aware(writer[w])'
      BY <1>1 DEF Aware, Syncing
    <2>3. Aware(writer[Script])'
      BY <1>1, MembersAssumption DEF Aware, WholeInv, Formed
    <2> QED
      BY <2>1, <2>2, <2>3 DEF Everyone
  <1>8. OwnOrders'
    <2>1. \A x \in OrdersOf(q) : x = o \/ x \in OrdersOf(writer[w])
      BY DEF OrdersOf
    <2>2. \A x \in OrdersOf(writer[w]) : x \in Created /\ Placed(x)
      BY DEF WholeInv, OwnOrders, OrdersOf
    <2>3. \A x \in Created : Placed(x) => purchase'[x].phone # Nobody
      BY <1>1 DEF Placed
    <2>4. \A x \in OrdersOf(q) : purchase'[x].phone # Nobody
      BY <1>1, <2>1, <2>2, <2>3
    <2> QED
      BY <2>3, <2>4, OrdersStayOwn DEF OnlyOne
  <1>9. \A x \in Created : Placed(x)' \/ purchase'[x].link = Nobody
    BY <1>1 DEF WholeInv, Placed
  <1>10. ~On' /\ WriterAt(Script, "idle")'
    BY <1>1 DEF On, WriterAt
  <1>11. ASSUME ~drift' PROVE Cared' /\ Housed' /\ Spared'
    <2>1. Cared /\ Housed /\ Spared
      BY <1>11 DEF WholeInv
    <2>2. \A m \in Members, x \in Writers \ {w} : m # p.link =>
             /\ Owes(writer[x], m)' = Owes(writer[x], m)
             /\ Outdated(writer[x], m)' = Outdated(writer[x], m)
      <3>1. \A m \in Members, x \in Writers \ {w} : m # p.link => Outdated(writer[x], m)' = Outdated(writer[x], m)
        BY <1>3, <1>4, <1>5 DEF Outdated
      <3>2. \A m \in Members, x \in Writers \ {w} : m # p.link => Owes(writer[x], m)' = Owes(writer[x], m)
        <4>1. \A x \in Writers \ {w} : writer[x].pc = "read" => writer[x].order \in Created
          BY <1>1, <1>5, MembersAssumption DEF WholeInv, Formed, Everyone
        <4> QED
          BY <1>1, <1>5, <3>1, <4>1 DEF Owes
      <3> QED
        BY <3>1, <3>2
    <2>3. ASSUME NEW m \in Members, Exists(m)' PROVE RightForGood(m)' \/ \E x \in Writers : Owes(writer[x], m)'
      <3>1. CASE m = p.link
        <4>1. Owes(writer[w], m)'
          BY <1>1, <3>1 DEF Owes
        <4> QED
          BY <4>1
      <3>2. CASE m # p.link
        <4>1. RightForGood(m) \/ \E x \in Writers : Owes(writer[x], m)
          BY <1>3, <2>1, <2>3 DEF Cared
        <4>2. ~Owes(writer[w], m) /\ ~Outdated(writer[w], m)'
          BY <1>1 DEF Owes, Outdated, Syncing
        <4>3. Right(m)' = Right(m)
          BY <1>3, <1>4, <3>2 DEF Right
        <4> QED
          BY <2>2, <3>2, <4>1, <4>2, <4>3 DEF RightForGood
      <3> QED
        BY <3>1, <3>2
    <2>4. Housed'
      <3> SUFFICES ASSUME NEW x \in Created, Placed(x)' PROVE Home(x)' \/ \E y \in Writers : (writer[y].order = x)'
        BY DEF Housed
      <3>1. CASE x = o
        BY <1>1, <3>1
      <3>2. CASE x # o
        <4>1. Home(x) \/ \E y \in Writers : writer[y].order = x
          BY <1>1, <2>1, <3>2 DEF Housed, Placed
        <4> QED
          BY <1>1, <1>5, <3>2, <4>1 DEF Home
      <3> QED
        BY <3>1, <3>2
    <2>5. Spared'
      <3> SUFFICES ASSUME NEW x \in Writers, Removing(writer[x])', NEW y \in Linked(writer[x].member)'
                   PROVE  \E z \in Writers : (writer[z].order = y /\ writer[z].pc \in Syncing)'
        BY DEF Spared
      <3>1. x # w /\ Removing(writer[x]) /\ y \in Linked(writer[x].member)
        BY <1>1, <1>3, <1>5 DEF Removing, Linked
      <3>2. PICK z \in Writers : writer[z].order = y /\ writer[z].pc \in Syncing
        BY <2>1, <3>1 DEF Spared
      <3> QED
        BY <1>5, <3>2 DEF Syncing
    <2> QED
      BY <2>3, <2>4, <2>5 DEF Cared
  <1>12. OneMemberPerPhone'
    BY <1>3 DEF WholeInv, OneMemberPerPhone
  <1> QED
    BY <1>2, <1>6, <1>7, <1>8, <1>9, <1>10, <1>11, <1>12 DEF WholeInv

\* An idle request records the order o next.
LEMMA RecordIs ==
    ASSUME NEW o \in Created
    PROVE  /\ Record(o) \in Writer /\ Record(o).pc = "read" /\ Record(o).order = o /\ Record(o).left = {}
           /\ Record(o).member = Nobody
  BY RestingIs DEF Record, Writer, SyncPc

LEMMA OrderIsPlaced ==
    ASSUME WholeInv, Quiet, NEW w \in Writers, NEW o \in Created, NEW p \in Phones, NEW t \in Texts,
           PlaceOrder(w, o, p, t)
    PROVE  WholeInv'
  <1>1. /\ StartsWrite(w, "create") /\ ~Placed(o) /\ UNCHANGED <<member, script, drift>>
        /\ purchase' = [purchase EXCEPT ![o] = [NoPurchase EXCEPT !.phone = p, !.text = t]]
        /\ writer' = [writer EXCEPT ![w] = Record(o)]
    BY DEF PlaceOrder, Go
  <1>2. PICK s : s = [NoPurchase EXCEPT !.phone = p, !.text = t]
    OBVIOUS
  <1>3. s \in Purchase /\ s.phone = p /\ s.link = Nobody
    BY <1>2 DEF NoPurchase, Purchase
  <1>4. purchase[o].link = Nobody /\ p # Nobody
    BY <1>1, MembersAssumption DEF WholeInv
  <1>5. OnlyOne(w, o)
    BY <1>1 DEF WholeInv, OwnOrders, OrdersOf, OnlyOne
  <1>6. /\ ~On /\ writer[w].pc = "idle" /\ writer[w].order = Nobody /\ writer[w].left = {}
    BY <1>1, IdleIs
  <1>7. PICK q : q = Record(o)
    OBVIOUS
  <1>8. /\ q \in Writer /\ q.pc = "read" /\ q.order = o /\ q.left = {} /\ q.member = Nobody
    BY <1>7, RecordIs
  <1>9. purchase' = [purchase EXCEPT ![o] = s] /\ writer' = [writer EXCEPT ![w] = q]
    BY <1>1, <1>2, <1>7
  <1>10. /\ s.phone # Nobody /\ s.link = purchase[o].link /\ UNCHANGED <<member, script, drift>>
         /\ writer[w].pc \in {"idle", "save"} /\ o \notin q.left /\ q.left \subseteq writer[w].left
         /\ q.left # {} => q.given # Nobody
    BY <1>1, <1>3, <1>4, <1>6, <1>8
  <1> QED
    BY <1>3, <1>5, <1>6, <1>8, <1>9, <1>10, OrderMoves, Zenon

LEMMA FlagIsFlipped ==
    ASSUME WholeInv, Quiet, NEW w \in Writers, NEW o \in Created, NEW flag \in BOOLEAN, FlipDeleted(w, o, flag), ~drift'
    PROVE  WholeInv'
  <1>1. PICK op : /\ StartsWrite(w, op) /\ Placed(o) /\ UNCHANGED <<member, script>>
                  /\ drift' = (drift \/ Recording(o))
                  /\ purchase' = [purchase EXCEPT ![o] = [purchase[o] EXCEPT !.deleted = flag]]
                  /\ writer' = [writer EXCEPT ![w] = Record(o)]
    BY DEF FlipDeleted, Go
  <1>2. PICK s : s = [purchase[o] EXCEPT !.deleted = flag]
    OBVIOUS
  <1>3. purchase[o] \in Purchase
    BY DEF WholeInv, MembersTypeOK
  <1>4. s \in Purchase /\ s.phone = purchase[o].phone /\ s.link = purchase[o].link
    BY <1>2, <1>3 DEF Purchase
  <1>5. drift' = drift /\ OnlyOne(w, o)
    <2>1. drift \in BOOLEAN
      BY DEF WholeInv, MembersTypeOK
    <2> QED
      BY <1>1, <2>1 DEF Recording, OnlyOne
  <1>6. /\ ~On /\ w \in Everyone /\ w # Script /\ writer[w] \in Writer
        /\ writer[w].pc = "idle" /\ writer[w].order = Nobody /\ writer[w].left = {}
    BY <1>1, IdleIs
  <1>7. purchase' = [purchase EXCEPT ![o] = s] /\ s.phone # Nobody
    BY <1>1, <1>2, <1>4 DEF Placed
  <1>8. PICK q : q = Record(o)
    OBVIOUS
  <1>9. /\ q \in Writer /\ q.pc = "read" /\ q.order = o /\ q.left = {} /\ q.member = Nobody
    BY <1>8, RecordIs
  <1>10. /\ writer' = [writer EXCEPT ![w] = q] /\ UNCHANGED <<member, script, drift>>
         /\ writer[w].pc \in {"idle", "save"} /\ o \notin q.left /\ q.left \subseteq writer[w].left
         /\ q.left # {} => q.given # Nobody
    BY <1>1, <1>5, <1>6, <1>8, <1>9
  <1> QED
    BY <1>4, <1>5, <1>6, <1>7, <1>9, <1>10, OrderMoves, Zenon

LEMMA AddressIsSaved ==
    ASSUME WholeInv, NEW w \in Writers, SaveAddress(w), ~drift'
    PROVE  WholeInv'
  <1>1. PICK o \in writer[w].left :
           /\ drift' = (drift \/ Recording(o))
           /\ purchase' = [purchase EXCEPT ![o].phone = writer[w].given, ![o].text = writer[w].text]
           /\ writer' = [writer EXCEPT ![w] = [writer[w] EXCEPT !.pc = "read", !.order = o, !.left = @ \ {o}]]
    BY DEF SaveAddress, Go
  <1>2. writer[w].pc = "save" /\ UNCHANGED <<member, script>>
    BY DEF SaveAddress, WriterAt
  <1>3. /\ ~On /\ w \in Everyone /\ w # Script /\ writer[w] \in Writer /\ Formed(w, writer[w])
    BY <1>2, WorkerIs DEF WriterAt
  <1>4. /\ writer[w].left \subseteq Created /\ o \in Created /\ writer[w].given \in Phones /\ writer[w].text \in Texts
        /\ purchase[o] \in Purchase /\ writer[w].order = Nobody /\ writer[w].member = Nobody
    BY <1>2, <1>3 DEF Formed, Writer, WholeInv, MembersTypeOK
  <1>5. PICK s : s = [purchase[o] EXCEPT !.phone = writer[w].given, !.text = writer[w].text]
    OBVIOUS
  <1>6. s \in Purchase /\ s.phone = writer[w].given /\ s.link = purchase[o].link
    BY <1>4, <1>5 DEF Purchase
  <1>7. purchase' = [purchase EXCEPT ![o] = s]
    <2>1. purchase \in [Created -> Purchase]
      BY DEF WholeInv, MembersTypeOK
    <2> QED
      BY <1>1, <1>4, <1>5, <2>1 DEF Purchase
  <1>8. PICK q : q = [writer[w] EXCEPT !.pc = "read", !.order = o, !.left = @ \ {o}]
    OBVIOUS
  <1>9. q \in Writer /\ q.pc = "read" /\ q.order = o /\ q.left = writer[w].left \ {o} /\ q.member = Nobody
        /\ q.given = writer[w].given
    BY <1>3, <1>4, <1>8 DEF Writer, SyncPc
  <1>10. drift' = drift /\ OnlyOne(w, o)
    <2>1. drift \in BOOLEAN
      BY DEF WholeInv, MembersTypeOK
    <2> QED
      BY <1>1, <2>1 DEF Recording, OnlyOne
  <1>11. writer' = [writer EXCEPT ![w] = q]
    BY <1>1, <1>8
  <1>12. /\ s.phone # Nobody /\ q.left \subseteq writer[w].left /\ o \notin q.left
         /\ q.left # {} => q.given # Nobody
    BY <1>4, <1>6, <1>9, MembersAssumption
  <1>13. writer[w].pc \in {"idle", "save"} /\ UNCHANGED <<member, script, drift>> /\ writer[w].order = Nobody
    BY <1>2, <1>4, <1>10
  <1>14. ~On /\ o \in Created /\ s \in Purchase /\ q \in Writer
    BY <1>3, <1>4, <1>6, <1>9
  <1>15. s.link = purchase[o].link /\ q.pc = "read" /\ q.order = o /\ q.member = Nobody
    BY <1>6, <1>9
  <1> QED
    BY <1>7, <1>10, <1>11, <1>12, <1>13, <1>14, <1>15, OrderMoves, Zenon

-----------------------------------------------------------------------------
\* The order is linked to the member that was found: both members change.
LEMMA OrderIsLinked ==
    ASSUME WholeInv, NEW w \in Writers, LinkOrder(w)
    PROVE  WholeInv'
  <1>1. writer[w].pc = "link" /\ UNCHANGED <<member, drift>>
    BY DEF LinkOrder, WriterAt
  <1>2. /\ ~On /\ w \in Everyone /\ w # Script /\ writer[w] \in Writer /\ Formed(w, writer[w]) /\ Aware(writer[w])
        /\ drift \in BOOLEAN /\ writer[w].member \in Members /\ writer[w].order # Nobody
        /\ ~drift => Cared /\ Housed /\ Spared
    BY <1>1, WorkerIs DEF WriterAt, Formed
  <1>3. PICK o \in Created, n \in Members : o = writer[w].order /\ n = writer[w].member
    BY <1>2 DEF Writer
  <1>a. PICK q : q = [writer[w] EXCEPT !.pc = "member"]
    OBVIOUS
  <1>4. ToLink(w, n) = {o}
    BY <1>1, <1>2, <1>3 DEF ToLink, Aware
  <1>5. /\ purchase' = [x \in Created |-> IF x = o THEN [purchase[o] EXCEPT !.link = n] ELSE purchase[x]]
        /\ writer' = [writer EXCEPT ![w] = q] /\ UNCHANGED script
    BY <1>2, <1>3, <1>4, <1>a DEF LinkOrder, Go
  <1>6. /\ q \in Writer /\ q.pc = "member" /\ q.order = o /\ q.left = writer[w].left
        /\ q.member = n /\ q.previous = writer[w].previous /\ q.phone = writer[w].phone /\ q.given = writer[w].given
        /\ q.previous = purchase[o].link /\ q.phone = purchase[o].phone /\ n # q.previous
    BY <1>1, <1>2, <1>3, <1>a DEF Writer, SyncPc, Aware
  <1>7. /\ Script \in Everyone /\ Nobody \notin Created /\ purchase[o] \in Purchase
        /\ \A x \in Everyone : writer'[x] = IF x = w THEN q ELSE writer[x]
        /\ \A x \in Created \ {o} : purchase'[x] = purchase[x]
        /\ writer[Script].pc = "idle" /\ Formed(Script, writer[Script])
    BY <1>2, <1>5, MembersAssumption DEF WholeInv, MembersTypeOK, Everyone, WriterAt
  <1>8. purchase'[o] \in Purchase /\ purchase'[o].link = n /\ purchase'[o].phone = purchase[o].phone
    BY <1>5, <1>7 DEF Purchase
  <1>9. MembersTypeOK'
    <2>1. purchase' \in [Created -> Purchase]
      BY <1>5, <1>7, <1>8 DEF WholeInv, MembersTypeOK
    <2> QED
      BY <1>1, <1>5, <1>6, <2>1 DEF WholeInv, MembersTypeOK
  <1>10. \A m : Exists(m)' = Exists(m) /\ \A x : SameVersion(x)' = SameVersion(x)
    BY <1>1 DEF Exists, SameVersion
  <1>11. \A m : m \notin {n, q.previous} => Linked(m)' = Linked(m) /\ PictureOf(m)' = PictureOf(m)
    <2>1. \A m : m \notin {n, q.previous} => Linked(m)' = Linked(m)
      BY <1>6, <1>7, <1>8 DEF Linked
    <2>2. \A m : m \notin {n, q.previous} => [x \in Linked(m) |-> purchase'[x]] = [x \in Linked(m) |-> purchase[x]]
      BY <1>6, <1>7 DEF Linked
    <2> QED
      BY <2>1, <2>2 DEF PictureOf
  <1>12. \A x \in Writers \ {w} : writer[x] \in Writer /\ writer[x].order # o /\ writer'[x] = writer[x] /\ x \in Everyone
                                 /\ (writer[x].order \in Created \/ writer[x].order = Nobody)
    BY <1>2, <1>3, <1>7 DEF WholeInv, MembersTypeOK, Everyone, Writer, OwnOrders
  <1>13. \A x \in Everyone : Formed(x, writer[x])'
    <2>1. Formed(w, q)
      BY <1>1, <1>2, <1>3, <1>6 DEF Formed, Syncing
    <2> QED
      BY <1>7, <2>1 DEF WholeInv, Formed
  <1>14. \A x \in Everyone : Aware(writer[x])'
    <2>1. ASSUME NEW x \in Writers \ {w} PROVE Aware(writer[x])'
      <3>1. Aware(writer[x]) /\ writer'[x] = writer[x]
        BY <1>12 DEF WholeInv
      <3>2. writer[x].order # Nobody => purchase'[writer[x].order] = purchase[writer[x].order]
        BY <1>7, <1>12
      <3> QED
        BY <1>1, <1>10, <3>1, <3>2 DEF Aware
    <2>2. Aware(writer[w])'
      BY <1>1, <1>2, <1>3, <1>6, <1>7, <1>8, <1>10 DEF Aware, Syncing
    <2>3. Aware(writer[Script])'
      BY <1>2, <1>7, MembersAssumption DEF Aware, WholeInv, Formed
    <2> QED
      BY <2>1, <2>2, <2>3 DEF Everyone
  <1>15. OwnOrders'
    <2>1. Clear(w, q)
      BY <1>3, <1>6, ClearIs
    <2>2. \A x \in Created : Placed(x) => purchase'[x].phone # Nobody
      BY <1>7, <1>8 DEF Placed
    <2>3. /\ q.order \notin q.left /\ \A x \in OrdersOf(q) : purchase'[x].phone # Nobody
          /\ q.order = Nobody \/ \A y \in Writers \ {w} : writer[y].order # q.order
      BY <2>1, <2>2 DEF Clear, OrdersOf
    <2> QED
      BY <1>5, <1>6, <2>2, <2>3, OrdersStayOwn
  <1>16. \A x \in Created : Placed(x)' \/ purchase'[x].link = Nobody
    <2>1. Placed(o)
      BY <1>3 DEF WholeInv, OwnOrders, OrdersOf
    <2> QED
      BY <1>7, <1>8, <2>1 DEF WholeInv, Placed
  <1>17. ~On' /\ WriterAt(Script, "idle")'
    BY <1>2, <1>5, <1>7 DEF On, WriterAt
  <1>18. ASSUME ~drift' PROVE Cared' /\ Housed' /\ Spared'
    <2>1. Cared /\ Housed /\ Spared
      BY <1>1, <1>2, <1>18
    <2>2. \A m \in Members, x \in Writers \ {w} : m \notin {n, q.previous} =>
             /\ Owes(writer[x], m)' = Owes(writer[x], m)
             /\ Outdated(writer[x], m)' = Outdated(writer[x], m)
      <3>1. \A m \in Members, x \in Writers \ {w} : m \notin {n, q.previous} => Outdated(writer[x], m)' = Outdated(writer[x], m)
        BY <1>10, <1>11, <1>12 DEF Outdated
      <3>2. \A x \in Writers \ {w} : writer[x].pc = "read" => writer[x].order \in Created
        BY <1>2, <1>12, MembersAssumption DEF WholeInv, Formed
      <3> QED
        BY <1>7, <1>12, <3>1, <3>2 DEF Owes
    <2>3. ASSUME NEW m \in Members, Exists(m)' PROVE RightForGood(m)' \/ \E x \in Writers : Owes(writer[x], m)'
      <3>1. CASE m \in {n, q.previous}
        <4>1. Owes(writer[w], m)'
          BY <1>2, <1>6, <1>7, <3>1 DEF Owes, Syncing
        <4> QED
          BY <4>1
      <3>2. CASE m \notin {n, q.previous}
        <4>1. RightForGood(m) \/ \E x \in Writers : Owes(writer[x], m)
          BY <1>10, <2>1, <2>3 DEF Cared
        <4>2. ~Owes(writer[w], m) /\ ~Outdated(writer[w], m)'
          BY <1>1, <1>2, <1>3, <1>6, <1>7, <3>2 DEF Owes, Outdated, Syncing
        <4>3. Right(m)' = Right(m)
          BY <1>1, <1>11, <3>2 DEF Right
        <4> QED
          BY <2>2, <3>2, <4>1, <4>2, <4>3 DEF RightForGood
      <3> QED
        BY <3>1, <3>2
    <2>4. Housed'
      <3> SUFFICES ASSUME NEW x \in Created, Placed(x)' PROVE Home(x)' \/ \E y \in Writers : (writer[y].order = x)'
        BY DEF Housed
      <3>1. CASE x = o
        BY <1>2, <1>6, <1>7, <3>1
      <3>2. CASE x # o
        <4>1. Home(x) \/ \E y \in Writers : writer[y].order = x
          BY <1>7, <2>1, <3>2 DEF Housed, Placed
        <4> QED
          BY <1>1, <1>3, <1>7, <1>12, <3>2, <4>1 DEF Home
      <3> QED
        BY <3>1, <3>2
    <2>5. Spared'
      <3> SUFFICES ASSUME NEW x \in Writers, Removing(writer[x])', NEW y \in Linked(writer[x].member)'
                   PROVE  \E z \in Writers : (writer[z].order = y /\ writer[z].pc \in Syncing)'
        BY DEF Spared
      <3>1. x # w /\ Removing(writer[x]) /\ writer'[x] = writer[x]
        BY <1>2, <1>6, <1>7, <1>10, <1>12 DEF Removing
      <3>2. CASE y = o
        <4>1. (writer[w].order = y /\ writer[w].pc \in Syncing)'
          BY <1>2, <1>6, <1>7, <3>2 DEF Syncing
        <4> QED
          BY <4>1
      <3>3. CASE y # o
        <4>1. y \in Linked(writer[x].member)
          BY <1>7, <3>1, <3>3 DEF Linked
        <4>2. PICK z \in Writers : writer[z].order = y /\ writer[z].pc \in Syncing
          BY <2>1, <3>1, <4>1 DEF Spared
        <4> QED
          BY <1>3, <1>12, <3>3, <4>2 DEF Syncing
      <3> QED
        BY <3>2, <3>3
    <2> QED
      BY <2>3, <2>4, <2>5 DEF Cared
  <1>19. OneMemberPerPhone'
    BY <1>1, <1>10 DEF WholeInv, OneMemberPerPhone
  <1> QED
    BY <1>9, <1>13, <1>14, <1>15, <1>16, <1>17, <1>18, <1>19 DEF WholeInv

\* A new member, which nobody knew of.
LEMMA MemberIsNew ==
    ASSUME WholeInv, NEW w \in Writers, NEW m \in Members, writer[w].pc = "upsert", Unused(m),
           Owner(writer[w].phone) = {}, writer' = [writer EXCEPT ![w] = Found(w, m)],
           member' = [member EXCEPT ![m] = [NoMember EXCEPT !.phone = writer[w].phone]],
           UNCHANGED <<purchase, script, drift>>
    PROVE  WholeInv'
  <1>1. /\ ~On /\ w \in Everyone /\ w # Script /\ writer[w] \in Writer /\ Formed(w, writer[w]) /\ Aware(writer[w])
        /\ drift \in BOOLEAN /\ writer[w].order # Nobody /\ (~drift => Cared /\ Housed /\ Spared)
    BY WorkerIs DEF WriterAt, Formed
  <1>2. PICK q : q = Found(w, m)
    OBVIOUS
  <1>3. writer[w].previous # m /\ ~Exists(m) /\ Linked(m) = {} /\ \A x \in Everyone : writer[x].member # m
    BY <1>1 DEF Unused
  <1>4. /\ q \in Writer /\ q.pc = "link" /\ q.order = writer[w].order /\ q.left = writer[w].left
        /\ writer[w].order \in Created
        /\ q.member = m /\ q.phone = writer[w].phone /\ q.given = writer[w].given /\ q.previous = writer[w].previous
    BY <1>2, <1>3, FoundIs
  <1>5. writer[w].phone = purchase[writer[w].order].phone /\ writer[w].phone # Nobody /\ writer[w].phone \in Phones
    <2>1. writer[w].phone = purchase[writer[w].order].phone
      BY <1>1 DEF Aware
    <2>2. Placed(writer[w].order)
      BY <1>4 DEF WholeInv, OwnOrders, OrdersOf
    <2> QED
      BY <1>1, <2>1, <2>2 DEF Placed, Writer
  <1>6. PICK d : d = [NoMember EXCEPT !.phone = writer[w].phone]
    OBVIOUS
  <1>7. d \in [phone: Phones \cup {Nobody}, fields: Fields] /\ d.phone = writer[w].phone
    <2>1. NoFields \in Fields
      BY RestingIs DEF Resting, Writer
    <2> QED
      BY <1>5, <1>6, <2>1 DEF NoMember
  <1>8. /\ Script \in Everyone /\ writer[Script].pc = "idle" /\ Formed(Script, writer[Script])
        /\ \A x \in Everyone : writer'[x] = IF x = w THEN q ELSE writer[x]
        /\ \A n \in Members : member'[n] = IF n = m THEN d ELSE member[n]
    BY <1>1, <1>2, <1>6 DEF WholeInv, MembersTypeOK, Everyone, WriterAt
  <1>9. MembersTypeOK'
    BY <1>2, <1>4, <1>6, <1>7 DEF WholeInv, MembersTypeOK
  <1>10. /\ \A n \in Members \ {m} : Exists(n)' = Exists(n)
         /\ \A n : Linked(n)' = Linked(n) /\ PictureOf(n)' = PictureOf(n)
         /\ \A n \in Members \ {m} : Right(n)' = Right(n)
    <2>1. \A n : Linked(n)' = Linked(n)
      BY DEF Linked
    <2>2. \A n : PictureOf(n)' = PictureOf(n)
      BY <2>1 DEF PictureOf
    <2> QED
      BY <1>8, <2>1, <2>2 DEF Exists, Right
  <1>11. \A x \in Writers \ {w} : writer'[x] = writer[x] /\ x \in Everyone /\ writer[x].member # m
    BY <1>3, <1>8 DEF Everyone
  <1>12. \A x \in Everyone : Formed(x, writer[x])'
    <2>1. Formed(w, q)
      BY <1>1, <1>4 DEF Formed, Syncing
    <2> QED
      BY <1>8, <2>1 DEF WholeInv, Formed
  <1>13. \A x \in Everyone : Aware(writer[x])'
    <2>1. ASSUME NEW x \in Writers \ {w} PROVE Aware(writer[x])'
      <3>1. Aware(writer[x]) /\ Formed(x, writer[x]) /\ writer'[x] = writer[x] /\ writer[x].member # m
        BY <1>11 DEF WholeInv
      <3>2. writer[x].member \in Members => member'[writer[x].member] = member[writer[x].member]
        BY <1>8, <3>1
      <3>3. writer[x].member \in Members => SameVersion(writer[x])' = SameVersion(writer[x])
                                            /\ Exists(writer[x].member)' = Exists(writer[x].member)
        BY <3>1, <3>2 DEF SameVersion, Exists
      <3> QED
        BY <3>1, <3>2, <3>3 DEF Aware, Formed, Syncing
    <2>2. Aware(writer[w])'
      BY <1>1, <1>4, <1>3, <1>5, <1>7, <1>8 DEF Aware, Syncing
    <2>3. Aware(writer[Script])'
      BY <1>1, <1>8, MembersAssumption DEF Aware, WholeInv, Formed
    <2> QED
      BY <2>1, <2>2, <2>3 DEF Everyone
  <1>14. OwnOrders'
    <2>1. Clear(w, q)
      BY <1>4, ClearIs
    <2>2. q \in Writer /\ writer' = [writer EXCEPT ![w] = q]
      BY <1>2, <1>4
    <2>3. \A x \in Created : Placed(x) => purchase'[x].phone # Nobody
      BY <1>2 DEF Placed
    <2>4. q.order \notin q.left
      BY <2>1 DEF Clear
    <2>5. /\ \A x \in OrdersOf(q) : purchase'[x].phone # Nobody
          /\ q.order = Nobody \/ \A y \in Writers \ {w} : writer[y].order # q.order
      BY <2>1 DEF Clear, Placed
    <2> QED
      BY <2>2, <2>3, <2>4, <2>5, OrdersStayOwn
  <1>15. \A x \in Created : Placed(x)' \/ purchase'[x].link = Nobody
    BY DEF WholeInv, Placed
  <1>16. ~On' /\ WriterAt(Script, "idle")'
    BY <1>1, <1>8 DEF On, WriterAt
  <1>17. ASSUME ~drift' PROVE Cared' /\ Housed' /\ Spared'
    <2>1. Cared /\ Housed /\ Spared
      BY <1>1, <1>17
    <2>2. \A n \in Members \ {m}, x \in Writers \ {w} :
             /\ Outdated(writer[x], n)' = Outdated(writer[x], n)
             /\ Owes(writer[x], n)' = Owes(writer[x], n)
      <3>1. \A n \in Members \ {m}, x \in Writers \ {w} : Outdated(writer[x], n)' = Outdated(writer[x], n)
        BY <1>10, <1>11 DEF Outdated, SameVersion
      <3> QED
        BY <1>11, <3>1 DEF Owes
    <2>3. ASSUME NEW n \in Members, Exists(n)' PROVE RightForGood(n)' \/ \E x \in Writers : Owes(writer[x], n)'
      <3>1. CASE n = m
        <4>1. Owes(writer[w], n)'
          BY <1>1, <1>4, <1>8, <3>1 DEF Owes
        <4> QED
          BY <4>1
      <3>2. CASE n # m
        <4>1. RightForGood(n) \/ \E x \in Writers : Owes(writer[x], n)
          BY <1>10, <2>1, <2>3, <3>2 DEF Cared
        <4>2. /\ ~Outdated(writer[w], n)'
              /\ Owes(writer[w], n) => Owes(writer[w], n)'
          BY <1>1, <1>4, <1>8, <3>2 DEF Owes, Outdated, Syncing
        <4> QED
          BY <1>10, <2>2, <3>2, <4>1, <4>2 DEF RightForGood
      <3> QED
        BY <3>1, <3>2
    <2>4. Housed'
      <3> SUFFICES ASSUME NEW x \in Created, Placed(x)' PROVE Home(x)' \/ \E y \in Writers : (writer[y].order = x)'
        BY DEF Housed
      <3>1. Home(x) \/ \E y \in Writers : writer[y].order = x
        BY <2>1 DEF Housed, Placed
      <3>2. Home(x) => Home(x)'
        BY <1>3, <1>8 DEF Home, Linked
      <3> QED
        BY <1>1, <1>4, <1>8, <1>11, <3>1, <3>2
    <2>5. Spared'
      <3> SUFFICES ASSUME NEW x \in Writers, Removing(writer[x])', NEW y \in Linked(writer[x].member)'
                   PROVE  \E z \in Writers : (writer[z].order = y /\ writer[z].pc \in Syncing)'
        BY DEF Spared
      <3>1. x # w /\ writer'[x] = writer[x] /\ writer[x].member \in Members \ {m}
        <4>1. x # w
          BY <1>1, <1>4, <1>8 DEF Removing
        <4> QED
          BY <1>11, <4>1 DEF Removing, WholeInv, Formed, Syncing
      <3>2. Removing(writer[x]) /\ y \in Linked(writer[x].member)
        BY <1>10, <3>1 DEF Removing, SameVersion
      <3>3. PICK z \in Writers : writer[z].order = y /\ writer[z].pc \in Syncing
        BY <2>1, <3>2 DEF Spared
      <3>4. z # w
        BY <3>3 DEF Syncing
      <3> QED
        BY <1>11, <3>3, <3>4 DEF Syncing
    <2> QED
      BY <2>3, <2>4, <2>5 DEF Cared
  <1>18. OneMemberPerPhone'
    <2>1. \A n \in Members : member[n].phone # writer[w].phone
      BY DEF Owner
    <2> QED
      BY <1>5, <1>7, <1>8, <2>1 DEF WholeInv, OneMemberPerPhone, Exists
  <1> QED
    BY <1>9, <1>12, <1>13, <1>14, <1>15, <1>16, <1>17, <1>18 DEF WholeInv

LEMMA MemberIsUpserted ==
    ASSUME WholeInv, NEW w \in Writers, UpsertMember(w)
    PROVE  WholeInv'
  <1>1. writer[w].pc = "upsert" /\ UNCHANGED <<purchase, script, drift>>
    BY DEF UpsertMember, WriterAt
  <1>2. CASE \E m \in Owner(writer[w].phone) : Go(w, Found(w, m)) /\ UNCHANGED member
    BY <1>1, <1>2, FoundKeeps DEF Go
  <1>3. CASE /\ Owner(writer[w].phone) = {}
             /\ \E m \in Members :
                   /\ Unused(m)
                   /\ member' = [member EXCEPT ![m] = [NoMember EXCEPT !.phone = writer[w].phone]]
                   /\ Go(w, Found(w, m))
    BY <1>1, <1>3, MemberIsNew DEF Go
  <1> QED
    BY <1>2, <1>3 DEF UpsertMember

-----------------------------------------------------------------------------
\* A request wrote its member, or removed it, as its version was still the one
\* it read: whoever read the member before has to start over.
LEMMA MemberMoves ==
    ASSUME WholeInv, NEW w \in Writers, writer[w].pc \in {"write", "remove"}, SameVersion(writer[w]), Written(w),
           NEW m \in Members, m = writer[w].member, NEW d \in [phone: Phones \cup {Nobody}, fields: Fields],
           member' = [member EXCEPT ![m] = d], UNCHANGED <<purchase, script, drift>>,
           writer[w].pc = "write" => d.phone = member[m].phone /\ d.fields = writer[w].fields,
           writer[w].pc = "remove" => d.phone = Nobody
    PROVE  WholeInv'
  <1>1. /\ ~On /\ w \in Everyone /\ w # Script /\ writer[w] \in Writer /\ Formed(w, writer[w]) /\ Aware(writer[w])
        /\ drift \in BOOLEAN /\ (~drift => Cared /\ Housed /\ Spared) /\ Exists(m)
    BY WorkerIs DEF WriterAt, SameVersion
  <1>2. PICK q : q = Synced(writer[w])
    OBVIOUS
  <1>3. /\ q \in Writer /\ Formed(w, q) /\ q.pc \in {"idle", "save", "member"} /\ q.left = writer[w].left
        /\ q.order = Nobody /\ q.previous = Nobody
        /\ writer[w].previous \notin {Nobody, m} => q.pc = "member" /\ q.member = writer[w].previous
    BY <1>1, <1>2, SyncedFits DEF Syncing
  <1>4. /\ Script \in Everyone /\ writer[Script].pc = "idle" /\ Formed(Script, writer[Script])
        /\ \A n \in Members : member'[n] = IF n = m THEN d ELSE member[n]
        /\ writer \in [Everyone -> Writer] /\ Nobody \notin Members
    BY <1>1, MembersAssumption DEF WholeInv, MembersTypeOK, Everyone, WriterAt
  <1>5. writer' = [x \in Everyone |-> IF x = w THEN q
                                      ELSE IF writer[x].member = m THEN [writer[x] EXCEPT !.fresh = FALSE] ELSE writer[x]]
    BY <1>2 DEF Written
  <1>6. \A x \in Everyone \ {w} :
           /\ writer'[x] \in Writer /\ writer[x] \in Writer
           /\ writer'[x].pc = writer[x].pc /\ writer'[x].left = writer[x].left /\ writer'[x].given = writer[x].given /\ writer'[x].order = writer[x].order
           /\ writer'[x].phone = writer[x].phone /\ writer'[x].previous = writer[x].previous
           /\ writer'[x].member = writer[x].member /\ writer'[x].fields = writer[x].fields
           /\ writer[x].member = m => writer'[x].fresh = FALSE
           /\ writer[x].member # m => writer'[x] = writer[x]
    <2> TAKE x \in Everyone \ {w}
    <2>1. writer[x] \in Writer
      BY <1>4
    <2>2. CASE writer[x].member # m
      BY <1>5, <2>1, <2>2
    <2>3. CASE writer[x].member = m
      <3>1. PICK r : r = [writer[x] EXCEPT !.fresh = FALSE]
        OBVIOUS
      <3>2. /\ r \in Writer /\ r.pc = writer[x].pc /\ r.left = writer[x].left /\ r.order = writer[x].order
            /\ r.phone = writer[x].phone /\ r.given = writer[x].given /\ r.previous = writer[x].previous
            /\ r.member = writer[x].member /\ r.fields = writer[x].fields /\ r.fresh = FALSE
        BY <2>1, <3>1 DEF Writer
      <3>3. writer'[x] = r
        BY <1>5, <2>3, <3>1
      <3> QED
        BY <2>1, <2>3, <3>2, <3>3
    <2> QED
      BY <2>2, <2>3
  <1>7. writer'[w] = q /\ writer' \in [Everyone -> Writer]
    BY <1>1, <1>3, <1>5, <1>6
  <1>8. MembersTypeOK'
    BY <1>7 DEF WholeInv, MembersTypeOK
  <1>9. /\ \A n \in Members \ {m} : Exists(n)' = Exists(n)
        /\ \A n : Linked(n)' = Linked(n) /\ PictureOf(n)' = PictureOf(n)
        /\ \A n \in Members \ {m} : Right(n)' = Right(n)
    <2>1. \A n : Linked(n)' = Linked(n)
      BY DEF Linked
    <2>2. \A n : PictureOf(n)' = PictureOf(n)
      BY <2>1 DEF PictureOf
    <2> QED
      BY <1>4, <2>1, <2>2 DEF Exists, Right
  <1>10. Exists(m)' => writer[w].pc = "write" /\ member'[m].phone = member[m].phone
    BY <1>4 DEF Exists
  <1>11. \A x \in Everyone : Formed(x, writer[x])'
    <2>1. \A x \in Everyone \ {w} : Formed(x, writer'[x])
      BY <1>6 DEF WholeInv, Formed
    <2> QED
      BY <1>3, <1>7, <2>1 DEF Formed
  <1>12. \A x \in Everyone : Aware(writer[x])'
    <2>1. ASSUME NEW x \in Everyone \ {w} PROVE Aware(writer[x])'
      <3>1. Aware(writer[x]) /\ Formed(x, writer[x])
        BY DEF WholeInv
      <3>2. CASE writer[x].member = m
        <4>1. ~SameVersion(writer[x])'
          BY <1>6, <3>2 DEF SameVersion
        <4>2. Exists(m)' => Exists(m) /\ member'[m].phone = member[m].phone
          BY <1>1, <1>10
        <4> QED
          BY <1>6, <3>1, <3>2, <4>1, <4>2 DEF Aware
      <3>3. CASE writer[x].member # m
        <4>1. writer'[x] = writer[x] /\ (writer[x].member \in Members => member'[writer[x].member] = member[writer[x].member])
          BY <1>4, <1>6, <3>3
        <4>2. writer[x].member \in Members => SameVersion(writer[x])' = SameVersion(writer[x])
                                              /\ Exists(writer[x].member)' = Exists(writer[x].member)
          BY <4>1 DEF SameVersion, Exists
        <4> QED
          BY <3>1, <4>1, <4>2 DEF Aware, Formed, Syncing
      <3> QED
        BY <3>2, <3>3
    <2>2. Aware(writer[w])'
      BY <1>3, <1>7 DEF Aware
    <2> QED
      BY <2>1, <2>2
  <1>13. OwnOrders'
    <2>1. \A x \in Writers : OrdersOf(writer'[x]) \subseteq OrdersOf(writer[x]) /\ writer'[x].left = writer[x].left
                             /\ writer'[x].order \in {Nobody, writer[x].order} /\ writer[x].left \subseteq Created
      <3>1. \A x \in Writers : writer'[x].left = writer[x].left /\ writer'[x].order \in {Nobody, writer[x].order}
        BY <1>3, <1>6, <1>7 DEF Everyone
      <3>2. \A x \in Writers : writer[x].left \subseteq Created
        BY <1>4 DEF Everyone, Writer
      <3> QED
        BY <3>1, <3>2, MembersAssumption DEF OrdersOf
    <2>2. \A x \in Writers : OrdersOf(writer[x])' = OrdersOf(writer'[x])
      BY DEF OrdersOf
    <2>3. \A x \in Created : Placed(x)' = Placed(x)
      BY DEF Placed
    <2> QED
      BY <2>1, <2>2, <2>3, MembersAssumption DEF WholeInv, OwnOrders, OrdersOf
  <1>14. \A x \in Created : Placed(x)' \/ purchase'[x].link = Nobody
    BY DEF WholeInv, Placed
  <1>15. ~On' /\ WriterAt(Script, "idle")'
    BY <1>1, <1>4, <1>6 DEF On, WriterAt
  <1>16. OneMemberPerPhone'
    BY <1>4, <1>9, <1>10, <1>1 DEF WholeInv, OneMemberPerPhone, Exists
  <1>17. ASSUME ~drift' PROVE Cared' /\ Housed' /\ Spared'
    <2>1. Cared /\ Housed /\ Spared
      BY <1>1, <1>17
    <2>2. ASSUME NEW n \in Members \ {m}, NEW x \in Writers \ {w}
          PROVE  /\ Outdated(writer[x], n)' = Outdated(writer[x], n)
                 /\ Owes(writer[x], n)' = Owes(writer[x], n)
      <3>1. x \in Everyone \ {w}
        BY DEF Everyone
      <3>2. Outdated(writer[x], n)' = Outdated(writer[x], n)
        <4>1. CASE writer[x].member = n
          BY <1>6, <1>9, <3>1, <4>1 DEF Outdated, SameVersion
        <4>2. CASE writer[x].member # n
          BY <1>6, <3>1, <4>2 DEF Outdated
        <4> QED
          BY <4>1, <4>2
      <3> QED
        BY <1>6, <3>1, <3>2 DEF Owes
    <2>3. \A x \in Writers : ~Outdated(writer[x], m)'
      <3>1. ~Outdated(writer[w], m)'
        BY <1>3, <1>7 DEF Outdated
      <3>2. ASSUME NEW x \in Writers \ {w} PROVE ~Outdated(writer[x], m)'
        BY <1>6 DEF Outdated, SameVersion, Everyone
      <3> QED
        BY <3>1, <3>2
    <2>4. ASSUME NEW x \in Writers \ {w}, Owes(writer[x], m) PROVE Owes(writer[x], m)'
      <3>1. x \in Everyone \ {w}
        BY DEF Everyone
      <3> QED
        BY <1>6, <2>3, <2>4, <3>1 DEF Owes
    <2>5. ASSUME NEW n \in Members, Exists(n)' PROVE RightForGood(n)' \/ \E x \in Writers : Owes(writer[x], n)'
      <3>1. CASE n # m
        <4>1. RightForGood(n) \/ \E x \in Writers : Owes(writer[x], n)
          BY <1>9, <2>1, <2>5, <3>1 DEF Cared
        <4>2. ~Outdated(writer[w], n)'
          BY <1>3, <1>7 DEF Outdated
        <4>3. Owes(writer[w], n) => Owes(writer[w], n)'
          BY <1>3, <1>4, <1>7, <3>1 DEF Owes, Syncing
        <4> QED
          BY <1>9, <2>2, <3>1, <4>1, <4>2, <4>3 DEF RightForGood
      <3>2. CASE n = m /\ ~Outdated(writer[w], m)
        <4>1. Linked(m) # {} /\ d.fields = PictureOf(m)
          BY <1>10, <2>5, <3>2 DEF Outdated
        <4>2. Right(n)'
          BY <1>4, <1>9, <3>2, <4>1 DEF Right
        <4> QED
          BY <2>3, <3>2, <4>2 DEF RightForGood
      <3>3. CASE n = m /\ Outdated(writer[w], m)
        <4>1. writer[w].pc = "write"
          BY <1>10, <2>5, <3>3
        <4>2. ~RightForGood(m) /\ ~Owes(writer[w], m)
          BY <1>1, <3>3, <4>1 DEF RightForGood, Owes, Syncing
        <4>3. PICK x \in Writers \ {w} : Owes(writer[x], m)
          BY <1>1, <2>1, <4>2 DEF Cared
        <4> QED
          BY <2>4, <3>3, <4>3
      <3> QED
        BY <3>1, <3>2, <3>3
    <2>6. Housed'
      <3> SUFFICES ASSUME NEW x \in Created, Placed(x)' PROVE Home(x)' \/ \E y \in Writers : (writer[y].order = x)'
        BY DEF Housed
      <3>0. \A y \in Writers \ {w} : writer'[y].order = writer[y].order
        BY <1>6 DEF Everyone
      <3>1. CASE purchase[x].link = m /\ writer[w].pc = "remove"
        <4>1. PICK y \in Writers : writer[y].order = x /\ writer[y].pc \in Syncing
          BY <2>1, <3>1 DEF Spared, Removing, Linked
        <4>2. y # w
          BY <1>1, <3>1, <4>1, MembersAssumption DEF Aware
        <4> QED
          BY <3>0, <4>1, <4>2
      <3>2. CASE ~(purchase[x].link = m /\ writer[w].pc = "remove")
        <4>1. Home(x) => Home(x)'
          BY <1>4, <3>2 DEF Home
        <4>2. writer[w].order = x => Home(x)
          BY <1>1, MembersAssumption DEF Home, Aware, Syncing
        <4>3. Home(x) \/ \E y \in Writers : writer[y].order = x
          BY <2>1 DEF Housed, Placed
        <4> QED
          BY <3>0, <4>1, <4>2, <4>3
      <3> QED
        BY <3>1, <3>2
    <2>7. Spared'
      <3> SUFFICES ASSUME NEW x \in Writers, Removing(writer[x])', NEW y \in Linked(writer[x].member)'
                   PROVE  \E z \in Writers : (writer[z].order = y /\ writer[z].pc \in Syncing)'
        BY DEF Spared
      <3>1. x # w /\ x \in Everyone
        BY <1>3, <1>7 DEF Removing, Everyone
      <3>2. writer[x].member # m
        BY <1>6, <3>1 DEF Removing, SameVersion
      <3>3. writer'[x] = writer[x] /\ writer[x].member \in Members /\ y \in Created /\ purchase[y].link = writer[x].member
        BY <1>6, <3>1, <3>2 DEF Removing, WholeInv, Formed, Syncing, Linked
      <3>4. Removing(writer[x]) /\ y \in Linked(writer[x].member)
        BY <1>9, <3>2, <3>3 DEF Removing, SameVersion
      <3>5. PICK z \in Writers : writer[z].order = y /\ writer[z].pc \in Syncing
        BY <2>1, <3>4 DEF Spared
      <3>6. z # w
        BY <1>1, <3>2, <3>3, <3>5, MembersAssumption DEF Aware
      <3> QED
        BY <1>6, <3>5, <3>6 DEF Everyone
    <2> QED
      BY <2>5, <2>6, <2>7 DEF Cared
  <1> QED
    BY <1>8, <1>11, <1>12, <1>13, <1>14, <1>15, <1>16, <1>17 DEF WholeInv

LEMMA MemberIsWritten ==
    ASSUME WholeInv, NEW w \in Writers, WriteMember(w)
    PROVE  WholeInv'
  <1>1. writer[w].pc = "write" /\ UNCHANGED purchase
    BY DEF WriteMember, WriterAt
  <1>2. CASE ~SameVersion(writer[w]) /\ Again(w) /\ UNCHANGED member
    BY <1>1, <1>2, AgainKeeps
  <1>3. CASE /\ SameVersion(writer[w])
             /\ member' = [member EXCEPT ![writer[w].member].fields = writer[w].fields]
             /\ Written(w) /\ UNCHANGED <<script, drift>>
    <2>1. PICK m \in Members : m = writer[w].member
      BY <1>1, WorkerIs DEF WriterAt, Formed, Syncing
    <2>2. writer[w].fields \in Fields /\ member[m] \in [phone: Phones \cup {Nobody}, fields: Fields]
      BY <1>1, WorkerIs DEF WriterAt, Writer, WholeInv, MembersTypeOK
    <2>3. PICK d : d = [member[m] EXCEPT !.fields = writer[w].fields]
      OBVIOUS
    <2>4. d \in [phone: Phones \cup {Nobody}, fields: Fields] /\ d.phone = member[m].phone /\ d.fields = writer[w].fields
      BY <2>2, <2>3
    <2>5. member' = [member EXCEPT ![m] = d]
      BY <1>3, <2>1, <2>3 DEF WholeInv, MembersTypeOK
    <2> QED
      BY <1>1, <1>3, <2>1, <2>4, <2>5, MemberMoves
  <1> QED
    BY <1>2, <1>3 DEF WriteMember

LEMMA MemberIsRemoved ==
    ASSUME WholeInv, NEW w \in Writers, RemoveMember(w)
    PROVE  WholeInv'
  <1>1. writer[w].pc = "remove" /\ UNCHANGED purchase
    BY DEF RemoveMember, WriterAt
  <1>2. CASE ~SameVersion(writer[w]) /\ Again(w) /\ UNCHANGED member
    BY <1>1, <1>2, AgainKeeps
  <1>3. CASE /\ SameVersion(writer[w]) /\ member' = [member EXCEPT ![writer[w].member] = NoMember]
             /\ Written(w) /\ UNCHANGED <<script, drift>>
    <2>1. PICK m \in Members : m = writer[w].member
      BY <1>1, WorkerIs DEF WriterAt, Formed, Syncing
    <2>2. PICK d : d = NoMember
      OBVIOUS
    <2>3. NoFields \in Fields
      BY RestingIs DEF Resting, Writer
    <2>4. d \in [phone: Phones \cup {Nobody}, fields: Fields] /\ d.phone = Nobody
      BY <2>2, <2>3 DEF NoMember
    <2> QED
      BY <1>1, <1>3, <2>1, <2>2, <2>4, MemberMoves
  <1> QED
    BY <1>2, <1>3 DEF RemoveMember

-----------------------------------------------------------------------------
\* The script goes on, or ends.
LEMMA ScriptMoves ==
    ASSUME WholeInv, \A w \in Writers : writer[w].pc = "idle" /\ writer'[w] = writer[w],
           MembersTypeOK', OneMemberPerPhone', Formed(Script, writer'[Script]), Aware(writer[Script])',
           \A o \in Created : /\ purchase'[o].phone = purchase[o].phone
                              /\ Placed(o) \/ purchase'[o].link = Nobody,
           On' => (ScriptStands /\ Repairing /\ Idempotent)',
           ~On' => writer'[Script].pc = "idle" /\ (~drift' => EverythingMatches')
    PROVE  WholeInv'
  <1>1. \A w \in Writers : writer[w].order = Nobody /\ writer[w].left = {} /\ w \in Everyone
    BY MembersAssumption DEF WholeInv, Everyone, Formed
  <1>2. \A w \in Everyone : Formed(w, writer[w])' /\ Aware(writer[w])'
    <2>1. \A w \in Writers : Formed(w, writer'[w]) /\ Aware(writer[w])'
      BY <1>1 DEF WholeInv, Aware
    <2> QED
      BY <2>1 DEF Everyone, Formed
  <1>3. OwnOrders'
    <2>1. \A w \in Writers : writer'[w].order = Nobody /\ writer'[w].left = {}
      BY <1>1
    <2> QED
      BY <2>1, MembersAssumption DEF OwnOrders, OrdersOf
  <1>4. \A o \in Created : Placed(o)' \/ purchase'[o].link = Nobody
    BY DEF Placed
  <1>5. ASSUME ~On', ~drift' PROVE Cared' /\ Housed' /\ Spared'
    <2>1. Cared'
      BY <1>5 DEF Cared, EverythingMatches, RightForGood, Right, Outdated
    <2>2. Housed'
      BY <1>5 DEF Housed, EverythingMatches, Home
    <2>3. Spared'
      BY DEF Spared, Removing
    <2> QED
      BY <2>1, <2>2, <2>3
  <1> QED
    BY <1>2, <1>3, <1>4, <1>5 DEF WholeInv, WriterAt

\* Where the script is while it runs.
LEMMA RunIs ==
    ASSUME WholeInv, On
    PROVE  /\ ScriptStands /\ Repairing /\ Idempotent
           /\ Script \in Everyone /\ writer[Script] \in Writer /\ Formed(Script, writer[Script])
           /\ Aware(writer[Script]) /\ writer[Script].order = Nobody /\ writer[Script].left = {}
           /\ writer[Script].previous = Nobody /\ script \in Backfill /\ drift \in BOOLEAN
           /\ \A w \in Writers : writer[w].pc = "idle" /\ writer[w].member = Nobody /\ w # Script /\ w \in Everyone
  <1>1. Script \in Everyone /\ \A w \in Writers : w \in Everyone /\ w # Script
    BY MembersAssumption DEF Everyone
  <1>2. writer[Script] \in Writer /\ script \in Backfill /\ drift \in BOOLEAN
    BY <1>1 DEF WholeInv, MembersTypeOK
  <1>3. \A w \in Writers : writer[w].pc = "idle" /\ writer[w].member = Nobody
    BY <1>1 DEF WholeInv, ScriptStands, WriterAt, Formed
  <1>4. Formed(Script, writer[Script]) /\ Aware(writer[Script])
    BY <1>1 DEF WholeInv
  <1> QED
    BY <1>1, <1>2, <1>3, <1>4 DEF WholeInv, Formed

LEMMA ScriptRuns ==
    ASSUME WholeInv, ~WriterAt(Script, "idle")
    PROVE  On
  BY DEF WholeInv

LEMMA ScriptFrame ==
    ASSUME UNCHANGED <<purchase, member>>
    PROVE  /\ EverythingMatches' = EverythingMatches
           /\ script'.seen = script.seen => \A p : InGroup(p)' = InGroup(p) /\ Known(p)' = Known(p)
  <1>1. \A o \in Created : Placed(o)' = Placed(o)
    BY Frame
  <1>2. \A m \in Members : Exists(m)' = Exists(m) /\ Linked(m)' = Linked(m) /\ PictureOf(m)' = PictureOf(m)
    BY Frame
  <1>3. EverythingMatches' = EverythingMatches
    BY <1>1, <1>2 DEF EverythingMatches
  <1> QED
    BY <1>3 DEF InGroup, Known

LEMMA BackfillStarts ==
    ASSUME WholeInv, Quiet, StartBackfill
    PROVE  WholeInv'
  <1>1. /\ script.phase = "off" /\ writer[Script].pc = "idle" /\ UNCHANGED <<purchase, member, writer, drift>>
        /\ \A w \in Writers : writer[w].pc = "idle"
        /\ script' = [phase |-> "existing", seen |-> purchase, sweep |-> {}, moved |-> FALSE,
                      left |-> {purchase[o].phone : o \in {x \in Created : Placed(x)}}]
    BY DEF StartBackfill, ScriptAt, WriterAt
  <1>2. /\ purchase \in [Created -> Purchase] /\ ~On /\ Script \in Everyone /\ drift \in BOOLEAN
        /\ \A w \in Writers : w \in Everyone /\ writer[w].order = Nobody
        /\ Formed(Script, writer[Script])
    BY <1>1, MembersAssumption DEF WholeInv, MembersTypeOK, On, Everyone, Formed
  <1>3. {purchase[o].phone : o \in {x \in Created : Placed(x)}} \in SUBSET Phones
    BY <1>2 DEF Placed, Purchase
  <1>4. script' \in Backfill
    BY <1>1, <1>2, <1>3 DEF Backfill
  <1>5. /\ script'.phase = "existing" /\ script'.seen = purchase /\ script'.moved = FALSE
        /\ script'.left = {purchase[o].phone : o \in {x \in Created : Placed(x)}} /\ On'
    BY <1>1 DEF On
  <1>6. MembersTypeOK'
    BY <1>1, <1>4 DEF WholeInv, MembersTypeOK
  <1>7. ScriptStands'
    <2>1. \A p \in script'.left : Known(p)'
      BY <1>1, <1>5 DEF Known
    <2>2. \A o \in Created : Placed(o)' => script'.seen[o].phone \in script'.left
      BY <1>1, <1>5 DEF Placed
    <2> QED
      BY <1>1, <1>5, <2>1, <2>2 DEF ScriptStands, Linking, WriterAt
  <1>8. Repairing'
    BY <1>5 DEF Repairing
  <1>9. Idempotent'
    <2>1. ASSUME ~drift PROVE EverythingMatches
      <3>1. Cared /\ Housed
        BY <1>2, <2>1 DEF WholeInv
      <3>2. \A m \in Members : Exists(m) => Right(m)
        BY <1>1, <3>1 DEF Cared, Owes, RightForGood, Syncing
      <3>3. \A o \in Created : Placed(o) => Home(o)
        BY <1>2, <3>1, MembersAssumption DEF Housed
      <3> QED
        BY <3>2, <3>3 DEF EverythingMatches, Right, Home
    <2> QED
      BY <1>1, <1>5, <2>1, ScriptFrame DEF Idempotent
  <1>10. OneMemberPerPhone' /\ Aware(writer[Script])' /\ Formed(Script, writer'[Script])
    BY <1>1, <1>2, Frame DEF WholeInv
  <1>11. \A o \in Created : purchase'[o].phone = purchase[o].phone /\ (Placed(o) \/ purchase'[o].link = Nobody)
    BY <1>1 DEF WholeInv
  <1> QED
    BY <1>1, <1>5, <1>6, <1>7, <1>8, <1>9, <1>10, <1>11, ScriptMoves

\* A step of the script that changes no order and no member.
LEMMA ScriptGoes ==
    ASSUME WholeInv, On, NEW q \in Writer, writer' = [writer EXCEPT ![Script] = q],
           script' \in Backfill, UNCHANGED <<purchase, member>>, drift' \in BOOLEAN,
           Formed(Script, q), Aware(q),
           On' => (ScriptStands /\ Repairing /\ Idempotent)',
           ~On' => q.pc = "idle" /\ (~drift' => EverythingMatches)
    PROVE  WholeInv'
  <1>1. Script \in Everyone /\ \A w \in Writers : writer[w].pc = "idle" /\ w # Script /\ w \in Everyone
    BY RunIs
  <1>2. writer \in [Everyone -> Writer] /\ purchase \in [Created -> Purchase]
        /\ member \in [Members -> [phone: Phones \cup {Nobody}, fields: Fields]]
    BY DEF WholeInv, MembersTypeOK
  <1>3. writer'[Script] = q /\ \A w \in Writers : writer'[w] = writer[w]
    BY <1>1, <1>2
  <1>4. MembersTypeOK'
    BY <1>1, <1>2 DEF MembersTypeOK
  <1>5. OneMemberPerPhone' /\ Aware(writer[Script])'
    <2>1. Aware(q)' = Aware(q)
      BY Frame
    <2>2. Aware(writer[Script])' = Aware(q)'
      BY <1>3 DEF Aware, SameVersion, Exists
    <2> QED
      BY <2>1, <2>2, Frame DEF WholeInv
  <1>6. \A o \in Created : purchase'[o].phone = purchase[o].phone /\ (Placed(o) \/ purchase'[o].link = Nobody)
    BY DEF WholeInv
  <1>7. EverythingMatches' = EverythingMatches
    BY ScriptFrame
  <1> QED
    BY <1>1, <1>3, <1>4, <1>5, <1>6, <1>7, ScriptMoves

LEMMA ExistingAreRead ==
    ASSUME WholeInv, ReadExisting
    PROVE  WholeInv'
  <1>1. /\ script.phase = "existing" /\ writer[Script].pc = "idle" /\ UNCHANGED <<purchase, member, writer, drift>>
        /\ script' = [script EXCEPT !.phase = "groups", !.sweep = {m \in Members : Exists(m)}] /\ On
    BY DEF ReadExisting, ScriptAt, WriterAt, On
  <1>2. /\ ScriptStands /\ Idempotent /\ Script \in Everyone /\ writer[Script] \in Writer /\ Formed(Script, writer[Script])
        /\ Aware(writer[Script]) /\ script \in Backfill /\ drift \in BOOLEAN
    BY <1>1, RunIs
  <1>3. /\ script'.phase = "groups" /\ script'.sweep = {m \in Members : Exists(m)} /\ script'.seen = script.seen
        /\ script'.left = script.left /\ script'.moved = script.moved /\ script' \in Backfill /\ On'
    BY <1>1, <1>2 DEF Backfill, On
  <1>4. \A p : InGroup(p)' = InGroup(p) /\ Known(p)' = Known(p)
    BY <1>1, <1>3, ScriptFrame
  <1>5. ScriptStands'
    <2>1. \A p : Ahead(p)' = Ahead(p)
      BY <1>1, <1>3 DEF Ahead, Linking
    <2> QED
      BY <1>1, <1>2, <1>3, <1>4, <2>1 DEF ScriptStands, Linking, WriterAt
  <1>6. Repairing'
    <2>1. \A p \in Phones : Known(p) => p \in script.left
      BY <1>1, <1>2, MembersAssumption DEF Known, ScriptStands, Placed
    <2>2. \A p \in Phones : Known(p)' => Ahead(p)'
      BY <1>3, <1>4, <2>1 DEF Ahead
    <2>3. \A m \in Members : Exists(m)' => m \in script'.sweep
      BY <1>1, <1>3, Frame
    <2> QED
      BY <2>2, <2>3 DEF Repairing
  <1>7. Idempotent'
    BY <1>1, <1>2, <1>3, ScriptFrame DEF Idempotent
  <1>8. writer' = [writer EXCEPT ![Script] = writer[Script]]
    BY <1>1, <1>2 DEF WholeInv, MembersTypeOK
  <1> QED
    BY <1>1, <1>2, <1>3, <1>5, <1>6, <1>7, <1>8, ScriptGoes

LEMMA GroupIsBegun ==
    ASSUME WholeInv, NEW p \in Phones, BackfillGroup(p)
    PROVE  WholeInv'
  <1>1. /\ script.phase = "groups" /\ writer[Script].pc = "idle" /\ UNCHANGED <<purchase, member, drift>>
        /\ script' = [script EXCEPT !.left = @ \ {p}] /\ On /\ p \in script.left
        /\ writer' = [writer EXCEPT ![Script] = [Resting EXCEPT !.pc = "find", !.phone = p]]
    BY DEF BackfillGroup, ScriptAt, WriterAt, On, Go
  <1>2. /\ ScriptStands /\ Repairing /\ Idempotent /\ Script \in Everyone /\ script \in Backfill /\ drift \in BOOLEAN
        /\ \A w \in Writers : w \in Everyone /\ w # Script
    BY <1>1, RunIs
  <1>3. /\ script'.phase = "groups" /\ script'.left = script.left \ {p} /\ script'.seen = script.seen
        /\ script'.sweep = script.sweep /\ script'.moved = script.moved /\ script' \in Backfill /\ On'
    BY <1>1, <1>2 DEF Backfill, On
  <1>4. PICK q : q = [Resting EXCEPT !.pc = "find", !.phone = p]
    OBVIOUS
  <1>5. q \in Writer /\ q.pc = "find" /\ q.phone = p /\ q.member = Nobody /\ q.order = Nobody /\ q.left = {} /\ q.previous = Nobody
    BY <1>4, RestingIs DEF Writer, SyncPc
  <1>6. writer'[Script] = q /\ \A w \in Writers : writer'[w] = writer[w]
    BY <1>1, <1>2, <1>4 DEF WholeInv, MembersTypeOK
  <1>7. Formed(Script, q) /\ Aware(q)
    BY <1>5, MembersAssumption DEF Formed, Aware, Syncing
  <1>8. \A r : InGroup(r)' = InGroup(r) /\ Known(r)' = Known(r)
    BY <1>1, <1>3, ScriptFrame
  <1>9. \A r : Ahead(r)' = Ahead(r)
    BY <1>1, <1>3, <1>5, <1>6 DEF Ahead, Linking
  <1>10. ScriptStands'
    BY <1>1, <1>2, <1>3, <1>5, <1>6, <1>8, <1>9 DEF ScriptStands, Linking, WriterAt
  <1>11. Repairing'
    <2>1. \A m : At(m)' = At(m) /\ Right(m)' = Right(m) /\ Exists(m)' = Exists(m)
      BY <1>1, <1>5, <1>6, Frame DEF At, Syncing
    <2>2. \A r : GroupDone(r)' = GroupDone(r)
      BY <1>1, <1>8, <2>1 DEF GroupDone
    <2> QED
      BY <1>1, <1>2, <1>3, <1>8, <1>9, <2>1, <2>2 DEF Repairing
  <1>12. Idempotent'
    BY <1>1, <1>2, <1>3, <1>5, <1>6, ScriptFrame DEF Idempotent
  <1> QED
    BY <1>1, <1>2, <1>3, <1>4, <1>5, <1>7, <1>10, <1>11, <1>12, ScriptGoes

LEMMA CurrentAreRead ==
    ASSUME WholeInv, ReadCurrent
    PROVE  WholeInv'
  <1> DEFINE S == {m \in script.sweep : ~ \E o \in Created : script.seen[o].phone \in Phones \cap {member[m].phone}}
  <1>1. /\ script.phase = "groups" /\ writer[Script].pc = "idle" /\ UNCHANGED <<purchase, member, writer, drift>>
        /\ script' = [script EXCEPT !.phase = "sweep", !.sweep = S] /\ On /\ script.left = {}
    BY DEF ReadCurrent, ScriptAt, WriterAt, On
  <1>2. /\ ScriptStands /\ Repairing /\ Idempotent /\ Script \in Everyone /\ writer[Script] \in Writer /\ Formed(Script, writer[Script])
        /\ Aware(writer[Script]) /\ script \in Backfill /\ drift \in BOOLEAN
    BY <1>1, RunIs
  <1>3. /\ script'.phase = "sweep" /\ script'.sweep = S /\ script'.seen = script.seen
        /\ script'.left = {} /\ script'.moved = script.moved /\ script' \in Backfill /\ On'
    BY <1>1, <1>2 DEF Backfill, On
  <1>4. \A p : InGroup(p)' = InGroup(p) /\ Known(p)' = Known(p)
    BY <1>1, <1>3, ScriptFrame
  <1>5. \A p : Ahead(p)' = Ahead(p)
    BY <1>1, <1>3 DEF Ahead, Linking
  <1>6. ScriptStands'
    BY <1>1, <1>2, <1>3, <1>4, <1>5 DEF ScriptStands, Linking, WriterAt
  <1>7. Repairing'
    <2>1. \A m : At(m)' = At(m) /\ Right(m)' = Right(m) /\ Exists(m)' = Exists(m)
      BY <1>1, Frame DEF At
    <2>2. \A r : GroupDone(r)' = GroupDone(r)
      BY <1>1, <1>4, <2>1 DEF GroupDone
    <2>3. \A m \in script.sweep : m \in S \/ Known(member[m].phone)
      BY DEF Known
    <2>4. ASSUME ~script.moved, NEW m \in Members, Exists(m) PROVE m \in S \/ Known(member[m].phone)
      BY <1>1, <1>2, <2>3, <2>4 DEF Repairing
    <2>5. ASSUME ~script.moved, NEW p \in Phones, Known(p), ~Ahead(p) PROVE GroupDone(p)
      BY <1>1, <1>2, <2>5 DEF Repairing
    <2> HIDE DEF S
    <2> QED
      BY <1>1, <1>3, <1>4, <1>5, <2>1, <2>2, <2>4, <2>5 DEF Repairing
  <1>8. Idempotent'
    BY <1>1, <1>2, <1>3, ScriptFrame DEF Idempotent
  <1>9. writer' = [writer EXCEPT ![Script] = writer[Script]]
    BY <1>1, <1>2 DEF WholeInv, MembersTypeOK
  <1> QED
    BY <1>1, <1>2, <1>3, <1>6, <1>7, <1>8, <1>9, ScriptGoes

LEMMA SweepIsBegun ==
    ASSUME WholeInv, NEW m \in Members, SweepMember(m)
    PROVE  WholeInv'
  <1>1. /\ script.phase = "sweep" /\ writer[Script].pc = "idle" /\ UNCHANGED <<purchase, member, drift>>
        /\ script' = [script EXCEPT !.sweep = @ \ {m}] /\ On
        /\ writer' = [writer EXCEPT ![Script] = [Resting EXCEPT !.pc = "member", !.member = m]]
    BY DEF SweepMember, ScriptAt, WriterAt, On, Go
  <1>2. /\ ScriptStands /\ Repairing /\ Idempotent /\ Script \in Everyone /\ script \in Backfill /\ drift \in BOOLEAN
        /\ \A w \in Writers : w \in Everyone /\ w # Script
    BY <1>1, RunIs
  <1>3. /\ script'.phase = "sweep" /\ script'.left = script.left /\ script'.seen = script.seen
        /\ script'.sweep = script.sweep \ {m} /\ script'.moved = script.moved /\ script' \in Backfill /\ On'
    BY <1>1, <1>2 DEF Backfill, On
  <1>4. PICK q : q = [Resting EXCEPT !.pc = "member", !.member = m]
    OBVIOUS
  <1>5. q \in Writer /\ q.pc = "member" /\ q.phone = Nobody /\ q.member = m /\ q.order = Nobody /\ q.left = {} /\ q.previous = Nobody
    BY <1>4, RestingIs DEF Writer, SyncPc
  <1>6. writer'[Script] = q /\ \A w \in Writers : writer'[w] = writer[w]
    BY <1>1, <1>2, <1>4 DEF WholeInv, MembersTypeOK
  <1>7. Formed(Script, q) /\ Aware(q)
    BY <1>5, MembersAssumption DEF Formed, Aware, Syncing
  <1>8. \A r : InGroup(r)' = InGroup(r) /\ Known(r)' = Known(r)
    BY <1>1, <1>3, ScriptFrame
  <1>9. \A r : Ahead(r)' = Ahead(r)
    BY <1>1, <1>3, <1>5, <1>6 DEF Ahead, Linking
  <1>10. ScriptStands'
    BY <1>1, <1>2, <1>3, <1>5, <1>6, <1>8, <1>9 DEF ScriptStands, Linking, WriterAt, Syncing
  <1>11. Repairing'
    <2>1. \A n : Right(n)' = Right(n) /\ Exists(n)' = Exists(n)
      BY Frame, <1>1
    <2>2. \A n : ~At(n) /\ (At(n)' <=> n = m)
      BY <1>1, <1>5, <1>6 DEF At, Syncing
    <2>3. \A r : GroupDone(r) => GroupDone(r)'
      BY <1>1, <1>8, <2>1, <2>2 DEF GroupDone
    <2> QED
      BY <1>1, <1>2, <1>3, <1>8, <1>9, <2>1, <2>2, <2>3 DEF Repairing
  <1>12. Idempotent'
    BY <1>1, <1>2, <1>3, <1>5, <1>6, ScriptFrame DEF Idempotent
  <1> QED
    BY <1>1, <1>2, <1>3, <1>4, <1>5, <1>7, <1>10, <1>11, <1>12, ScriptGoes

LEMMA NoBackfillIs == NoBackfill \in Backfill /\ NoBackfill.phase = "off"
  <1>1. NoPurchase \in Purchase
    BY MembersAssumption DEF NoPurchase, Purchase, Texts
  <1> QED
    BY <1>1 DEF NoBackfill, Backfill

\* A run that moved no order, or that began with everything right, leaves
\* everything right.
LEMMA BackfillEnds ==
    ASSUME WholeInv, BackfillDone
    PROVE  WholeInv'
  <1>1. /\ script.phase = "sweep" /\ writer[Script].pc = "idle" /\ UNCHANGED <<purchase, member, writer>>
        /\ script.sweep = {} /\ script' = NoBackfill /\ On /\ drift' = (drift /\ ~(Quiet /\ ~script.moved))
    BY DEF BackfillDone, ScriptAt, WriterAt, On
  <1>2. /\ ScriptStands /\ Repairing /\ Idempotent /\ Script \in Everyone /\ writer[Script] \in Writer /\ Formed(Script, writer[Script])
        /\ Aware(writer[Script]) /\ script \in Backfill /\ drift \in BOOLEAN
    BY <1>1, RunIs
  <1>3. script' \in Backfill /\ ~On' /\ drift' \in BOOLEAN
    BY <1>1, <1>2, NoBackfillIs DEF On
  <1>4. ASSUME ~script.moved PROVE EverythingMatches
    <2>1. \A p \in Phones : Known(p) => GroupDone(p)
      BY <1>1, <1>2, <1>4 DEF Repairing, Ahead, Linking, ScriptStands
    <2>2. \A m : ~At(m)
      BY <1>1 DEF At, Syncing
    <2>3. \A p \in Phones : Known(p) => \E m \in Members : /\ member[m].phone = p /\ Right(m)
                                                           /\ \A o \in InGroup(p) : purchase[o].link = m
      BY <2>1, <2>2 DEF GroupDone
    <2>4. ASSUME NEW o \in Created, Placed(o) PROVE Home(o)
      <3>1. purchase[o].phone \in Phones /\ Known(purchase[o].phone) /\ o \in InGroup(purchase[o].phone)
        BY <1>2, <2>4 DEF ScriptStands, Known, InGroup, Placed, WholeInv, MembersTypeOK, Purchase
      <3> QED
        BY <2>3, <3>1 DEF Home
    <2>5. ASSUME NEW m \in Members, Exists(m) PROVE Right(m)
      <3>1. member[m].phone \in Phones /\ Known(member[m].phone)
        BY <1>1, <1>2, <1>4, <2>2, <2>5 DEF Repairing, WholeInv, MembersTypeOK, Exists
      <3>2. PICK n \in Members : member[n].phone = member[m].phone /\ Right(n)
        BY <2>3, <3>1
      <3>3. n = m
        BY <2>5, <3>2 DEF WholeInv, OneMemberPerPhone
      <3> QED
        BY <3>2, <3>3
    <2> QED
      BY <2>4, <2>5 DEF EverythingMatches, Home, Right
  <1>5. ~drift' => EverythingMatches
    BY <1>1, <1>2, <1>4 DEF Idempotent
  <1>6. writer' = [writer EXCEPT ![Script] = writer[Script]]
    BY <1>1, <1>2 DEF WholeInv, MembersTypeOK
  <1> QED
    BY <1>1, <1>2, <1>3, <1>5, <1>6, ScriptGoes

LEMMA ScriptDies ==
    ASSUME WholeInv, WriterDies(Script)
    PROVE  WholeInv'
  <1>1. /\ UNCHANGED <<purchase, member>> /\ script' = NoBackfill /\ drift' = TRUE
        /\ writer' = [writer EXCEPT ![Script] = Resting] /\ On
    BY ScriptRuns DEF WriterDies, Go, On
  <1>2. Formed(Script, Resting) /\ Aware(Resting) /\ Resting \in Writer /\ Resting.pc = "idle"
    BY RestingIs DEF Formed, Aware, Syncing
  <1>3. script' \in Backfill /\ ~On'
    BY <1>1, NoBackfillIs DEF On
  <1> QED
    BY <1>1, <1>2, <1>3, ScriptGoes

\* Where the script is while it links a group.
LEMMA LinkingIs ==
    ASSUME WholeInv, Linking(writer[Script])
    PROVE  /\ On /\ script.phase = "groups" /\ writer[Script].phone \in Phones
           /\ Known(writer[Script].phone) /\ writer[Script].phone \notin script.left
           /\ \A m : ~At(m)
           /\ \A o \in InGroup(writer[Script].phone) :
                 /\ purchase[o].phone = writer[Script].phone /\ purchase[o].link = script.seen[o].link
                 /\ Placed(o)
  <1>1. On
    BY ScriptRuns DEF Linking, WriterAt
  <1>2. ScriptStands /\ script \in Backfill
    BY <1>1, RunIs
  <1>3. script.phase = "groups"
    BY <1>1, <1>2 DEF ScriptStands, Linking, Syncing, Backfill, On
  <1>4. \A m : ~At(m)
    BY DEF At, Linking, Syncing
  <1>5. writer[Script].phone \in Phones /\ Known(writer[Script].phone) /\ writer[Script].phone \notin script.left
    BY <1>2 DEF ScriptStands
  <1> QED
    BY <1>1, <1>2, <1>3, <1>4, <1>5, MembersAssumption DEF ScriptStands, InGroup, Ahead, Placed

\* The script found the member m of its group.
LEMMA ScriptFinds ==
    ASSUME WholeInv, writer[Script].pc \in {"find", "upsert"}, NEW m \in Owner(writer[Script].phone),
           writer' = [writer EXCEPT ![Script] = Found(Script, m)], UNCHANGED <<purchase, member, script, drift>>
    PROVE  WholeInv'
  <1>1. PICK p : p = writer[Script].phone
    OBVIOUS
  <1>2. /\ On /\ script.phase = "groups" /\ p \in Phones /\ Known(p) /\ p \notin script.left /\ \A n : ~At(n)
        /\ \A o \in InGroup(p) : purchase[o].phone = p /\ purchase[o].link = script.seen[o].link /\ Placed(o)
    BY <1>1, LinkingIs DEF Linking
  <1>3. /\ ScriptStands /\ Repairing /\ Idempotent /\ Script \in Everyone /\ writer[Script] \in Writer
        /\ Formed(Script, writer[Script]) /\ script \in Backfill /\ drift \in BOOLEAN
        /\ writer[Script].order = Nobody /\ writer[Script].left = {} /\ writer[Script].previous = Nobody
        /\ \A w \in Writers : w \in Everyone /\ w # Script
    BY <1>2, RunIs
  <1>4. m \in Members /\ member[m].phone = p
    BY <1>1 DEF Owner
  <1>5. PICK q : q = Found(Script, m)
    OBVIOUS
  <1>6. /\ q \in Writer /\ q.member = m /\ q.phone = p /\ q.order = Nobody /\ q.left = {} /\ q.previous = Nobody
        /\ q.pc = (IF \A o \in InGroup(p) : script.seen[o].link = m THEN "member" ELSE "link")
    <2>1. q = [writer[Script] EXCEPT !.pc = IF \A o \in InGroup(p) : script.seen[o].link = m THEN "member" ELSE "link",
                                     !.member = m]
      BY <1>1, <1>5 DEF Found, ToLink
    <2> QED
      BY <1>1, <1>3, <1>4, <2>1 DEF Writer, SyncPc
  <1>7. writer'[Script] = q /\ \A w \in Writers : writer'[w] = writer[w]
    BY <1>3, <1>5 DEF WholeInv, MembersTypeOK
  <1>8. Formed(Script, q) /\ Aware(q)
    BY <1>4, <1>6 DEF Formed, Aware, Syncing
  <1>9. \A r : InGroup(r)' = InGroup(r) /\ Known(r)' = Known(r)
    BY ScriptFrame
  <1>10. \A r : /\ Ahead(r)' => Ahead(r)
                /\ Ahead(r) => Ahead(r)' \/ (r = p /\ q.pc = "member")
    BY <1>1, <1>6, <1>7 DEF Ahead, Linking
  <1>11. ScriptStands'
    BY <1>2, <1>3, <1>4, <1>6, <1>7, <1>9, <1>10 DEF ScriptStands, Linking, WriterAt
  <1>12. On'
    BY <1>2 DEF On
  <1>13. Repairing'
    <2>1. \A n : Right(n)' = Right(n) /\ Exists(n)' = Exists(n)
      BY Frame
    <2>2. \A r : GroupDone(r) => GroupDone(r)'
      BY <1>2, <1>9, <2>1 DEF GroupDone
    <2>3. q.pc = "member" => GroupDone(p)'
      <3>1. q.pc = "member" => At(m)'
        BY <1>6, <1>7 DEF At, Syncing
      <3> QED
        BY <1>2, <1>4, <1>6, <1>9, <3>1 DEF GroupDone
    <2> QED
      BY <1>2, <1>3, <1>9, <1>10, <2>1, <2>2, <2>3 DEF Repairing
  <1>14. Idempotent'
    <2>1. ASSUME ~drift PROVE q.pc = "member"
      <3>1. EverythingMatches
        BY <1>3, <2>1 DEF Idempotent
      <3>2. ASSUME NEW o \in InGroup(p) PROVE purchase[o].link = m
        <4>1. o \in Created /\ Placed(o) /\ purchase[o].phone = p
          BY <1>2, <3>2 DEF InGroup
        <4>2. purchase[o].link \in Members /\ member[purchase[o].link].phone = p
          BY <3>1, <4>1 DEF EverythingMatches
        <4> QED
          BY <1>2, <1>4, <4>2, MembersAssumption DEF WholeInv, OneMemberPerPhone, Exists
      <3> QED
        BY <1>2, <1>6, <3>2
    <2> QED
      BY <1>3, <1>7, <2>1, ScriptFrame DEF Idempotent
  <1> QED
    BY <1>2, <1>3, <1>5, <1>6, <1>8, <1>11, <1>12, <1>13, <1>14, ScriptGoes

LEMMA GroupIsFound ==
    ASSUME WholeInv, FindMember(Script)
    PROVE  WholeInv'
  <1>1. writer[Script].pc = "find" /\ UNCHANGED <<purchase, member, script, drift>>
    BY DEF FindMember, WriterAt
  <1>2. CASE \E m \in Owner(writer[Script].phone) : Go(Script, Found(Script, m))
    BY <1>1, <1>2, ScriptFinds DEF Go
  <1>3. CASE Owner(writer[Script].phone) = {} /\ Go(Script, [writer[Script] EXCEPT !.pc = "upsert"])
    <2>1. PICK p : p = writer[Script].phone
      OBVIOUS
    <2>2. /\ On /\ script.phase = "groups" /\ p \in Phones /\ Known(p) /\ p \notin script.left /\ \A n : ~At(n)
          /\ \A o \in InGroup(p) : purchase[o].phone = p /\ purchase[o].link = script.seen[o].link /\ Placed(o)
      BY <1>1, <2>1, LinkingIs DEF Linking
    <2>3. /\ ScriptStands /\ Repairing /\ Idempotent /\ Script \in Everyone /\ writer[Script] \in Writer
          /\ Formed(Script, writer[Script]) /\ script \in Backfill /\ drift \in BOOLEAN
          /\ writer[Script].order = Nobody /\ writer[Script].left = {} /\ writer[Script].previous = Nobody
          /\ \A w \in Writers : w \in Everyone /\ w # Script
      BY <2>2, RunIs
    <2>4. PICK q : q = [writer[Script] EXCEPT !.pc = "upsert"]
      OBVIOUS
    <2>5. /\ q \in Writer /\ q.pc = "upsert" /\ q.phone = p /\ q.member = Nobody /\ q.order = Nobody /\ q.left = {}
          /\ q.previous = Nobody
      BY <1>1, <2>1, <2>3, <2>4 DEF Writer, SyncPc, Formed
    <2>6. writer'[Script] = q /\ (\A w \in Writers : writer'[w] = writer[w]) /\ writer' = [writer EXCEPT ![Script] = q]
      BY <1>3, <2>3, <2>4 DEF WholeInv, MembersTypeOK, Go
    <2>7. Formed(Script, q) /\ Aware(q)
      BY <2>3, <2>5 DEF Formed, Aware, Syncing
    <2>8. \A r : InGroup(r)' = InGroup(r) /\ Known(r)' = Known(r)
      BY <1>1, ScriptFrame
    <2>9. \A r : Ahead(r)' = Ahead(r)
      BY <1>1, <2>1, <2>5, <2>6 DEF Ahead, Linking
    <2>10. ScriptStands'
      BY <1>1, <2>2, <2>3, <2>5, <2>6, <2>8, <2>9 DEF ScriptStands, Linking, WriterAt
    <2>11. Repairing'
      <3>1. \A n : Right(n)' = Right(n) /\ Exists(n)' = Exists(n) /\ ~At(n) /\ ~At(n)'
        BY <1>1, <2>2, <2>5, <2>6, Frame DEF At, Syncing
      <3>2. \A r : GroupDone(r)' = GroupDone(r)
        BY <1>1, <2>8, <3>1 DEF GroupDone
      <3> QED
        BY <1>1, <2>2, <2>3, <2>8, <2>9, <3>1, <3>2 DEF Repairing
    <2>12. Idempotent'
      <3>1. ASSUME ~drift PROVE FALSE
        <4>1. PICK o \in Created : o \in InGroup(p)
          BY <2>2 DEF Known, InGroup
        <4>2. purchase[o].link \in Owner(p)
          BY <2>2, <2>3, <3>1, <4>1 DEF Idempotent, EverythingMatches, Owner
        <4> QED
          BY <1>3, <2>1, <4>2
      <3> QED
        BY <1>1, <3>1 DEF Idempotent
    <2>13. On'
      BY <1>1, <2>2 DEF On
    <2> QED
      BY <1>1, <2>2, <2>3, <2>5, <2>6, <2>7, <2>10, <2>11, <2>12, <2>13, ScriptGoes
  <1> QED
    BY <1>2, <1>3 DEF FindMember

\* The script made a member for its group: a run that found everything right
\* never does.
LEMMA GroupMemberIsNew ==
    ASSUME WholeInv, writer[Script].pc = "upsert", Owner(writer[Script].phone) = {}, NEW m \in Members, Unused(m),
           member' = [member EXCEPT ![m] = [NoMember EXCEPT !.phone = writer[Script].phone]],
           writer' = [writer EXCEPT ![Script] = Found(Script, m)], UNCHANGED <<purchase, script, drift>>
    PROVE  WholeInv'
  <1>1. PICK p : p = writer[Script].phone
    OBVIOUS
  <1>2. /\ On /\ script.phase = "groups" /\ p \in Phones /\ Known(p) /\ p \notin script.left /\ \A n : ~At(n)
        /\ \A o \in InGroup(p) : purchase[o].phone = p /\ purchase[o].link = script.seen[o].link /\ Placed(o)
    BY <1>1, LinkingIs DEF Linking
  <1>3. /\ ScriptStands /\ Repairing /\ Idempotent /\ Script \in Everyone /\ writer[Script] \in Writer
        /\ Formed(Script, writer[Script]) /\ script \in Backfill /\ drift \in BOOLEAN
        /\ writer[Script].order = Nobody /\ writer[Script].left = {} /\ writer[Script].previous = Nobody
        /\ \A w \in Writers : w \in Everyone /\ w # Script /\ writer[w].pc = "idle"
    BY <1>2, RunIs
  <1>4. drift
    BY <1>3 DEF Idempotent
  <1>5. PICK d : d = [NoMember EXCEPT !.phone = p]
    OBVIOUS
  <1>6. d \in [phone: Phones \cup {Nobody}, fields: Fields] /\ d.phone = p
    <2>1. NoFields \in Fields
      BY RestingIs DEF Resting, Writer
    <2> QED
      BY <1>2, <1>5, <2>1 DEF NoMember
  <1>7. /\ \A n \in Members : member'[n] = IF n = m THEN d ELSE member[n]
        /\ member' \in [Members -> [phone: Phones \cup {Nobody}, fields: Fields]]
    BY <1>1, <1>5, <1>6 DEF WholeInv, MembersTypeOK
  <1>8. PICK q : q = Found(Script, m)
    OBVIOUS
  <1>9. \E o \in InGroup(p) : script.seen[o].link # m
    <2>1. PICK o \in Created : o \in InGroup(p)
      BY <1>2 DEF Known, InGroup
    <2> QED
      BY <1>2, <2>1 DEF Unused, Linked
  <1>10. /\ q \in Writer /\ q.pc = "link" /\ q.member = m /\ q.phone = p /\ q.order = Nobody /\ q.left = {}
         /\ q.previous = Nobody
    <2>1. q = [writer[Script] EXCEPT !.pc = "link", !.member = m]
      BY <1>1, <1>8, <1>9 DEF Found, ToLink
    <2> QED
      BY <1>1, <1>3, <2>1 DEF Writer, SyncPc
  <1>11. writer'[Script] = q /\ (\A w \in Writers : writer'[w] = writer[w]) /\ writer' \in [Everyone -> Writer]
    BY <1>3, <1>8, <1>10 DEF WholeInv, MembersTypeOK
  <1>12. MembersTypeOK'
    BY <1>7, <1>11 DEF WholeInv, MembersTypeOK
  <1>13. OneMemberPerPhone'
    BY <1>1, <1>6, <1>7 DEF WholeInv, OneMemberPerPhone, Exists, Owner
  <1>14. Formed(Script, q) /\ Aware(writer[Script])'
    BY <1>10, <1>11 DEF Formed, Aware, Syncing
  <1>15. (\A r : InGroup(r)' = InGroup(r) /\ Known(r)' = Known(r) /\ Ahead(r)' = Ahead(r)) /\ On'
    BY <1>1, <1>2, <1>10, <1>11 DEF InGroup, Known, Ahead, Linking, On
  <1>16. ScriptStands'
    BY <1>2, <1>3, <1>6, <1>7, <1>10, <1>11, <1>15 DEF ScriptStands, Linking, WriterAt
  <1>17. Repairing'
    <2>1. \A n \in Members \ {m} : Exists(n)' = Exists(n) /\ Right(n)' = Right(n)
      <3>1. \A n : Linked(n)' = Linked(n)
        BY DEF Linked
      <3>2. \A n : PictureOf(n)' = PictureOf(n)
        BY <3>1 DEF PictureOf
      <3> QED
        BY <1>7, <3>1, <3>2 DEF Exists, Right
    <2>2. \A r \in Phones : GroupDone(r) => GroupDone(r)'
      <3> TAKE r \in Phones
      <3>1. HAVE GroupDone(r)
      <3>2. PICK n \in Members : /\ member[n].phone = r /\ (\A o \in InGroup(r) : purchase[o].link = n)
                                 /\ Right(n)
        BY <1>2, <3>1 DEF GroupDone
      <3>3. n # m
        BY <3>2, MembersAssumption DEF Unused, Exists
      <3> QED
        BY <1>7, <1>15, <2>1, <3>2, <3>3 DEF GroupDone
    <2> QED
      BY <1>2, <1>3, <1>6, <1>7, <1>15, <2>1, <2>2 DEF Repairing
  <1>18. Idempotent'
    BY <1>4 DEF Idempotent
  <1>19. \A o \in Created : purchase'[o].phone = purchase[o].phone /\ (Placed(o) \/ purchase'[o].link = Nobody)
    BY DEF WholeInv
  <1> QED
    BY <1>3, <1>11, <1>12, <1>13, <1>10, <1>14, <1>15, <1>16, <1>17, <1>18, <1>19, ScriptMoves

LEMMA GroupIsUpserted ==
    ASSUME WholeInv, UpsertMember(Script)
    PROVE  WholeInv'
  <1>1. writer[Script].pc = "upsert" /\ UNCHANGED <<purchase, script, drift>>
    BY DEF UpsertMember, WriterAt
  <1>2. CASE \E m \in Owner(writer[Script].phone) : Go(Script, Found(Script, m)) /\ UNCHANGED member
    BY <1>1, <1>2, ScriptFinds DEF Go
  <1>3. CASE /\ Owner(writer[Script].phone) = {}
             /\ \E m \in Members :
                   /\ Unused(m)
                   /\ member' = [member EXCEPT ![m] = [NoMember EXCEPT !.phone = writer[Script].phone]]
                   /\ Go(Script, Found(Script, m))
    BY <1>1, <1>3, GroupMemberIsNew DEF Go
  <1> QED
    BY <1>2, <1>3 DEF UpsertMember

\* The script links its group.  An order it takes from no member changes no
\* other member's picture.
LEMMA GroupIsLinked ==
    ASSUME WholeInv, LinkOrder(Script)
    PROVE  WholeInv'
  <1>1. PICK p, m, S : p = writer[Script].phone /\ m = writer[Script].member /\ S = ToLink(Script, m)
    OBVIOUS
  <1>2. /\ writer[Script].pc = "link"
        /\ purchase' = [o \in Created |-> IF o \in S THEN [purchase[o] EXCEPT !.link = m] ELSE purchase[o]]
        /\ script' = LET from == {script.seen[o].link : o \in S} \ {Nobody}
                     IN  [script EXCEPT !.sweep = @ \cup from, !.moved = @ \/ from # {}]
        /\ writer' = [writer EXCEPT ![Script] = [writer[Script] EXCEPT !.pc = "member"]]
        /\ UNCHANGED <<member, drift>>
    BY <1>1 DEF LinkOrder, WriterAt, Go
  <1>3. /\ On /\ script.phase = "groups" /\ p \in Phones /\ Known(p) /\ p \notin script.left /\ \A n : ~At(n)
        /\ \A o \in InGroup(p) : purchase[o].phone = p /\ purchase[o].link = script.seen[o].link /\ Placed(o)
    BY <1>1, <1>2, LinkingIs DEF Linking
  <1>4. /\ ScriptStands /\ Repairing /\ Idempotent /\ Script \in Everyone /\ writer[Script] \in Writer
        /\ Formed(Script, writer[Script]) /\ script \in Backfill /\ drift \in BOOLEAN
        /\ writer[Script].order = Nobody /\ writer[Script].left = {} /\ writer[Script].previous = Nobody
        /\ \A w \in Writers : w \in Everyone /\ w # Script /\ writer[w].pc = "idle"
    BY <1>3, RunIs
  <1>5. drift /\ m \in Members /\ member[m].phone = p /\ S \subseteq InGroup(p) /\ \A o \in InGroup(p) \ S : purchase[o].link = m
    BY <1>1, <1>2, <1>3, <1>4 DEF Idempotent, Formed, ScriptStands, ToLink
  <1>6. PICK from : from = {script.seen[o].link : o \in S} \ {Nobody}
    OBVIOUS
  <1>7. from \subseteq Members /\ (from = {} => \A o \in S : purchase[o].link = Nobody)
    <2>1. \A o \in S : script.seen[o].link \in Members \cup {Nobody}
      BY <1>4, <1>5 DEF InGroup, Backfill, Purchase
    <2> QED
      BY <1>3, <1>5, <1>6, <2>1
  <1>8. /\ script' \in Backfill /\ script'.phase = "groups" /\ script'.seen = script.seen /\ script'.left = script.left
        /\ script'.sweep = script.sweep \cup from /\ script'.moved = (script.moved \/ from # {}) /\ On'
    <2>1. script' = [script EXCEPT !.sweep = @ \cup from, !.moved = @ \/ from # {}]
      BY <1>2, <1>6
    <2> QED
      BY <1>3, <1>4, <1>7, <2>1 DEF Backfill, On
  <1>9. PICK q : q = [writer[Script] EXCEPT !.pc = "member"]
    OBVIOUS
  <1>10. /\ q \in Writer /\ q.pc = "member" /\ q.member = m /\ q.phone = p /\ q.order = Nobody /\ q.left = {}
         /\ q.previous = Nobody
    BY <1>1, <1>4, <1>9 DEF Writer, SyncPc
  <1>11. writer'[Script] = q /\ (\A w \in Writers : writer'[w] = writer[w]) /\ writer' \in [Everyone -> Writer]
    BY <1>2, <1>4, <1>9, <1>10 DEF WholeInv, MembersTypeOK
  <1>12. /\ purchase' \in [Created -> Purchase]
         /\ \A o \in Created : /\ purchase'[o].phone = purchase[o].phone
                               /\ purchase'[o].link = (IF o \in S THEN m ELSE purchase[o].link)
                               /\ o \notin S => purchase'[o] = purchase[o]
    BY <1>2, <1>5 DEF WholeInv, MembersTypeOK, Purchase
  <1>13. MembersTypeOK'
    BY <1>2, <1>8, <1>11, <1>12 DEF WholeInv, MembersTypeOK
  <1>14. OneMemberPerPhone'
    BY <1>2 DEF WholeInv, OneMemberPerPhone, Exists
  <1>15. Formed(Script, q) /\ Aware(writer[Script])'
    BY <1>5, <1>10, <1>11 DEF Formed, Aware, Syncing
  <1>16. \A r : InGroup(r)' = InGroup(r) /\ Known(r)' = Known(r)
    BY <1>8 DEF InGroup, Known
  <1>17. \A r : /\ Ahead(r)' => Ahead(r) /\ r # p
                /\ Ahead(r) => Ahead(r)' \/ r = p
    BY <1>1, <1>3, <1>8, <1>10, <1>11 DEF Ahead, Linking
  <1>18. ScriptStands'
    <2>1. \A o \in Created : purchase'[o].phone = script'.seen[o].phone
      BY <1>4, <1>8, <1>12 DEF ScriptStands
    <2>2. ASSUME NEW o \in Created, Ahead(script.seen[o].phone)' PROVE purchase'[o].link = script.seen[o].link
      <3>1. Ahead(script.seen[o].phone) /\ script.seen[o].phone # p
        BY <1>17, <1>8, <2>2 DEF Ahead
      <3>2. o \notin S
        BY <1>5, <3>1 DEF InGroup
      <3> QED
        BY <1>4, <1>12, <3>1, <3>2 DEF ScriptStands
    <2>3. \A o \in Created : Ahead(script.seen[o].phone)' => purchase'[o].link = script'.seen[o].link
      BY <1>8, <2>2
    <2> QED
      BY <1>4, <1>8, <1>10, <1>11, <1>16, <2>1, <2>3 DEF ScriptStands, Linking, WriterAt, Ahead
  <1>19. Repairing'
    <2> SUFFICES ASSUME ~script.moved, from = {} PROVE Repairing'
      BY <1>8 DEF Repairing
    <2>1. \A n \in Members \ {m} : Right(n)' = Right(n)
      <3> TAKE n \in Members \ {m}
      <3>1. ASSUME NEW o \in S PROVE o \notin Linked(n) /\ o \notin Linked(n)'
        <4>1. o \in Created /\ purchase[o].link = Nobody /\ purchase'[o].link = m /\ Nobody # n
          BY <1>5, <1>7, <1>12, MembersAssumption DEF InGroup
        <4> QED
          BY <4>1 DEF Linked
      <3>2. Linked(n)' = Linked(n)
        BY <1>12, <3>1 DEF Linked
      <3>3. [o \in Linked(n) |-> purchase[o]]' = [o \in Linked(n) |-> purchase[o]]
        <4>1. \A o \in Linked(n) : purchase'[o] = purchase[o]
          BY <1>12, <3>1 DEF Linked
        <4> QED
          BY <3>2, <4>1
      <3>4. PictureOf(n)' = PictureOf(n)
        BY <3>3 DEF PictureOf
      <3> QED
        BY <1>2, <3>2, <3>4 DEF Right
    <2>2. ASSUME NEW r \in Phones, Known(r), ~Ahead(r) PROVE GroupDone(r)'
      <3>1. PICK n \in Members : /\ member[n].phone = r /\ (\A o \in InGroup(r) : purchase[o].link = n)
                                 /\ Right(n)
        BY <1>3, <1>4, <2>2 DEF Repairing, GroupDone
      <3>2. r # p
        BY <1>1, <1>2, <2>2 DEF Ahead, Linking
      <3>3. n # m /\ \A o \in InGroup(r) : o \in Created /\ o \notin S
        BY <1>5, <3>1, <3>2 DEF InGroup
      <3> QED
        BY <1>2, <1>12, <1>16, <2>1, <3>1, <3>3 DEF GroupDone
    <2>3. GroupDone(p)'
      <3>1. At(m)'
        BY <1>10, <1>11 DEF At, Syncing
      <3>2. \A o \in InGroup(p) : purchase'[o].link = m
        BY <1>5, <1>12 DEF InGroup
      <3> QED
        BY <1>2, <1>5, <1>16, <3>1, <3>2 DEF GroupDone
    <2>4. ASSUME NEW n \in Members, Exists(n)' PROVE n \in script'.sweep \/ Known(member[n].phone)'
      <3>1. Exists(n)
        BY <1>2, <2>4 DEF Exists
      <3>2. n \in script.sweep \/ Known(member[n].phone)
        BY <1>3, <1>4, <3>1 DEF Repairing
      <3> QED
        BY <1>2, <1>8, <1>16, <3>2 DEF Known
    <2> QED
      BY <1>16, <1>17, <2>2, <2>3, <2>4 DEF Repairing
  <1>20. Idempotent'
    BY <1>2, <1>5 DEF Idempotent
  <1>21. \A o \in Created : purchase'[o].phone = purchase[o].phone /\ (Placed(o) \/ purchase'[o].link = Nobody)
    BY <1>3, <1>5, <1>12 DEF WholeInv
  <1> QED
    BY <1>4, <1>8, <1>10, <1>11, <1>13, <1>14, <1>15, <1>18, <1>19, <1>20, <1>21, ScriptMoves

\* Where the script is while it syncs a member.
LEMMA SyncingIs ==
    ASSUME WholeInv, writer[Script].pc \in Syncing
    PROVE  /\ On /\ script.phase \in {"groups", "sweep"} /\ writer[Script].member \in Members
           /\ \A p : Ahead(p) <=> p \in script.left
           /\ script.phase = "sweep" => script.left = {}
           /\ \A m : At(m) <=> m = writer[Script].member
           /\ Recorded(writer[Script]) = Resting /\ Synced(writer[Script]) = Resting
  <1>1. On
    BY ScriptRuns DEF Syncing, WriterAt
  <1>2. /\ ScriptStands /\ script \in Backfill /\ Formed(Script, writer[Script])
        /\ writer[Script].left = {} /\ writer[Script].previous = Nobody
    BY <1>1, RunIs
  <1>3. script.phase \in {"groups", "sweep"}
    BY <1>1, <1>2 DEF ScriptStands, Syncing, Backfill, On
  <1>4. \A p : Ahead(p) <=> p \in script.left
    BY DEF Ahead, Linking, Syncing
  <1>5. Recorded(writer[Script]) = Resting /\ Synced(writer[Script]) = Resting
    BY <1>2 DEF Recorded, Synced
  <1> QED
    BY <1>1, <1>2, <1>3, <1>4, <1>5 DEF ScriptStands, Formed, At

\* The script is still at its member.
LEMMA SyncGoesOn ==
    ASSUME WholeInv, writer[Script].pc \in Syncing, NEW q \in Writer, q.pc \in Syncing,
           q.member = writer[Script].member, q.order = Nobody, q.left = {}, q.previous = Nobody,
           writer' = [writer EXCEPT ![Script] = q], UNCHANGED <<purchase, member, script, drift>>,
           q.pc = "picture" => SameVersion(q) /\ q.stored = member[q.member].fields,
           q.pc = "write" => Linked(q.member) # {} /\ q.fields = PictureOf(q.member),
           q.pc = "remove" => Linked(q.member) = {},
           drift \/ q.pc \in {"member", "picture"}
    PROVE  WholeInv'
  <1>1. /\ On /\ script.phase \in {"groups", "sweep"} /\ writer[Script].member \in Members
        /\ (\A p : Ahead(p) <=> p \in script.left) /\ (script.phase = "sweep" => script.left = {})
        /\ \A m : At(m) <=> m = writer[Script].member
    BY SyncingIs
  <1>2. /\ ScriptStands /\ Repairing /\ Idempotent /\ Script \in Everyone /\ script \in Backfill /\ drift \in BOOLEAN
        /\ \A w \in Writers : w \in Everyone /\ w # Script
    BY <1>1, RunIs
  <1>3. writer'[Script] = q /\ \A w \in Writers : writer'[w] = writer[w]
    BY <1>2 DEF WholeInv, MembersTypeOK
  <1>4. Formed(Script, q) /\ Aware(q)
    BY <1>1 DEF Formed, Aware, Syncing
  <1>5. On' /\ \A r : InGroup(r)' = InGroup(r) /\ Known(r)' = Known(r)
    BY <1>1, ScriptFrame DEF On
  <1>6. \A r : (Ahead(r)' <=> Ahead(r)) /\ (At(r)' <=> At(r))
    BY <1>1, <1>3 DEF Ahead, Linking, Syncing, At
  <1>7. /\ \A n : Linked(n)' = Linked(n) /\ PictureOf(n)' = PictureOf(n) /\ Right(n)' = Right(n) /\ Exists(n)' = Exists(n)
        /\ SameVersion(q)' = SameVersion(q)
    BY Frame
  <1>8. ScriptStands'
    <2>1. SameVersion(writer[Script])' = SameVersion(q)
      BY <1>3, <1>7 DEF SameVersion
    <2>2. Linked(writer[Script].member)' = Linked(q.member) /\ PictureOf(writer[Script].member)' = PictureOf(q.member)
      BY <1>3, <1>7
    <2>3. \A w \in Writers : WriterAt(w, "idle")'
      BY <1>2, <1>3 DEF ScriptStands, WriterAt
    <2>4. \A o \in Created : Ahead(script.seen[o].phone)' => purchase'[o].link = script'.seen[o].link
      BY <1>2, <1>6 DEF ScriptStands, Ahead
    <2> QED
      BY <1>1, <1>2, <1>3, <1>5, <2>1, <2>2, <2>3, <2>4 DEF ScriptStands, Linking, Syncing
  <1>9. Repairing'
    <2>1. \A r : GroupDone(r)' = GroupDone(r)
      BY <1>5, <1>6, <1>7 DEF GroupDone
    <2> QED
      BY <1>2, <1>5, <1>6, <1>7, <2>1 DEF Repairing
  <1>10. Idempotent'
    BY <1>2, <1>3, ScriptFrame DEF Idempotent
  <1> QED
    BY <1>1, <1>2, <1>4, <1>5, <1>8, <1>9, <1>10, ScriptGoes

\* The script is done with its member, which is right or gone.
LEMMA SyncEnds ==
    ASSUME WholeInv, writer[Script].pc \in Syncing, NEW m, m = writer[Script].member,
           NEW d \in [phone: Phones \cup {Nobody}, fields: Fields], member' = [member EXCEPT ![m] = d],
           writer' \in [Everyone -> Writer], writer'[Script] = Resting, \A w \in Writers : writer'[w] = writer[w],
           UNCHANGED <<purchase, script>>, drift' \in BOOLEAN,
           \/ d.phone = Nobody /\ (Linked(m) = {} \/ ~Exists(m))
           \/ d.phone = member[m].phone /\ Linked(m) # {} /\ d.fields = PictureOf(m),
           ~drift' => ~drift /\ d = member[m]
    PROVE  WholeInv'
  <1>1. /\ On /\ script.phase \in {"groups", "sweep"} /\ m \in Members
        /\ (\A p : Ahead(p) <=> p \in script.left) /\ (script.phase = "sweep" => script.left = {})
        /\ \A n : At(n) <=> n = m
    BY SyncingIs
  <1>2. /\ ScriptStands /\ Repairing /\ Idempotent /\ Script \in Everyone /\ script \in Backfill /\ drift \in BOOLEAN
        /\ \A w \in Writers : w \in Everyone /\ w # Script /\ writer[w].pc = "idle"
    BY <1>1, RunIs
  <1>3. /\ \A n \in Members : member'[n] = IF n = m THEN d ELSE member[n]
        /\ member' \in [Members -> [phone: Phones \cup {Nobody}, fields: Fields]]
    BY <1>1 DEF WholeInv, MembersTypeOK
  <1>4. MembersTypeOK'
    BY <1>3 DEF WholeInv, MembersTypeOK
  <1>5. /\ \A n : Linked(n)' = Linked(n) /\ PictureOf(n)' = PictureOf(n)
        /\ \A n \in Members \ {m} : Right(n)' = Right(n) /\ Exists(n)' = Exists(n)
    <2>1. \A n : Linked(n)' = Linked(n)
      BY DEF Linked
    <2>2. \A n : PictureOf(n)' = PictureOf(n)
      BY <2>1 DEF PictureOf
    <2> QED
      BY <1>3, <2>1, <2>2 DEF Exists, Right
  <1>6. /\ Exists(m)' => Right(m)' /\ Exists(m) /\ d.phone = member[m].phone /\ Linked(m) # {}
        /\ Exists(m) /\ Linked(m) # {} => d.phone = member[m].phone /\ Exists(m)'
    BY <1>1, <1>3, <1>5 DEF Exists, Right
  <1>7. OneMemberPerPhone'
    BY <1>3, <1>6 DEF WholeInv, OneMemberPerPhone, Exists
  <1>8. On' /\ \A r : InGroup(r)' = InGroup(r) /\ Known(r)' = Known(r) /\ (Ahead(r)' <=> Ahead(r)) /\ ~At(r)'
    BY <1>1, RestingIs DEF On, InGroup, Known, Ahead, Linking, At, Syncing
  <1>9. ScriptStands'
    <2>1. \A w \in Writers : WriterAt(w, "idle")'
      BY <1>2 DEF WriterAt
    <2>2. \A o \in Created : Ahead(script.seen[o].phone)' => purchase'[o].link = script'.seen[o].link
      BY <1>2, <1>8 DEF ScriptStands, Ahead
    <2> QED
      BY <1>1, <1>2, <1>8, <2>1, <2>2, RestingIs DEF ScriptStands, Linking, Syncing
  <1>10. ASSUME ~script.moved, NEW p \in Phones, Known(p), ~Ahead(p) PROVE GroupDone(p)'
    <2>1. PICK n \in Members : /\ member[n].phone = p /\ (\A o \in InGroup(p) : purchase[o].link = n)
                               /\ Right(n) \/ At(n)
      BY <1>1, <1>2, <1>10 DEF Repairing, GroupDone
    <2>2. CASE n # m
      BY <1>1, <1>3, <1>5, <1>8, <2>1, <2>2 DEF GroupDone
    <2>3. CASE n = m
      <3>1. Exists(m) /\ Linked(m) # {}
        <4>1. PICK o \in Created : o \in InGroup(p)
          BY <1>10 DEF Known, InGroup
        <4> QED
          BY <2>1, <2>3, <4>1, MembersAssumption DEF Exists, Linked
      <3>2. member'[m].phone = p /\ Right(m)'
        BY <1>1, <1>3, <1>6, <2>1, <2>3, <3>1
      <3> QED
        BY <1>1, <1>8, <2>1, <2>3, <3>2 DEF GroupDone
    <2> QED
      BY <2>2, <2>3
  <1>11. ASSUME ~script.moved, NEW n \in Members, Exists(n)' PROVE n \in script.sweep \/ Known(member'[n].phone)
    <2>1. CASE n # m
      BY <1>1, <1>2, <1>3, <1>5, <1>11, <2>1 DEF Repairing
    <2>2. CASE n = m /\ script.phase = "groups"
      BY <1>1, <1>2, <1>3, <1>6, <1>11, <2>2 DEF Repairing
    <2>3. CASE n = m /\ script.phase = "sweep"
      <3>1. PICK o \in Created : purchase[o].link = m
        BY <1>6, <1>11, <2>3 DEF Linked
      <3>2. PICK r : r = purchase[o].phone
        OBVIOUS
      <3>3. r \in Phones /\ Known(r) /\ o \in InGroup(r)
        BY <1>1, <1>2, <3>1, <3>2, MembersAssumption DEF ScriptStands, Known, InGroup, WholeInv, MembersTypeOK, Purchase, Placed
      <3>4. GroupDone(r)
        BY <1>1, <1>2, <1>11, <2>3, <3>3 DEF Repairing
      <3>5. member[m].phone = r
        BY <3>1, <3>3, <3>4 DEF GroupDone
      <3> QED
        BY <1>1, <1>3, <1>6, <1>11, <2>3, <3>3, <3>5
    <2> QED
      BY <1>1, <2>1, <2>2, <2>3
  <1>12. Repairing'
    <2>1. \A n \in Members : Known(member[n].phone)' <=> Known(member'[n].phone)
      BY DEF Known
    <2> QED
      BY <1>8, <1>10, <1>11, <2>1 DEF Repairing
  <1>13. Idempotent'
    <2>1. ASSUME ~drift' PROVE ~drift /\ UNCHANGED member
      BY <1>1, <1>3, <2>1 DEF WholeInv, MembersTypeOK
    <2> QED
      BY <1>2, <2>1, ScriptFrame, RestingIs DEF Idempotent
  <1>14. Formed(Script, Resting) /\ Aware(writer[Script])'
    BY RestingIs DEF Formed, Aware, Syncing
  <1>15. \A o \in Created : purchase'[o].phone = purchase[o].phone /\ (Placed(o) \/ purchase'[o].link = Nobody)
    BY DEF WholeInv
  <1> QED
    BY <1>2, <1>4, <1>7, <1>8, <1>9, <1>12, <1>13, <1>14, <1>15, ScriptMoves

LEMMA SweptIsRead ==
    ASSUME WholeInv, ReadMember(Script)
    PROVE  WholeInv'
  <1>1. writer[Script].pc = "member" /\ UNCHANGED <<purchase, member, script>>
    BY DEF ReadMember, WriterAt
  <1>2. PICK m : m = writer[Script].member
    OBVIOUS
  <1>3. /\ m \in Members /\ Recorded(writer[Script]) = Resting
        /\ ScriptStands /\ Repairing /\ Idempotent /\ Script \in Everyone /\ writer[Script] \in Writer
        /\ writer[Script].order = Nobody /\ writer[Script].left = {} /\ writer[Script].previous = Nobody
        /\ drift \in BOOLEAN /\ \A w \in Writers : w \in Everyone /\ w # Script
    BY <1>1, <1>2, SyncingIs, RunIs DEF Syncing
  <1>4. member[m] \in [phone: Phones \cup {Nobody}, fields: Fields] /\ writer \in [Everyone -> Writer]
        /\ member \in [Members -> [phone: Phones \cup {Nobody}, fields: Fields]]
    BY <1>3 DEF WholeInv, MembersTypeOK
  <1>5. CASE /\ Exists(m) /\ UNCHANGED drift
             /\ Go(Script, [writer[Script] EXCEPT !.pc = "picture", !.fresh = TRUE, !.stored = member[m].fields])
    <2>1. PICK q : q = [writer[Script] EXCEPT !.pc = "picture", !.fresh = TRUE, !.stored = member[m].fields]
      OBVIOUS
    <2>2. /\ q \in Writer /\ q.pc = "picture" /\ q.member = m /\ q.order = Nobody /\ q.left = {} /\ q.previous = Nobody
          /\ q.fresh = TRUE /\ q.stored = member[m].fields
      BY <1>2, <1>3, <1>4, <2>1 DEF Writer, SyncPc
    <2> QED
      BY <1>1, <1>2, <1>5, <2>1, <2>2, SyncGoesOn DEF Syncing, Go, SameVersion
  <1>6. CASE ~Exists(m) /\ Go(Script, Recorded(writer[Script])) /\ UNCHANGED drift
    <2>1. writer' \in [Everyone -> Writer] /\ writer'[Script] = Resting /\ \A w \in Writers : writer'[w] = writer[w]
      BY <1>3, <1>4, <1>6, RestingIs DEF Go
    <2>2. member' = [member EXCEPT ![m] = member[m]]
      BY <1>1, <1>4
    <2>3. member[m].phone = Nobody
      BY <1>6 DEF Exists
    <2> QED
      BY <1>1, <1>2, <1>3, <1>4, <1>6, <2>1, <2>2, <2>3, SyncEnds DEF Syncing
  <1> QED
    BY <1>2, <1>3, <1>5, <1>6 DEF ReadMember

LEMMA SweptIsCompared ==
    ASSUME WholeInv, ReadPicture(Script)
    PROVE  WholeInv'
  <1>1. writer[Script].pc = "picture" /\ UNCHANGED <<purchase, member, script>>
    BY DEF ReadPicture, WriterAt
  <1>2. PICK m : m = writer[Script].member
    OBVIOUS
  <1>3. /\ m \in Members /\ Synced(writer[Script]) = Resting
        /\ ScriptStands /\ Repairing /\ Idempotent /\ Script \in Everyone /\ writer[Script] \in Writer
        /\ writer[Script].order = Nobody /\ writer[Script].left = {} /\ writer[Script].previous = Nobody
        /\ drift \in BOOLEAN /\ (\A w \in Writers : w \in Everyone /\ w # Script) /\ Aware(writer[Script])
    BY <1>1, <1>2, SyncingIs, RunIs DEF Syncing
  <1>4. member[m] \in [phone: Phones \cup {Nobody}, fields: Fields] /\ writer \in [Everyone -> Writer]
        /\ member \in [Members -> [phone: Phones \cup {Nobody}, fields: Fields]]
    BY <1>3 DEF WholeInv, MembersTypeOK
  <1>5. SameVersion(writer[Script]) /\ Exists(m) /\ writer[Script].stored = member[m].fields
    BY <1>1, <1>2, <1>3 DEF ScriptStands, SameVersion, Aware
  <1>6. ~drift => Linked(m) # {} /\ member[m].fields = PictureOf(m)
    BY <1>3, <1>5 DEF Idempotent, EverythingMatches
  <1>7. NoFields \in Fields /\ PictureOf(m) \in Fields
    BY <1>3, RestingIs, PictureIs DEF Resting, Writer, WholeInv
  <1>8. CASE Linked(m) = {} /\ UNCHANGED drift /\ Go(Script, [writer[Script] EXCEPT !.pc = "remove", !.stored = NoFields])
    <2>1. PICK q : q = [writer[Script] EXCEPT !.pc = "remove", !.stored = NoFields]
      OBVIOUS
    <2>2. q \in Writer /\ q.pc = "remove" /\ q.member = m /\ q.order = Nobody /\ q.left = {} /\ q.previous = Nobody
      BY <1>2, <1>3, <1>7, <2>1 DEF Writer, SyncPc
    <2> QED
      BY <1>1, <1>2, <1>6, <1>8, <2>1, <2>2, SyncGoesOn DEF Syncing, Go
  <1>9. CASE /\ Linked(m) # {} /\ PictureOf(m) = writer[Script].stored /\ Go(Script, Synced(writer[Script]))
             /\ drift' = (drift \/ Misled(Script))
    <2>1. writer' \in [Everyone -> Writer] /\ writer'[Script] = Resting /\ \A w \in Writers : writer'[w] = writer[w]
      BY <1>3, <1>4, <1>9, RestingIs DEF Go
    <2>2. PICK d : d = member[m]
      OBVIOUS
    <2>3. member' = [member EXCEPT ![m] = d]
      BY <1>1, <1>4, <2>2
    <2>4. drift' \in BOOLEAN /\ (~drift' => ~drift /\ d = member[m])
      BY <1>3, <1>9, <2>2
    <2>5. d \in [phone: Phones \cup {Nobody}, fields: Fields] /\ d.phone = member[m].phone /\ Linked(m) # {}
          /\ d.fields = PictureOf(m)
      BY <1>4, <1>5, <1>9, <2>2
    <2>6. writer[Script].pc \in Syncing /\ UNCHANGED <<purchase, script>>
      BY <1>1 DEF Syncing
    <2> QED
      BY <1>2, <2>1, <2>3, <2>4, <2>5, <2>6, SyncEnds
  <1>10. CASE /\ Linked(m) # {} /\ PictureOf(m) # writer[Script].stored /\ UNCHANGED drift
              /\ Go(Script, [writer[Script] EXCEPT !.pc = "write", !.stored = NoFields, !.fields = PictureOf(m)])
    <2>1. PICK q : q = [writer[Script] EXCEPT !.pc = "write", !.stored = NoFields, !.fields = PictureOf(m)]
      OBVIOUS
    <2>2. /\ q \in Writer /\ q.pc = "write" /\ q.member = m /\ q.order = Nobody /\ q.left = {} /\ q.previous = Nobody
          /\ q.fields = PictureOf(m)
      BY <1>2, <1>3, <1>7, <2>1 DEF Writer, SyncPc
    <2> QED
      BY <1>1, <1>2, <1>5, <1>6, <1>10, <2>1, <2>2, SyncGoesOn DEF Syncing, Go
  <1> QED
    BY <1>2, <1>8, <1>9, <1>10 DEF ReadPicture

\* Its version moved: it starts over, or ends for good.
LEMMA SweepStartsOver ==
    ASSUME WholeInv, writer[Script].pc \in {"write", "remove"}, Again(Script), UNCHANGED <<purchase, member>>
    PROVE  WholeInv'
  <1>1. PICK m : m = writer[Script].member
    OBVIOUS
  <1>2. /\ On /\ Recorded(writer[Script]) = Resting /\ Idempotent /\ Script \in Everyone /\ writer[Script] \in Writer
        /\ writer[Script].order = Nobody /\ writer[Script].left = {} /\ writer[Script].previous = Nobody
    BY SyncingIs, RunIs DEF Syncing
  <1>3. drift
    BY <1>2 DEF Idempotent
  <1>4. CASE /\ Go(Script, [writer[Script] EXCEPT !.pc = "member", !.fields = NoFields, !.fresh = FALSE, !.tries = @ + 1])
             /\ UNCHANGED <<script, drift>>
    <2>1. PICK q : q = [writer[Script] EXCEPT !.pc = "member", !.fields = NoFields, !.fresh = FALSE, !.tries = @ + 1]
      OBVIOUS
    <2>2. NoFields \in Fields /\ writer[Script].tries + 1 \in Nat
      BY <1>2, RestingIs DEF Resting, Writer
    <2>4. q \in Writer /\ q.pc = "member" /\ q.member = m /\ q.order = Nobody /\ q.left = {} /\ q.previous = Nobody
      BY <1>1, <1>2, <2>1, <2>2 DEF Writer, SyncPc
    <2> QED
      BY <1>1, <1>3, <1>4, <2>1, <2>4, SyncGoesOn DEF Syncing, Go
  <1>5. CASE Go(Script, Recorded(writer[Script])) /\ script' = NoBackfill /\ drift' = TRUE
    <2>1. Formed(Script, Resting) /\ Aware(Resting) /\ Resting \in Writer /\ Resting.pc = "idle"
      BY RestingIs DEF Formed, Aware, Syncing
    <2>2. script' \in Backfill /\ ~On' /\ writer' = [writer EXCEPT ![Script] = Resting]
      BY <1>2, <1>5, NoBackfillIs DEF On, Go
    <2> QED
      BY <1>2, <1>5, <2>1, <2>2, ScriptGoes
  <1> QED
    BY <1>4, <1>5 DEF Again

\* No request of the others is at a member.
LEMMA SweptIsDone ==
    ASSUME WholeInv, writer[Script].pc \in {"write", "remove"}, Written(Script)
    PROVE  writer' \in [Everyone -> Writer] /\ writer'[Script] = Resting /\ \A w \in Writers : writer'[w] = writer[w]
  <1>1. /\ writer[Script].member \in Members /\ Synced(writer[Script]) = Resting /\ Script \in Everyone
        /\ \A w \in Writers : w \in Everyone /\ w # Script /\ writer[w].member = Nobody
    BY SyncingIs, RunIs DEF Syncing
  <1>2. \A x \in Everyone : writer'[x] = IF x = Script THEN Resting ELSE writer[x]
    BY <1>1, MembersAssumption DEF Written, Everyone
  <1>3. writer' \in [Everyone -> Writer]
    BY <1>2, RestingIs DEF Written, WholeInv, MembersTypeOK
  <1> QED
    BY <1>1, <1>2, <1>3

LEMMA SweptIsWritten ==
    ASSUME WholeInv, WriteMember(Script)
    PROVE  WholeInv'
  <1>1. writer[Script].pc = "write" /\ UNCHANGED purchase
    BY DEF WriteMember, WriterAt
  <1>2. CASE ~SameVersion(writer[Script]) /\ Again(Script) /\ UNCHANGED member
    BY <1>1, <1>2, SweepStartsOver
  <1>3. CASE /\ SameVersion(writer[Script])
             /\ member' = [member EXCEPT ![writer[Script].member].fields = writer[Script].fields]
             /\ Written(Script) /\ UNCHANGED <<script, drift>>
    <2>1. PICK m : m = writer[Script].member
      OBVIOUS
    <2>2. /\ m \in Members /\ ScriptStands /\ Idempotent /\ writer[Script] \in Writer /\ drift \in BOOLEAN
      BY <1>1, <2>1, SyncingIs, RunIs DEF Syncing
    <2>3. drift /\ Linked(m) # {} /\ writer[Script].fields = PictureOf(m)
      BY <1>1, <2>1, <2>2 DEF Idempotent, ScriptStands
    <2>4. writer[Script].fields \in Fields /\ member[m] \in [phone: Phones \cup {Nobody}, fields: Fields]
      BY <2>2 DEF Writer, WholeInv, MembersTypeOK
    <2>5. PICK d : d = [member[m] EXCEPT !.fields = writer[Script].fields]
      OBVIOUS
    <2>6. d \in [phone: Phones \cup {Nobody}, fields: Fields] /\ d.phone = member[m].phone /\ d.fields = PictureOf(m)
      BY <2>3, <2>4, <2>5
    <2>7. member' = [member EXCEPT ![m] = d]
      BY <1>3, <2>1, <2>5 DEF WholeInv, MembersTypeOK
    <2>8. writer' \in [Everyone -> Writer] /\ writer'[Script] = Resting /\ \A w \in Writers : writer'[w] = writer[w]
      BY <1>1, <1>3, SweptIsDone
    <2> QED
      BY <1>1, <1>3, <2>1, <2>2, <2>3, <2>6, <2>7, <2>8, SyncEnds DEF Syncing
  <1> QED
    BY <1>2, <1>3 DEF WriteMember

LEMMA SweptIsRemoved ==
    ASSUME WholeInv, RemoveMember(Script)
    PROVE  WholeInv'
  <1>1. writer[Script].pc = "remove" /\ UNCHANGED purchase
    BY DEF RemoveMember, WriterAt
  <1>2. CASE ~SameVersion(writer[Script]) /\ Again(Script) /\ UNCHANGED member
    BY <1>1, <1>2, SweepStartsOver
  <1>3. CASE /\ SameVersion(writer[Script]) /\ member' = [member EXCEPT ![writer[Script].member] = NoMember]
             /\ Written(Script) /\ UNCHANGED <<script, drift>>
    <2>1. PICK m : m = writer[Script].member
      OBVIOUS
    <2>2. m \in Members /\ ScriptStands /\ Idempotent /\ drift \in BOOLEAN
      BY <1>1, <2>1, SyncingIs, RunIs DEF Syncing
    <2>3. drift /\ Linked(m) = {}
      BY <1>1, <2>1, <2>2 DEF Idempotent, ScriptStands
    <2>4. NoMember \in [phone: Phones \cup {Nobody}, fields: Fields] /\ NoMember.phone = Nobody
      <3>1. NoFields \in Fields
        BY RestingIs DEF Resting, Writer
      <3> QED
        BY <3>1 DEF NoMember
    <2>5. writer' \in [Everyone -> Writer] /\ writer'[Script] = Resting /\ \A w \in Writers : writer'[w] = writer[w]
      BY <1>1, <1>3, SweptIsDone
    <2> QED
      BY <1>1, <1>3, <2>1, <2>2, <2>3, <2>4, <2>5, SyncEnds DEF Syncing
  <1> QED
    BY <1>2, <1>3 DEF RemoveMember

-----------------------------------------------------------------------------
LEMMA WholeStart == MembersInit => WholeInv
  <1> SUFFICES ASSUME MembersInit PROVE WholeInv
    OBVIOUS
  <1>1. /\ NoPurchase \in Purchase /\ NoPurchase.phone = Nobody /\ NoPurchase.link = Nobody
        /\ NoMember \in [phone: Phones \cup {Nobody}, fields: Fields] /\ NoMember.phone = Nobody
    <2>1. NoFields \in Fields
      BY RestingIs DEF Resting, Writer
    <2> QED
      BY <2>1, MembersAssumption DEF NoPurchase, Purchase, Texts, NoMember
  <1>2. \A o \in Created : purchase[o].phone = Nobody /\ purchase[o].link = Nobody
    BY <1>1 DEF MembersInit
  <1>3. \A m \in Members : ~Exists(m)
    BY <1>1 DEF MembersInit, Exists
  <1>4. (\A w \in Everyone : writer[w] = Resting) /\ Script \in Everyone /\ \A w \in Writers : w \in Everyone
    BY DEF MembersInit, Everyone
  <1>5. MembersTypeOK
    BY <1>1, RestingIs, NoBackfillIs DEF MembersInit, MembersTypeOK
  <1>6. OneMemberPerPhone
    BY <1>3 DEF OneMemberPerPhone
  <1>7. \A w \in Everyone : Formed(w, writer[w]) /\ Aware(writer[w])
    BY <1>4, RestingIs DEF Formed, Aware, Syncing
  <1>8. OwnOrders
    BY <1>4, RestingIs, MembersAssumption DEF OwnOrders, OrdersOf
  <1>9. ~On
    BY NoBackfillIs DEF MembersInit, On
  <1>10. WriterAt(Script, "idle") /\ Cared /\ Housed /\ Spared
    BY <1>2, <1>3, <1>4, RestingIs DEF WriterAt, Cared, Housed, Placed, Spared, Removing
  <1> QED
    BY <1>2, <1>5, <1>6, <1>7, <1>8, <1>9, <1>10 DEF WholeInv

\* A call of a request or of the script preserves it, unless the step changes
\* an order that another request is recording.
LEMMA WholeStep ==
    ASSUME Quiet, WholeInv, [MembersNext]_membersVars
    PROVE  WholeInv' \/ (~On /\ drift')
  <1>1. CASE UNCHANGED membersVars
    <2>1. UNCHANGED <<purchase, member, writer, script, drift>>
      BY <1>1 DEF membersVars
    <2>2. MembersTypeOK' /\ OneMemberPerPhone' /\ OwnOrders' /\ (On' <=> On)
      BY <2>1, Frame DEF WholeInv, MembersTypeOK, OwnOrders, OrdersOf, Placed, On
    <2>3. \A w \in Everyone : Formed(w, writer[w])' /\ Aware(writer[w])'
      BY <2>1, Frame DEF WholeInv, Formed, Aware, SameVersion, Exists
    <2>4. Cared' = Cared /\ Housed' = Housed /\ Spared' = Spared
      <3>1. Cared' = Cared
        BY <2>1, Frame DEF Cared, RightForGood, Outdated, Owes, SameVersion
      <3>2. Housed' = Housed
        BY <2>1, Frame DEF Housed
      <3>3. Spared' = Spared
        BY <2>1, Frame DEF Spared, Removing, SameVersion
      <3> QED
        BY <3>1, <3>2, <3>3
    <2>5. ScriptStands' = ScriptStands /\ Repairing' = Repairing /\ Idempotent' = Idempotent
      <3>1. \A p : InGroup(p)' = InGroup(p) /\ Known(p)' = Known(p) /\ Ahead(p)' = Ahead(p) /\ At(p)' = At(p)
        BY <2>1 DEF InGroup, Known, Ahead, Linking, At
      <3>2. \A p : GroupDone(p)' = GroupDone(p)
        BY <2>1, <3>1, Frame DEF GroupDone
      <3>3. Repairing' = Repairing
        BY <2>1, <3>1, <3>2, Frame DEF Repairing
      <3>4. Idempotent' = Idempotent
        BY <2>1, ScriptFrame DEF Idempotent
      <3>5. ScriptStands' = ScriptStands
        BY <2>1, <3>1, Frame DEF ScriptStands, WriterAt, Placed, Linking, SameVersion
      <3> QED
        BY <3>3, <3>4, <3>5
    <2> QED
      BY <2>1, <2>2, <2>3, <2>4, <2>5 DEF WholeInv, WriterAt, Placed
  <1>2. ASSUME NEW w \in Writers, NEW o \in Created, NEW p \in Phones, NEW t \in Texts, PlaceOrder(w, o, p, t)
        PROVE  WholeInv'
    BY <1>2, OrderIsPlaced
  <1>3. ASSUME NEW w \in Writers, NEW o \in Created, NEW p \in Phones, NEW t \in Texts \ {0}, ReadForAddress(w, o, p, t)
        PROVE  WholeInv'
    BY <1>3, AddressIsRead
  <1>4. ASSUME NEW w \in Writers, NEW p \in Phones, NEW t \in Texts \ {0}, FindPending(w, p, t)
        PROVE  WholeInv'
    BY <1>4, PendingIsFound
  <1>5. ASSUME NEW w \in Writers, NEW o \in Created, NEW flag \in BOOLEAN, FlipDeleted(w, o, flag)
        PROVE  WholeInv' \/ (~On /\ drift')
    <2>1. drift' \in BOOLEAN
      BY <1>5 DEF FlipDeleted, WholeInv, MembersTypeOK
    <2>2. ~On
      BY <1>5, IdleIs DEF FlipDeleted
    <2> QED
      BY <1>5, <2>1, <2>2, FlagIsFlipped
  <1>6. ASSUME NEW w \in Writers, SaveAddress(w) \/ ReadPurchase(w)
        PROVE  WholeInv' \/ (~On /\ drift')
    <2>1. CASE ReadPurchase(w)
      BY <2>1, PurchaseIsRead
    <2>2. CASE SaveAddress(w)
      <3>1. drift' \in BOOLEAN
        BY <2>2 DEF SaveAddress, WholeInv, MembersTypeOK
      <3>2. ~On
        BY <2>2, ScriptIsOff DEF SaveAddress, WriterAt
      <3> QED
        BY <2>2, <3>1, <3>2, AddressIsSaved
    <2> QED
      BY <1>6, <2>1, <2>2
  <1>7. ASSUME NEW w \in Everyone, FindMember(w)
        PROVE  WholeInv'
    BY <1>7, MemberIsFound, GroupIsFound DEF Everyone
  <1>8. ASSUME NEW w \in Everyone, UpsertMember(w)
        PROVE  WholeInv'
    BY <1>8, MemberIsUpserted, GroupIsUpserted DEF Everyone
  <1>9. ASSUME NEW w \in Everyone, LinkOrder(w)
        PROVE  WholeInv'
    BY <1>9, OrderIsLinked, GroupIsLinked DEF Everyone
  <1>10. ASSUME NEW w \in Everyone, ReadMember(w)
         PROVE  WholeInv'
    BY <1>10, MemberIsRead, SweptIsRead DEF Everyone
  <1>11. ASSUME NEW w \in Everyone, ReadPicture(w)
         PROVE  WholeInv'
    BY <1>11, PictureIsRead, SweptIsCompared DEF Everyone
  <1>12. ASSUME NEW w \in Everyone, WriteMember(w)
         PROVE  WholeInv'
    BY <1>12, MemberIsWritten, SweptIsWritten DEF Everyone
  <1>13. ASSUME NEW w \in Everyone, RemoveMember(w)
         PROVE  WholeInv'
    BY <1>13, MemberIsRemoved, SweptIsRemoved DEF Everyone
  <1>14. ASSUME NEW w \in Everyone, WriterDies(w)
         PROVE  WholeInv'
    BY <1>14, DeathKeeps, ScriptDies DEF Everyone
  <1>15. CASE StartBackfill \/ ReadExisting \/ ReadCurrent \/ BackfillDone
    BY <1>15, BackfillStarts, ExistingAreRead, CurrentAreRead, BackfillEnds
  <1>16. ASSUME NEW p \in Phones, BackfillGroup(p)
         PROVE  WholeInv'
    BY <1>16, GroupIsBegun
  <1>17. ASSUME NEW m \in Members, SweepMember(m)
         PROVE  WholeInv'
    BY <1>17, SweepIsBegun
  <1> QED
    BY <1>1, <1>2, <1>3, <1>4, <1>5, <1>6, <1>7, <1>8, <1>9, <1>10, <1>11, <1>12, <1>13, <1>14, <1>15,
       <1>16, <1>17 DEF MembersNext

-----------------------------------------------------------------------------
(***************************************************************************)
(* Once an order was changed while another request recorded it, requests   *)
(* may be wrong of the order they record: only this is left of the         *)
(* invariant, until the next run of the script.                            *)
(***************************************************************************)
Sane ==
    /\ MembersTypeOK /\ OneMemberPerPhone
    /\ \A w \in Everyone : Formed(w, writer[w])
    /\ \A w \in Writers : \A o \in OrdersOf(writer[w]) : Placed(o)
    /\ \A o \in Created : Placed(o) \/ purchase[o].link = Nobody
    /\ ~On /\ WriterAt(Script, "idle")

MembersInv == WholeInv \/ (Sane /\ drift)

LEMMA WholeIsSane == WholeInv /\ ~On => Sane
  BY DEF WholeInv, Sane, OwnOrders

\* When every request has left, the script finds nothing that is not so.
LEMMA SaneAtRest ==
    ASSUME Sane, drift, \A w \in Writers : WriterAt(w, "idle")
    PROVE  WholeInv
  <1>1. \A w \in Everyone : writer[w].pc = "idle" /\ writer[w].order = Nobody /\ writer[w].left = {}
    BY DEF Sane, Formed, WriterAt, Everyone
  <1>2. \A w \in Everyone : Aware(writer[w])
    BY <1>1 DEF Aware
  <1>3. OwnOrders
    BY <1>1, MembersAssumption DEF OwnOrders, OrdersOf, Everyone
  <1> QED
    BY <1>2, <1>3 DEF WholeInv, Sane

\* One request goes on to q.
LEMMA SaneMoves ==
    ASSUME Sane, NEW w \in Writers, NEW q \in Writer, UNCHANGED script, drift' \in BOOLEAN,
           writer' \in [Everyone -> Writer], writer'[w] = q,
           \A x \in Everyone \ {w} : writer'[x] \in {writer[x], [writer[x] EXCEPT !.fresh = FALSE]},
           purchase' \in [Created -> Purchase],
           \A o \in Created : /\ Placed(o) => purchase'[o].phone # Nobody
                              /\ purchase'[o].phone # Nobody \/ purchase'[o].link = Nobody,
           member' \in [Members -> [phone: Phones \cup {Nobody}, fields: Fields]], OneMemberPerPhone',
           Formed(w, q), \A o \in OrdersOf(q) : purchase'[o].phone # Nobody
    PROVE  Sane'
  <1>1. MembersTypeOK'
    BY DEF Sane, MembersTypeOK
  <1>2. /\ w \in Everyone /\ w # Script /\ Script \in Everyone /\ writer \in [Everyone -> Writer]
        /\ \A x \in Writers : x \in Everyone
    BY MembersAssumption DEF Everyone, Sane, MembersTypeOK
  <1>3. \A x \in Everyone \ {w} : /\ writer'[x].pc = writer[x].pc /\ writer'[x].member = writer[x].member
                                  /\ writer'[x].order = writer[x].order /\ writer'[x].left = writer[x].left
                                  /\ writer'[x].given = writer[x].given /\ writer'[x].previous = writer[x].previous
    BY <1>2 DEF Writer
  <1>4. \A x \in Everyone : Formed(x, writer'[x])
    <2>1. ASSUME NEW x \in Everyone \ {w} PROVE Formed(x, writer'[x])
      <3>1. Formed(x, writer[x])
        BY DEF Sane
      <3> QED
        BY <1>3, <3>1 DEF Formed
    <2> QED
      BY <2>1
  <1>5. \A x \in Writers : \A o \in OrdersOf(writer'[x]) : purchase'[o].phone # Nobody
    <2>1. ASSUME NEW x \in Writers \ {w}, NEW o \in OrdersOf(writer'[x]) PROVE purchase'[o].phone # Nobody
      <3>1. o \in OrdersOf(writer[x]) /\ o \in Created
        BY <1>2, <1>3 DEF OrdersOf
      <3> QED
        BY <3>1 DEF Sane
    <2> QED
      BY <2>1
  <1>6. \A x \in Everyone : Formed(x, writer[x])'
    BY <1>4 DEF Formed
  <1>7. \A x \in Writers : \A o \in OrdersOf(writer[x])' : Placed(o)'
    BY <1>5 DEF OrdersOf, Placed
  <1>8. \A o \in Created : Placed(o)' \/ purchase'[o].link = Nobody
    BY DEF Placed
  <1>9. ~On' /\ WriterAt(Script, "idle")'
    BY <1>2, <1>3 DEF Sane, On, WriterAt
  <1> QED
    BY <1>1, <1>6, <1>7, <1>8, <1>9 DEF Sane

\* What stays so while no order, or no member, changes.
LEMMA SaneIs ==
    ASSUME Sane
    PROVE  /\ UNCHANGED purchase =>
                 /\ purchase' \in [Created -> Purchase]
                 /\ \A o \in Created : /\ Placed(o) => purchase'[o].phone # Nobody
                                       /\ purchase'[o].phone # Nobody \/ purchase'[o].link = Nobody
           /\ UNCHANGED member =>
                 /\ member' \in [Members -> [phone: Phones \cup {Nobody}, fields: Fields]]
                 /\ OneMemberPerPhone'
           /\ drift \in BOOLEAN /\ writer \in [Everyone -> Writer]
           /\ \A w \in Writers, q \in Writer : writer' = [writer EXCEPT ![w] = q] =>
                 /\ writer' \in [Everyone -> Writer] /\ writer'[w] = q
                 /\ \A x \in Everyone \ {w} : writer'[x] \in {writer[x], [writer[x] EXCEPT !.fresh = FALSE]}
           /\ \A w \in Writers : w \in Everyone /\ w # Script /\ writer[w] \in Writer /\ Formed(w, writer[w])
  <1>1. purchase \in [Created -> Purchase] /\ drift \in BOOLEAN /\ writer \in [Everyone -> Writer]
        /\ member \in [Members -> [phone: Phones \cup {Nobody}, fields: Fields]]
    BY DEF Sane, MembersTypeOK
  <1>2. UNCHANGED purchase => \A o \in Created : /\ Placed(o) => purchase'[o].phone # Nobody
                                                 /\ purchase'[o].phone # Nobody \/ purchase'[o].link = Nobody
    BY DEF Sane, Placed
  <1>3. UNCHANGED member => OneMemberPerPhone'
    BY DEF Sane, OneMemberPerPhone, Exists
  <1>4. \A w \in Writers : w \in Everyone /\ w # Script /\ writer[w] \in Writer /\ Formed(w, writer[w])
    BY <1>1, MembersAssumption DEF Everyone, Sane
  <1>5. \A w \in Writers, q \in Writer : writer' = [writer EXCEPT ![w] = q] =>
           /\ writer' \in [Everyone -> Writer] /\ writer'[w] = q
           /\ \A x \in Everyone \ {w} : writer'[x] \in {writer[x], [writer[x] EXCEPT !.fresh = FALSE]}
    BY <1>1, <1>4
  <1> QED
    BY <1>1, <1>2, <1>3, <1>4, <1>5

\* A request goes on, with its orders or fewer; no order and no member changes.
LEMMA SaneGoesOn ==
    ASSUME Sane, NEW w \in Writers, NEW q \in Writer, writer' = [writer EXCEPT ![w] = q],
           UNCHANGED <<purchase, member, script>>, drift' \in BOOLEAN, Formed(w, q),
           \A o \in OrdersOf(q) : o \in OrdersOf(writer[w]) \/ Placed(o)
    PROVE  Sane'
  <1>1. \A o \in OrdersOf(q) : purchase'[o].phone # Nobody
    BY DEF Sane, Placed
  <1> QED
    BY <1>1, SaneIs, SaneMoves

LEMMA SaneOrders ==
    ASSUME Sane, NEW w \in Writers, NEW q \in Writer, q.order \in {Nobody, writer[w].order},
           q.left \subseteq writer[w].left
    PROVE  \A o \in OrdersOf(q) : o \in OrdersOf(writer[w]) \/ Placed(o)
  BY MembersAssumption DEF OrdersOf

\* The writes of orders and the look-ups.
LEMMA SaneStarts ==
    ASSUME Sane, NEW w \in Writers, NEW o \in Created, NEW p \in Phones, NEW t \in Texts,
           PlaceOrder(w, o, p, t) \/ ReadForAddress(w, o, p, t) \/ FindPending(w, p, t)
    PROVE  Sane'
  <1>1. CASE PlaceOrder(w, o, p, t)
    <2>1. PICK q : q = Record(o)
      OBVIOUS
    <2>2. q \in Writer /\ q.pc = "read" /\ q.order = o /\ q.left = {} /\ q.member = Nobody
      BY <2>1, RecordIs
    <2>3. PICK s : s = [NoPurchase EXCEPT !.phone = p, !.text = t]
      OBVIOUS
    <2>4. s \in Purchase /\ s.phone = p /\ p # Nobody
      BY <2>3, MembersAssumption DEF NoPurchase, Purchase
    <2>5. /\ purchase' = [purchase EXCEPT ![o] = s] /\ UNCHANGED <<member, script, drift>>
          /\ writer' = [writer EXCEPT ![w] = q]
      BY <1>1, <2>1, <2>3 DEF PlaceOrder, Go
    <2>6. /\ purchase' \in [Created -> Purchase]
          /\ \A x \in Created : /\ Placed(x) => purchase'[x].phone # Nobody
                                /\ purchase'[x].phone # Nobody \/ purchase'[x].link = Nobody
      BY <2>4, <2>5 DEF Sane, MembersTypeOK, Placed
    <2>7. Formed(w, q) /\ \A x \in OrdersOf(q) : purchase'[x].phone # Nobody
      BY <2>2, <2>4, <2>5, SaneIs, MembersAssumption DEF Formed, Syncing, OrdersOf, Sane, MembersTypeOK
    <2> QED
      BY <2>2, <2>5, <2>6, <2>7, SaneIs, SaneMoves
  <1>2. CASE ReadForAddress(w, o, p, t) \/ FindPending(w, p, t)
    <2>1. PICK S \in SUBSET Created :
             /\ \A x \in S : Placed(x)
             /\ writer' = [writer EXCEPT ![w] = [Resting EXCEPT !.pc = "save", !.left = S, !.text = t, !.given = p]]
             /\ UNCHANGED <<purchase, member, script, drift>>
      <3>1. CASE ReadForAddress(w, o, p, t)
        <4>1. {o} \in SUBSET Created /\ \A x \in {o} : Placed(x)
          BY <3>1 DEF ReadForAddress
        <4> QED
          BY <3>1, <4>1 DEF ReadForAddress, Go
      <3>2. CASE FindPending(w, p, t)
        <4> DEFINE pending == {x \in Created : /\ purchase[x].phone = p /\ ~purchase[x].deleted
                                               /\ ~hasFullAddress(purchase[x])}
        <4>1. \A x \in pending : Placed(x)
          BY MembersAssumption DEF Placed
        <4> QED
          BY <3>2, <4>1 DEF FindPending, Go
      <3> QED
        BY <1>2, <3>1, <3>2
    <2>2. PICK q : q = [Resting EXCEPT !.pc = "save", !.left = S, !.text = t, !.given = p]
      OBVIOUS
    <2>3. q \in Writer /\ q.pc = "save" /\ q.left = S /\ q.given = p /\ q.order = Nobody /\ q.member = Nobody /\ q.previous = Nobody
      BY <2>2, RestingIs DEF Writer, SyncPc
    <2>4. Formed(w, q)
      BY <2>3, SaneIs, MembersAssumption DEF Formed, Syncing
    <2>5. \A x \in OrdersOf(q) : x \in OrdersOf(writer[w]) \/ Placed(x)
      BY <2>1, <2>3, MembersAssumption DEF OrdersOf
    <2> QED
      BY <2>1, <2>2, <2>3, <2>4, <2>5, SaneIs, SaneGoesOn
  <1> QED
    BY <1>1, <1>2

LEMMA SaneWrites ==
    ASSUME Sane, NEW w \in Writers, NEW o \in Created, NEW s \in Purchase, NEW q \in Writer,
           purchase' = [purchase EXCEPT ![o] = s], writer' = [writer EXCEPT ![w] = q],
           UNCHANGED <<member, script>>, drift' \in BOOLEAN, s.phone # Nobody, Placed(o),
           Formed(w, q), q.order = o, q.left \subseteq writer[w].left
    PROVE  Sane'
  <1>1. /\ purchase' \in [Created -> Purchase]
        /\ \A x \in Created : /\ Placed(x) => purchase'[x].phone # Nobody
                              /\ purchase'[x].phone # Nobody \/ purchase'[x].link = Nobody
    BY DEF Sane, MembersTypeOK, Placed
  <1>2. \A x \in OrdersOf(q) : Placed(x) /\ x \in Created
    BY DEF OrdersOf, Sane
  <1>3. \A x \in OrdersOf(q) : purchase'[x].phone # Nobody
    BY <1>1, <1>2
  <1> QED
    BY <1>1, <1>3, SaneIs, SaneMoves

LEMMA SaneFlips ==
    ASSUME Sane, NEW w \in Writers, NEW o \in Created, NEW flag \in BOOLEAN, FlipDeleted(w, o, flag)
    PROVE  Sane'
  <1>1. PICK q : q = Record(o)
    OBVIOUS
  <1>2. q \in Writer /\ q.pc = "read" /\ q.order = o /\ q.left = {} /\ q.member = Nobody
    BY <1>1, RecordIs
  <1>3. PICK s : s = [purchase[o] EXCEPT !.deleted = flag]
    OBVIOUS
  <1>4. purchase[o] \in Purchase
    BY DEF Sane, MembersTypeOK
  <1>5. s \in Purchase /\ s.phone = purchase[o].phone
    BY <1>3, <1>4 DEF Purchase
  <1>6. /\ purchase' = [purchase EXCEPT ![o] = s] /\ writer' = [writer EXCEPT ![w] = q]
        /\ UNCHANGED <<member, script>> /\ drift' = (drift \/ Recording(o)) /\ Placed(o) /\ s.phone # Nobody
    BY <1>1, <1>3, <1>5 DEF FlipDeleted, Go, Placed
  <1>7. drift' \in BOOLEAN
    BY <1>6, SaneIs DEF Recording
  <1>8. Formed(w, q)
    BY <1>2, SaneIs, MembersAssumption DEF Formed, Syncing
  <1> QED
    BY <1>2, <1>5, <1>6, <1>7, <1>8, SaneWrites

LEMMA SaneSaves ==
    ASSUME Sane, NEW w \in Writers, SaveAddress(w)
    PROVE  Sane'
  <1>1. PICK o \in writer[w].left :
           /\ drift' = (drift \/ Recording(o))
           /\ purchase' = [purchase EXCEPT ![o].phone = writer[w].given, ![o].text = writer[w].text]
           /\ writer' = [writer EXCEPT ![w] = [writer[w] EXCEPT !.pc = "read", !.order = o, !.left = @ \ {o}]]
    BY DEF SaveAddress, Go
  <1>2. writer[w].pc = "save" /\ UNCHANGED <<member, script>>
    BY DEF SaveAddress, WriterAt
  <1>3. /\ w # Script /\ writer[w] \in Writer /\ Formed(w, writer[w])
    BY SaneIs
  <1>4. /\ writer[w].left \subseteq Created /\ o \in Created /\ writer[w].given \in Phones /\ writer[w].text \in Texts
        /\ purchase[o] \in Purchase /\ writer[w].order = Nobody /\ writer[w].member = Nobody
        /\ writer[w].previous = Nobody
    BY <1>2, <1>3 DEF Formed, Writer, Sane, MembersTypeOK
  <1>5. PICK s : s = [purchase[o] EXCEPT !.phone = writer[w].given, !.text = writer[w].text]
    OBVIOUS
  <1>6. s \in Purchase /\ s.phone = writer[w].given
    BY <1>4, <1>5 DEF Purchase
  <1>7. purchase' = [purchase EXCEPT ![o] = s]
    <2>1. purchase \in [Created -> Purchase]
      BY DEF Sane, MembersTypeOK
    <2> QED
      BY <1>1, <1>4, <1>5, <2>1 DEF Purchase
  <1>8. PICK q : q = [writer[w] EXCEPT !.pc = "read", !.order = o, !.left = @ \ {o}]
    OBVIOUS
  <1>9. q \in Writer /\ q.pc = "read" /\ q.order = o /\ q.left = writer[w].left \ {o} /\ q.member = Nobody
        /\ q.given = writer[w].given
    BY <1>3, <1>4, <1>8 DEF Writer, SyncPc
  <1>10. Formed(w, q)
    BY <1>3, <1>4, <1>9, MembersAssumption DEF Formed, Syncing
  <1>11. Placed(o) /\ s.phone # Nobody
    <2>1. o \in OrdersOf(writer[w])
      BY <1>4 DEF OrdersOf
    <2> QED
      BY <1>4, <1>6, <2>1, MembersAssumption DEF Sane
  <1>12. drift' \in BOOLEAN /\ writer' = [writer EXCEPT ![w] = q] /\ q.left \subseteq writer[w].left
    BY <1>1, <1>8, <1>9, SaneIs DEF Recording
  <1> QED
    BY <1>2, <1>4, <1>6, <1>7, <1>9, <1>10, <1>11, <1>12, SaneWrites

\* recordOrder reads the order and finds its member.
LEMMA SaneReads ==
    ASSUME Sane, NEW w \in Writers, ReadPurchase(w)
    PROVE  Sane'
  <1>1. PICK q : q = [writer[w] EXCEPT !.pc = "find", !.phone = purchase[writer[w].order].phone,
                                       !.previous = purchase[writer[w].order].link]
    OBVIOUS
  <1>2. writer[w].pc = "read" /\ w # Script /\ writer[w] \in Writer /\ Formed(w, writer[w])
    BY SaneIs DEF ReadPurchase, WriterAt
  <1>3. writer[w].order \in Created /\ writer[w].order # Nobody /\ purchase[writer[w].order] \in Purchase
    BY <1>2 DEF Formed, Writer, Sane, MembersTypeOK
  <1>4. /\ q \in Writer /\ q.pc = "find" /\ q.order = writer[w].order /\ q.left = writer[w].left
        /\ q.member = writer[w].member /\ q.given = writer[w].given
    BY <1>1, <1>2, <1>3 DEF Writer, SyncPc, Purchase
  <1>5. Formed(w, q)
    BY <1>2, <1>3, <1>4 DEF Formed, Syncing
  <1>6. UNCHANGED <<purchase, member, script, drift>> /\ writer' = [writer EXCEPT ![w] = q]
    BY <1>1 DEF ReadPurchase, Go
  <1> QED
    BY <1>4, <1>5, <1>6, SaneIs, SaneOrders, SaneGoesOn

LEMMA SaneFound ==
    ASSUME Sane, NEW w \in Writers, writer[w].pc \in {"find", "upsert"}, NEW m \in Members
    PROVE  /\ Found(w, m) \in Writer /\ Formed(w, Found(w, m))
           /\ Found(w, m).order = writer[w].order /\ Found(w, m).left = writer[w].left
  <1>1. w # Script /\ writer[w] \in Writer /\ Formed(w, writer[w])
    BY SaneIs
  <1>2. PICK pc \in {"member", "link"} : Found(w, m) = [writer[w] EXCEPT !.pc = pc, !.member = m]
    BY DEF Found
  <1>3. PICK q : q = [writer[w] EXCEPT !.pc = pc, !.member = m]
    OBVIOUS
  <1>4. /\ q \in Writer /\ q.pc = pc /\ q.member = m /\ q.order = writer[w].order /\ q.left = writer[w].left
        /\ q.given = writer[w].given /\ q.previous = writer[w].previous
    BY <1>1, <1>3 DEF Writer, SyncPc
  <1>5. Formed(w, q)
    BY <1>1, <1>4 DEF Formed, Syncing
  <1> QED
    BY <1>2, <1>3, <1>4, <1>5

LEMMA SaneFinds ==
    ASSUME Sane, NEW w \in Writers, FindMember(w) \/ UpsertMember(w)
    PROVE  Sane'
  <1>0. writer[w].pc \in {"find", "upsert"} /\ UNCHANGED <<purchase, script, drift>>
    BY DEF FindMember, UpsertMember, WriterAt
  <1>1. CASE UNCHANGED member /\ \E m \in Members : writer' = [writer EXCEPT ![w] = Found(w, m)]
    <2>1. PICK m \in Members : writer' = [writer EXCEPT ![w] = Found(w, m)]
      BY <1>1
    <2>2. PICK q : q = Found(w, m)
      OBVIOUS
    <2>3. q \in Writer /\ Formed(w, q) /\ q.order = writer[w].order /\ q.left = writer[w].left
      BY <1>0, <2>2, SaneFound
    <2>4. \A o \in OrdersOf(q) : o \in OrdersOf(writer[w]) \/ Placed(o)
      BY <2>3, SaneOrders
    <2> QED
      BY <1>0, <1>1, <2>1, <2>2, <2>3, <2>4, SaneIs, SaneGoesOn
  <1>2. CASE /\ writer[w].pc = "find" /\ UNCHANGED member
             /\ writer' = [writer EXCEPT ![w] = [writer[w] EXCEPT !.pc = "upsert"]]
    <2>1. PICK q : q = [writer[w] EXCEPT !.pc = "upsert"]
      OBVIOUS
    <2>2. w # Script /\ writer[w] \in Writer /\ Formed(w, writer[w])
      BY SaneIs
    <2>3. /\ q \in Writer /\ q.pc = "upsert" /\ q.order = writer[w].order /\ q.left = writer[w].left
          /\ q.member = writer[w].member /\ q.given = writer[w].given /\ q.previous = writer[w].previous
      BY <2>1, <2>2 DEF Writer, SyncPc
    <2>4. Formed(w, q)
      BY <1>2, <2>2, <2>3 DEF Formed, Syncing
    <2>5. \A o \in OrdersOf(q) : o \in OrdersOf(writer[w]) \/ Placed(o)
      BY <2>3, SaneOrders
    <2> QED
      BY <1>0, <1>2, <2>1, <2>3, <2>4, <2>5, SaneIs, SaneGoesOn
  <1>3. CASE /\ Owner(writer[w].phone) = {}
             /\ \E m \in Members :
                   /\ member' = [member EXCEPT ![m] = [NoMember EXCEPT !.phone = writer[w].phone]]
                   /\ writer' = [writer EXCEPT ![w] = Found(w, m)]
    <2>1. PICK m \in Members :
             /\ member' = [member EXCEPT ![m] = [NoMember EXCEPT !.phone = writer[w].phone]]
             /\ writer' = [writer EXCEPT ![w] = Found(w, m)]
      BY <1>3
    <2>2. PICK q : q = Found(w, m)
      OBVIOUS
    <2>3. q \in Writer /\ Formed(w, q) /\ q.order = writer[w].order /\ q.left = writer[w].left
      BY <1>0, <2>2, SaneFound
    <2>4. PICK d : d = [NoMember EXCEPT !.phone = writer[w].phone]
      OBVIOUS
    <2>5. d \in [phone: Phones \cup {Nobody}, fields: Fields] /\ d.phone = writer[w].phone
      <3>1. NoFields \in Fields /\ writer[w].phone \in Phones \cup {Nobody}
        BY RestingIs, SaneIs DEF Resting, Writer
      <3> QED
        BY <2>4, <3>1 DEF NoMember
    <2>6. member \in [Members -> [phone: Phones \cup {Nobody}, fields: Fields]] /\ OneMemberPerPhone
      BY DEF Sane, MembersTypeOK
    <2>7. /\ member' \in [Members -> [phone: Phones \cup {Nobody}, fields: Fields]]
          /\ \A n \in Members : member'[n] = IF n = m THEN d ELSE member[n]
      BY <2>1, <2>4, <2>5, <2>6
    <2>8. OneMemberPerPhone'
      <3>1. \A n \in Members : member[n].phone # writer[w].phone
        BY <1>3 DEF Owner
      <3>2. ASSUME NEW n \in Members, NEW k \in Members, n # k, member'[n].phone # Nobody
            PROVE  member'[n].phone # member'[k].phone
        BY <2>5, <2>6, <2>7, <3>1, <3>2 DEF OneMemberPerPhone, Exists
      <3> QED
        BY <3>2 DEF OneMemberPerPhone, Exists
    <2>9. \A o \in OrdersOf(q) : purchase'[o].phone # Nobody
      BY <1>0, <2>3, SaneOrders DEF Sane, Placed
    <2> QED
      BY <1>0, <2>1, <2>2, <2>3, <2>7, <2>8, <2>9, SaneIs, SaneMoves
  <1> QED
    BY <1>1, <1>2, <1>3 DEF FindMember, UpsertMember, Owner, Go, WriterAt

\* The order is linked, or the request believes that it is.
LEMMA SaneLinks ==
    ASSUME Sane, NEW w \in Writers, LinkOrder(w)
    PROVE  Sane'
  <1>1. PICK q : q = [writer[w] EXCEPT !.pc = "member"]
    OBVIOUS
  <1>2. /\ writer[w].pc = "link" /\ w # Script /\ writer[w] \in Writer /\ Formed(w, writer[w])
        /\ writer[w].member \in Members
    BY SaneIs DEF LinkOrder, WriterAt, Formed
  <1>3. /\ q \in Writer /\ q.pc = "member" /\ q.order = writer[w].order /\ q.left = writer[w].left
        /\ q.member = writer[w].member /\ q.given = writer[w].given /\ q.previous = writer[w].previous
    BY <1>1, <1>2 DEF Writer, SyncPc
  <1>4. Formed(w, q)
    BY <1>2, <1>3 DEF Formed, Syncing
  <1>5. PICK S : S = ToLink(w, writer[w].member)
    OBVIOUS
  <1>6. \A o \in S : o = writer[w].order
    BY <1>2, <1>5 DEF ToLink
  <1>7. /\ purchase' = [x \in Created |-> IF x \in S THEN [purchase[x] EXCEPT !.link = writer[w].member]
                                         ELSE purchase[x]]
        /\ UNCHANGED <<member, script, drift>> /\ writer' = [writer EXCEPT ![w] = q]
    BY <1>1, <1>2, <1>5 DEF LinkOrder, Go
  <1>8. purchase \in [Created -> Purchase]
    BY DEF Sane, MembersTypeOK
  <1>9. \A x \in Created : /\ purchase'[x] \in Purchase /\ purchase'[x].phone = purchase[x].phone
                           /\ x \notin S => purchase'[x] = purchase[x]
    BY <1>2, <1>7, <1>8 DEF Purchase
  <1>10. \A x \in Created : x \in S => Placed(x)
    <2>1. \A x \in Created : x \in S => x \in OrdersOf(writer[w])
      BY <1>6 DEF OrdersOf
    <2> QED
      BY <2>1 DEF Sane
  <1>11. /\ purchase' \in [Created -> Purchase]
         /\ \A x \in Created : /\ Placed(x) => purchase'[x].phone # Nobody
                               /\ purchase'[x].phone # Nobody \/ purchase'[x].link = Nobody
    BY <1>7, <1>9, <1>10 DEF Placed, Sane
  <1>12. \A x \in OrdersOf(q) : purchase'[x].phone # Nobody
    <2>1. \A x \in OrdersOf(q) : x \in Created /\ Placed(x)
      BY <1>3, SaneOrders DEF Sane, OrdersOf
    <2> QED
      BY <1>11, <2>1
  <1> QED
    BY <1>3, <1>4, <1>7, <1>11, <1>12, SaneIs, SaneMoves

\* A request goes on with its member, or is done with it.
LEMMA SaneAmong ==
    ASSUME Sane, NEW w \in Writers, writer[w].pc \in Syncing, NEW q,
           \/ /\ q \in Writer /\ q.pc \in Syncing /\ q.order = writer[w].order /\ q.left = writer[w].left
              /\ q.member = writer[w].member /\ q.given = writer[w].given /\ q.previous = writer[w].previous
           \/ q = Recorded(writer[w])
           \/ q = Synced(writer[w])
    PROVE  q \in Writer /\ Formed(w, q) /\ \A o \in OrdersOf(q) : o \in OrdersOf(writer[w]) \/ Placed(o)
  <1>1. w # Script /\ writer[w] \in Writer /\ Formed(w, writer[w])
    BY SaneIs
  <1>2. CASE /\ q \in Writer /\ q.pc \in Syncing /\ q.order = writer[w].order /\ q.left = writer[w].left
             /\ q.member = writer[w].member /\ q.given = writer[w].given /\ q.previous = writer[w].previous
    BY <1>1, <1>2, SaneOrders DEF Formed, Syncing
  <1>3. CASE q = Recorded(writer[w])
    <2>1. /\ q \in Writer /\ q.pc = (IF writer[w].left = {} THEN "idle" ELSE "save") /\ q.left = writer[w].left
          /\ q.order = Nobody /\ q.member = Nobody /\ q.previous = Nobody
          /\ (q.left # {} => q.given = writer[w].given)
      BY <1>1, <1>3, RecordedIs
    <2> QED
      BY <1>1, <2>1, SaneOrders DEF Formed, Syncing
  <1>4. CASE q = Synced(writer[w])
    BY <1>1, <1>4, SyncedFits, SaneOrders
  <1> QED
    BY <1>2, <1>3, <1>4

LEMMA SaneSyncs ==
    ASSUME Sane, NEW w \in Writers, ReadMember(w) \/ ReadPicture(w)
    PROVE  Sane'
  <1>0. /\ writer[w].pc \in Syncing /\ writer[w].member \in Members /\ writer[w] \in Writer /\ w # Script
        /\ Formed(w, writer[w]) /\ UNCHANGED <<purchase, member, script>>
    BY SaneIs DEF ReadMember, ReadPicture, WriterAt, Syncing, Formed
  <1>1. MembersTypeOK /\ drift' \in BOOLEAN
    BY SaneIs DEF ReadMember, ReadPicture, Misled, Sane
  <1>2. ASSUME NEW q,
               \/ /\ q \in Writer /\ q.pc \in Syncing /\ q.order = writer[w].order /\ q.left = writer[w].left
                  /\ q.member = writer[w].member /\ q.given = writer[w].given /\ q.previous = writer[w].previous
               \/ q = Recorded(writer[w])
               \/ q = Synced(writer[w]),
               writer' = [writer EXCEPT ![w] = q]
        PROVE  Sane'
    <2>1. q \in Writer /\ Formed(w, q) /\ \A o \in OrdersOf(q) : o \in OrdersOf(writer[w]) \/ Placed(o)
      BY <1>0, <1>2, SaneAmong
    <2> QED
      BY <1>0, <1>1, <1>2, <2>1, SaneGoesOn
  <1>3. CASE writer' = [writer EXCEPT ![w] = [writer[w] EXCEPT !.pc = "picture", !.fresh = TRUE,
                                                                !.stored = member[writer[w].member].fields]]
    <2>1. PICK q : q = [writer[w] EXCEPT !.pc = "picture", !.fresh = TRUE, !.stored = member[writer[w].member].fields]
      OBVIOUS
    <2>2. member[writer[w].member].fields \in Fields
      BY <1>0, <1>1 DEF MembersTypeOK
    <2>3. /\ q \in Writer /\ q.pc \in Syncing /\ q.order = writer[w].order /\ q.left = writer[w].left
          /\ q.member = writer[w].member /\ q.given = writer[w].given /\ q.previous = writer[w].previous
      BY <1>0, <2>1, <2>2 DEF Writer, SyncPc, Syncing
    <2> QED
      BY <1>2, <1>3, <2>1, <2>3
  <1>4. CASE writer' = [writer EXCEPT ![w] = Recorded(writer[w])] \/ writer' = [writer EXCEPT ![w] = Synced(writer[w])]
    BY <1>2, <1>4
  <1>5. CASE /\ writer[w].order # Nobody
             /\ writer' = [writer EXCEPT ![w] = [writer[w] EXCEPT !.pc = "read", !.pass = 1, !.tries = 0, !.member = Nobody]]
    <2>1. PICK q : q = [writer[w] EXCEPT !.pc = "read", !.pass = 1, !.tries = 0, !.member = Nobody]
      OBVIOUS
    <2>2. /\ q \in Writer /\ q.pc = "read" /\ q.left = writer[w].left /\ q.order = writer[w].order
          /\ q.member = Nobody /\ q.previous = writer[w].previous /\ q.given = writer[w].given
      <3>1. 1 \in 0 .. 1 /\ 0 \in Nat
        OBVIOUS
      <3>2. PICK Passes : Passes = 0 .. 1
        OBVIOUS
      <3>3. Writer = [pc : SyncPc, left : SUBSET Created, text : Texts, given : Phones \cup {Nobody}, phone : Phones \cup {Nobody},
                      order : Created \cup {Nobody}, member : Members \cup {Nobody},
                      previous : Members \cup {Nobody}, fresh : BOOLEAN, stored : Fields, fields : Fields,
                      tries : Nat, pass : Passes]
        BY <3>2 DEF Writer
      <3> QED
        BY <1>0, <2>1, <3>1, <3>2, <3>3 DEF SyncPc
    <2>3. Formed(w, q)
      BY <1>0, <1>5, <2>2 DEF Formed, Syncing
    <2>4. \A o \in OrdersOf(q) : o \in OrdersOf(writer[w]) \/ Placed(o)
      BY <2>2, SaneOrders
    <2> QED
      BY <1>0, <1>1, <1>5, <2>1, <2>2, <2>3, <2>4, SaneGoesOn
  <1>6. CASE writer' = [writer EXCEPT ![w] = [writer[w] EXCEPT !.pc = "remove", !.stored = NoFields]]
    <2>1. PICK q : q = [writer[w] EXCEPT !.pc = "remove", !.stored = NoFields]
      OBVIOUS
    <2>2. /\ q \in Writer /\ q.pc \in Syncing /\ q.order = writer[w].order /\ q.left = writer[w].left
          /\ q.member = writer[w].member /\ q.given = writer[w].given /\ q.previous = writer[w].previous
      BY <1>0, <2>1, RestingIs DEF Writer, SyncPc, Syncing, Resting
    <2> QED
      BY <1>2, <1>6, <2>1, <2>2
  <1>7. CASE writer' = [writer EXCEPT ![w] = [writer[w] EXCEPT !.pc = "write", !.stored = NoFields,
                                                                !.fields = PictureOf(writer[w].member)]]
    <2>1. PICK q : q = [writer[w] EXCEPT !.pc = "write", !.stored = NoFields, !.fields = PictureOf(writer[w].member)]
      OBVIOUS
    <2>2. PictureOf(writer[w].member) \in Fields /\ NoFields \in Fields
      BY <1>0, <1>1, PictureIs, RestingIs DEF Resting, Writer
    <2>3. /\ q \in Writer /\ q.pc \in Syncing /\ q.order = writer[w].order /\ q.left = writer[w].left
          /\ q.member = writer[w].member /\ q.given = writer[w].given /\ q.previous = writer[w].previous
      BY <1>0, <2>1, <2>2 DEF Writer, SyncPc, Syncing
    <2> QED
      BY <1>2, <1>7, <2>1, <2>3
  <1> QED
    BY <1>3, <1>4, <1>5, <1>6, <1>7 DEF ReadMember, ReadPicture, Go

\* The member is written or removed, or its version moved.
LEMMA SaneStores ==
    ASSUME Sane, NEW w \in Writers, WriteMember(w) \/ RemoveMember(w)
    PROVE  Sane'
  <1>0. /\ writer[w].pc \in Syncing /\ writer[w].member \in Members /\ writer[w] \in Writer /\ w # Script
        /\ w \in Everyone /\ Formed(w, writer[w]) /\ UNCHANGED purchase /\ drift \in BOOLEAN
        /\ writer \in [Everyone -> Writer]
    BY SaneIs DEF WriteMember, RemoveMember, WriterAt, Syncing, Formed
  <1>1. CASE Again(w) /\ UNCHANGED member
    <2>1. CASE writer' = [writer EXCEPT ![w] = [writer[w] EXCEPT !.pc = "member", !.fields = NoFields, !.fresh = FALSE,
                                                                  !.tries = @ + 1]] /\ UNCHANGED <<script, drift>>
      <3>1. PICK q : q = [writer[w] EXCEPT !.pc = "member", !.fields = NoFields, !.fresh = FALSE, !.tries = @ + 1]
        OBVIOUS
      <3>2. NoFields \in Fields /\ writer[w].tries + 1 \in Nat
        BY <1>0, RestingIs DEF Resting, Writer
      <3>3. /\ q \in Writer /\ q.pc \in Syncing /\ q.order = writer[w].order /\ q.left = writer[w].left
            /\ q.member = writer[w].member /\ q.given = writer[w].given /\ q.previous = writer[w].previous
        BY <1>0, <3>1, <3>2 DEF Writer, SyncPc, Syncing
      <3>4. Formed(w, q) /\ \A o \in OrdersOf(q) : o \in OrdersOf(writer[w]) \/ Placed(o)
        BY <1>0, <3>3, SaneAmong
      <3> QED
        BY <1>0, <1>1, <2>1, <3>1, <3>3, <3>4, SaneGoesOn
    <2>2. CASE writer' = [writer EXCEPT ![w] = Recorded(writer[w])] /\ UNCHANGED script /\ drift' = TRUE
      <3>1. PICK q : q = Recorded(writer[w])
        OBVIOUS
      <3>2. q \in Writer /\ Formed(w, q) /\ \A o \in OrdersOf(q) : o \in OrdersOf(writer[w]) \/ Placed(o)
        BY <1>0, <3>1, SaneAmong
      <3> QED
        BY <1>0, <1>1, <2>2, <3>1, <3>2, SaneGoesOn
    <2> QED
      BY <1>0, <1>1, <2>1, <2>2 DEF Again, Go
  <1>2. CASE /\ Written(w) /\ UNCHANGED <<script, drift>>
             /\ \E d \in [phone: Phones \cup {Nobody}, fields: Fields] :
                   /\ member' = [member EXCEPT ![writer[w].member] = d]
                   /\ d.phone \in {Nobody, member[writer[w].member].phone}
    <2>1. PICK q : q = Synced(writer[w])
      OBVIOUS
    <2>2. q \in Writer /\ Formed(w, q) /\ \A o \in OrdersOf(q) : o \in OrdersOf(writer[w]) \/ Placed(o)
      BY <1>0, <2>1, SaneAmong
    <2>3. /\ writer'[w] = q /\ writer' \in [Everyone -> Writer]
          /\ \A x \in Everyone \ {w} : writer'[x] \in {writer[x], [writer[x] EXCEPT !.fresh = FALSE]}
      <3>1. \A x \in Everyone : [writer[x] EXCEPT !.fresh = FALSE] \in Writer
        BY <1>0 DEF Writer
      <3>2. writer' = [x \in Everyone |->
                          IF x = w THEN q
                          ELSE IF writer[x].member = writer[w].member
                          THEN [writer[x] EXCEPT !.fresh = FALSE] ELSE writer[x]]
        BY <1>2, <2>1 DEF Written
      <3> QED
        BY <1>0, <2>2, <3>1, <3>2
    <2>4. PICK d \in [phone: Phones \cup {Nobody}, fields: Fields] :
             /\ member' = [member EXCEPT ![writer[w].member] = d]
             /\ d.phone \in {Nobody, member[writer[w].member].phone}
      BY <1>2
    <2>5. member \in [Members -> [phone: Phones \cup {Nobody}, fields: Fields]] /\ OneMemberPerPhone
      BY DEF Sane, MembersTypeOK
    <2>6. member' \in [Members -> [phone: Phones \cup {Nobody}, fields: Fields]]
      BY <2>4, <2>5
    <2>7. OneMemberPerPhone'
      <3>1. \A m \in Members : member'[m].phone \in {Nobody, member[m].phone}
        BY <1>0, <2>4, <2>5
      <3> QED
        BY <2>5, <3>1 DEF OneMemberPerPhone, Exists
    <2>8. \A o \in OrdersOf(q) : purchase'[o].phone # Nobody
      BY <1>0, <2>2 DEF Sane, Placed
    <2> QED
      BY <1>0, <1>2, <2>2, <2>3, <2>6, <2>7, <2>8, SaneIs, SaneMoves
  <1>3. \A m \in Members : member[m] \in [phone: Phones \cup {Nobody}, fields: Fields]
    BY DEF Sane, MembersTypeOK
  <1>4. CASE WriteMember(w)
    <2>1. PICK d : d = [member[writer[w].member] EXCEPT !.fields = writer[w].fields]
      OBVIOUS
    <2>2. d \in [phone: Phones \cup {Nobody}, fields: Fields] /\ d.phone = member[writer[w].member].phone
      BY <1>0, <1>3, <2>1 DEF Writer
    <2>3. CASE /\ member' = [member EXCEPT ![writer[w].member].fields = writer[w].fields]
               /\ Written(w) /\ UNCHANGED <<script, drift>>
      BY <1>2, <2>1, <2>2, <2>3
    <2> QED
      BY <1>1, <1>4, <2>3 DEF WriteMember
  <1>5. CASE RemoveMember(w)
    <2>1. NoMember \in [phone: Phones \cup {Nobody}, fields: Fields] /\ NoMember.phone = Nobody
      BY RestingIs DEF Resting, Writer, NoMember
    <2>2. CASE member' = [member EXCEPT ![writer[w].member] = NoMember] /\ Written(w) /\ UNCHANGED <<script, drift>>
      BY <1>2, <2>1, <2>2
    <2> QED
      BY <1>1, <1>5, <2>2 DEF RemoveMember
  <1> QED
    BY <1>4, <1>5

\* Every step while orders are changed under requests that record them.
LEMMA SaneStep ==
    ASSUME Quiet, Sane, drift \/ drift', [MembersNext]_membersVars
    PROVE  drift' /\ (Sane' \/ WholeInv')
  <1>1. ~On /\ writer[Script].pc = "idle" /\ script.phase = "off"
    BY DEF Sane, WriterAt, On
  <1>2. CASE UNCHANGED membersVars
    <2>1. UNCHANGED <<purchase, member, writer, script, drift>>
      BY <1>2 DEF membersVars
    <2>2. MembersTypeOK' /\ OneMemberPerPhone' /\ (On' <=> On)
      BY <2>1 DEF Sane, MembersTypeOK, OneMemberPerPhone, Exists, On
    <2>3. \A w \in Everyone : Formed(w, writer[w])'
      BY <2>1 DEF Sane, Formed
    <2>4. \A w \in Writers : \A o \in OrdersOf(writer[w])' : Placed(o)'
      BY <2>1 DEF Sane, OrdersOf, Placed
    <2> QED
      BY <2>1, <2>2, <2>3, <2>4 DEF Sane, WriterAt, Placed
  <1>3. ASSUME NEW w \in Writers, NEW o \in Created, NEW p \in Phones, NEW t \in Texts,
               PlaceOrder(w, o, p, t) \/ ReadForAddress(w, o, p, t) \/ FindPending(w, p, t)
        PROVE  drift' /\ Sane'
    BY <1>3, SaneStarts DEF PlaceOrder, ReadForAddress, FindPending
  <1>4. ASSUME NEW w \in Writers, NEW p \in Phones, NEW t \in Texts, FindPending(w, p, t)
        PROVE  drift' /\ Sane'
    <2>1. PICK o \in Created : TRUE
      BY <1>4 DEF FindPending
    <2> QED
      BY <1>3, <1>4, <2>1
  <1>5. ASSUME NEW w \in Writers, NEW o \in Created, NEW flag \in BOOLEAN, FlipDeleted(w, o, flag)
        PROVE  drift' /\ Sane'
    BY <1>5, SaneFlips DEF FlipDeleted
  <1>6. ASSUME NEW w \in Writers, SaveAddress(w) \/ ReadPurchase(w)
        PROVE  drift' /\ Sane'
    BY <1>6, SaneSaves, SaneReads DEF SaveAddress, ReadPurchase
  <1>7. ASSUME NEW w \in Writers, FindMember(w) \/ UpsertMember(w) \/ LinkOrder(w)
        PROVE  drift' /\ Sane'
    BY <1>7, SaneFinds, SaneLinks DEF FindMember, UpsertMember, LinkOrder
  <1>8. ASSUME NEW w \in Writers, ReadMember(w) \/ ReadPicture(w)
        PROVE  drift' /\ Sane'
    BY <1>8, SaneSyncs DEF ReadMember, ReadPicture
  <1>9. ASSUME NEW w \in Writers, WriteMember(w) \/ RemoveMember(w)
        PROVE  drift' /\ Sane'
    <2>1. drift' \in {drift, TRUE}
      BY <1>9 DEF WriteMember, RemoveMember, Again
    <2> QED
      BY <1>9, <2>1, SaneStores
  <1>10. ASSUME NEW w \in Everyone, WriterDies(w)
         PROVE  drift' /\ Sane'
    <2>1. /\ w \in Writers /\ w # Script /\ drift' = TRUE /\ writer' = [writer EXCEPT ![w] = Resting]
          /\ UNCHANGED <<purchase, member, script>>
      BY <1>1, <1>10, MembersAssumption DEF WriterDies, WriterAt, Everyone, Go
    <2>2. Formed(w, Resting) /\ \A o \in OrdersOf(Resting) : o \in OrdersOf(writer[w]) \/ Placed(o)
      BY <2>1, RestingIs, MembersAssumption DEF Formed, Syncing, OrdersOf
    <2> QED
      BY <2>1, <2>2, RestingIs, SaneGoesOn
  <1>11. CASE StartBackfill
    <2>1. drift /\ drift' /\ \A w \in Writers : WriterAt(w, "idle")
      BY <1>11 DEF StartBackfill
    <2>2. WholeInv
      BY <2>1, SaneAtRest
    <2> QED
      BY <1>11, <2>1, <2>2, BackfillStarts
  <1>12. CASE ReadExisting \/ ReadCurrent \/ BackfillDone \/ (\E p \in Phones : BackfillGroup(p))
              \/ (\E m \in Members : SweepMember(m))
    BY <1>1, <1>12 DEF ReadExisting, ReadCurrent, BackfillDone, BackfillGroup, SweepMember, ScriptAt
  <1>13. CASE \/ FindMember(Script)  \/ UpsertMember(Script) \/ LinkOrder(Script) \/ ReadMember(Script)
              \/ ReadPicture(Script) \/ WriteMember(Script)  \/ RemoveMember(Script)
    BY <1>1, <1>13 DEF FindMember, UpsertMember, LinkOrder, ReadMember, ReadPicture, WriteMember, RemoveMember, WriterAt
  <1>14. ASSUME NEW w \in Everyone, \/ FindMember(w)  \/ UpsertMember(w) \/ LinkOrder(w) \/ ReadMember(w)
                                    \/ ReadPicture(w) \/ WriteMember(w)  \/ RemoveMember(w)
         PROVE  drift' /\ (Sane' \/ WholeInv')
    <2>1. CASE w = Script
      BY <1>13, <1>14, <2>1
    <2>2. CASE w \in Writers
      BY <1>7, <1>8, <1>9, <1>14, <2>2
    <2> QED
      BY <2>1, <2>2 DEF Everyone
  <1> QED
    BY <1>2, <1>3, <1>4, <1>5, <1>6, <1>10, <1>11, <1>12, <1>14 DEF MembersNext

LEMMA MembersStart == MembersInit => MembersInv
  BY WholeStart DEF MembersInv

\* Every call of a request or of the script preserves the invariant.
LEMMA MembersStep ==
    ASSUME Quiet, MembersInv, [MembersNext]_membersVars
    PROVE  MembersInv'
  <1>1. CASE WholeInv /\ ~(~On /\ drift')
    BY <1>1, WholeStep DEF MembersInv
  <1>2. CASE WholeInv /\ ~On /\ drift'
    BY <1>2, WholeIsSane, SaneStep DEF MembersInv
  <1>3. CASE Sane /\ drift
    BY <1>3, SaneStep DEF MembersInv
  <1> QED
    BY <1>1, <1>2, <1>3 DEF MembersInv

LEMMA MembersInvOrders == MembersInv => MembersInOrder /\ MembersTypeOK
  <1> SUFFICES ASSUME MembersInv PROVE MembersInOrder /\ MembersTypeOK
    OBVIOUS
  <1>1. ASSUME AtRest, ~drift PROVE EverythingMatches
    <2>1. Cared /\ Housed /\ \A w \in Writers : writer[w].pc = "idle" /\ writer[w].order = Nobody
      BY <1>1 DEF AtRest, On, WholeInv, MembersInv, WriterAt, Everyone, Formed
    <2>2. \A m \in Members : Exists(m) => Right(m)
      BY <2>1 DEF Cared, Owes, RightForGood, Syncing
    <2>3. \A o \in Created : Placed(o) => Home(o)
      BY <2>1, MembersAssumption DEF Housed
    <2> QED
      BY <2>2, <2>3 DEF EverythingMatches, Right, Home
  <1> QED
    BY <1>1 DEF MembersInOrder, MembersMatch, MembersInv, WholeInv, Sane

\* One member for each phone, always.  And whenever nothing runs, every order is
\* linked to the member with its phone and a member shows what its orders make
\* it, however requests interleave; unless since the last repair one died, gave
\* up or was misled, or an order was changed while another request was recording
\* it.  A backfill that moved no order repairs what any of these left
\* (recordOrder, syncMember, backfill-tribe-members.ts).
THEOREM MembersAlwaysInOrder ==
    ASSUME Quiet
    PROVE  MembersSpec => []MembersInOrder
  <1>1. MembersInv /\ [MembersNext]_membersVars => MembersInv'
    BY MembersStep
  <1>2. QED
    BY <1>1, MembersStart, MembersInvOrders, PTL DEF MembersSpec

-----------------------------------------------------------------------------
(***************************************************************************)
(* The four together                                                       *)
(***************************************************************************)
RecordsInv == MembersInv /\ ItemsInv /\ PapersInv /\ StockInv

LEMMA RecordsStep ==
    ASSUME Quiet, RecordsInv, [Next]_partVars
    PROVE  RecordsInv'
  <1>1. /\ [MembersNext]_membersVars /\ [ItemsNext]_itemsVars
        /\ [InvoicesNext]_invoiceVars /\ [StockNext]_stockVars
    <2>1. CASE UNCHANGED partVars
      BY <2>1 DEF partVars
    <2>2. CASE Next
      BY <2>2 DEF Next
    <2> QED
      BY <2>1, <2>2
  <1>2. MembersInv'
    BY <1>1, MembersStep DEF RecordsInv
  <1>3. ItemsInv'
    BY <1>1, ItemsStep DEF RecordsInv
  <1>4. PapersInv'
    BY <1>1, PapersStepInv DEF RecordsInv
  <1>5. StockInv'
    BY <1>1, StockStep DEF RecordsInv
  <1> QED
    BY <1>2, <1>3, <1>4, <1>5 DEF RecordsInv

LEMMA RecordsInvTypes == RecordsInv => RecordsTypeOK
  <1> SUFFICES ASSUME RecordsInv PROVE RecordsTypeOK
    OBVIOUS
  <1>1. MembersTypeOK /\ StockTypeOK
    BY MembersInvOrders, StockInvExplains DEF RecordsInv
  <1>2. ItemsTypeOK
    BY DEF RecordsInv, ItemsInv, ItemsTyped, ItemsTypeOK, Board
  <1>3. InvoicesTypeOK
    <2>1. AnyNumber = Numbers
      BY InvoiceAssumption DEF AnyNumber
    <2>2. /\ invoice \in [Papers -> Paper] /\ bucket \subseteq Errands /\ errand \in [Errands -> Asked]
      BY DEF RecordsInv, PapersInv, PapersTyped
    <2> QED
      BY <2>1, <2>2 DEF InvoicesTypeOK, Paper, Asked
  <1> QED
    BY <1>1, <1>2, <1>3 DEF RecordsTypeOK

\* Members, lines, invoices and sizes keep their types.
THEOREM RecordsTypeCorrect ==
    ASSUME Quiet
    PROVE  Spec => []RecordsTypeOK
  <1>1. Init => RecordsInv
    BY MembersStart, ItemsStart, PapersStart, StockInitInv DEF Init, RecordsInv
  <1>2. RecordsInv /\ [Next]_partVars => RecordsInv'
    BY RecordsStep
  <1>3. QED
    BY <1>1, <1>2, RecordsInvTypes, PTL DEF Spec
=============================================================================
