---------------------------- MODULE StockProofs ----------------------------
(***************************************************************************)
(* The transactions of Stock carry out the operations of StockBook, one at *)
(* a time, for every set of requests, items, batches and documents.        *)
(*                                                                         *)
(* The invariant (StockInv): each request is somewhere in its program,     *)
(* holds the locks it has passed, and what it read still stands, since     *)
(* nothing another request may commit meanwhile moves the stock or the     *)
(* document it has locked; no two requests hold locks that conflict; those *)
(* under way still fit the bound on what is done.  From it: only purchases *)
(* can be in a deadlock of two, and a commit is an operation of the book.  *)
(***************************************************************************)
EXTENDS Stock, SumsProofs, SequenceTheorems

(***************************************************************************)
(* What a request has done and has left to do (Stock).                     *)
(***************************************************************************)

\* The items a request moves, and whether it works on a document there is.
MovedItems(op) == ToSet(ItemsMoved(op))
OnDocument(op) == op.kind \in {"cancel", "return", "sendBack", "receive", "callBack"}
Makes(op) == op.kind \in {"sale", "purchase", "transfer"}

\* The locks each kind of request takes, and its other steps.
Steps(op) ==
    {Read, Commit}
      \cup {<<"stock", Place(op), i>> : i \in MovedItems(op)}
      \cup {<<"share", i>> : i \in MovedItems(op)}
      \cup {<<"branch", Place(op)>>}
      \cup (IF OnDocument(op) THEN {<<"doc", op.doc>>} ELSE {})
      \cup (IF op.kind = "sale" THEN {<<"key", op.doc>>} ELSE {})
      \cup (IF op.kind = "purchase" THEN {<<"item", i>> : i \in MovedItems(op)} ELSE {})

\* The order of the steps of a request: by what they are, and the stock locks by item.
Turn(kind, what) ==
    IF what = "doc" THEN 1
    ELSE IF what = "item" THEN 2
    ELSE IF what = "read" THEN IF kind \in {"cancel", "return", "receive", "callBack"} THEN 2 ELSE 4
    ELSE IF what = "stock" THEN IF kind = "purchase" THEN 8 ELSE 3
    ELSE IF what = "key" THEN 5
    ELSE IF what = "branch" THEN IF kind = "sale" THEN 7 ELSE 5
    ELSE IF what = "share" THEN 6
    ELSE 9
Before(kind, l, m) ==
    \/ Turn(kind, l[1]) < Turn(kind, m[1])
    \/ l[1] = m[1] /\ l[1] \in {"share", "item"}
    \/ l[1] = "stock" /\ m[1] = "stock" /\ l[3] < m[3]
Ordered(kind, s) == \A m, n \in DOMAIN s : m < n => Before(kind, s[m], s[n])

LEMMA ConcatOrdered ==
    ASSUME NEW S, NEW s \in Seq(S), NEW t \in Seq(S), NEW kind, Ordered(kind, s), Ordered(kind, t),
           \A x \in ToSet(s), y \in ToSet(t) : Before(kind, x, y)
    PROVE  s \o t \in Seq(S) /\ Ordered(kind, s \o t) /\ ToSet(s \o t) = ToSet(s) \cup ToSet(t)
<1>1. /\ s \o t \in Seq(S) /\ Len(s \o t) = Len(s) + Len(t)
      /\ \A n \in 1..(Len(s) + Len(t)) : (s \o t)[n] = IF n <= Len(s) THEN s[n] ELSE t[n - Len(s)]
  BY ConcatProperties
<1>2. /\ Len(s) \in Nat /\ Len(t) \in Nat /\ DOMAIN s = 1..Len(s) /\ DOMAIN t = 1..Len(t)
      /\ DOMAIN (s \o t) = 1..(Len(s) + Len(t))
  BY <1>1, LenProperties
<1>3. ASSUME NEW m \in DOMAIN (s \o t), NEW n \in DOMAIN (s \o t), m < n
      PROVE  Before(kind, (s \o t)[m], (s \o t)[n])
  <2>1. CASE n <= Len(s)
    <3>1. m \in DOMAIN s /\ n \in DOMAIN s /\ (s \o t)[m] = s[m] /\ (s \o t)[n] = s[n]
      BY <1>1, <1>2, <1>3, <2>1
    <3>2. QED
      BY <1>3, <3>1 DEF Ordered
  <2>2. CASE m <= Len(s) /\ n > Len(s)
    <3>1. m \in DOMAIN s /\ n - Len(s) \in DOMAIN t /\ (s \o t)[m] = s[m] /\ (s \o t)[n] = t[n - Len(s)]
      BY <1>1, <1>2, <1>3, <2>2
    <3>2. s[m] \in ToSet(s) /\ t[n - Len(s)] \in ToSet(t)
      BY <3>1 DEF ToSet
    <3>3. QED
      BY <3>1, <3>2
  <2>3. CASE m > Len(s)
    <3>1. /\ m - Len(s) \in DOMAIN t /\ n - Len(s) \in DOMAIN t /\ m - Len(s) < n - Len(s)
          /\ (s \o t)[m] = t[m - Len(s)] /\ (s \o t)[n] = t[n - Len(s)]
      BY <1>1, <1>2, <1>3, <2>3
    <3>2. QED
      BY <3>1 DEF Ordered
  <2>4. QED
    BY <1>2, <1>3, <2>1, <2>2, <2>3
<1>4. ToSet(s \o t) = ToSet(s) \cup ToSet(t)
  <2>1. ASSUME NEW n \in DOMAIN (s \o t) PROVE (s \o t)[n] \in ToSet(s) \cup ToSet(t)
    <3>1. CASE n <= Len(s)
      BY <1>1, <1>2, <3>1 DEF ToSet
    <3>2. CASE n > Len(s)
      <4>1. n - Len(s) \in DOMAIN t /\ (s \o t)[n] = t[n - Len(s)]
        BY <1>1, <1>2, <3>2
      <4>2. QED
        BY <4>1 DEF ToSet
    <3>3. QED
      BY <1>2, <3>1, <3>2
  <2>2. ASSUME NEW n \in DOMAIN s PROVE s[n] \in ToSet(s \o t)
    <3>1. n \in DOMAIN (s \o t) /\ (s \o t)[n] = s[n]
      BY <1>1, <1>2
    <3>2. QED
      BY <3>1 DEF ToSet
  <2>3. ASSUME NEW n \in DOMAIN t PROVE t[n] \in ToSet(s \o t)
    <3>1. n + Len(s) \in DOMAIN (s \o t) /\ (s \o t)[n + Len(s)] = t[n]
      BY <1>1, <1>2
    <3>2. QED
      BY <3>1 DEF ToSet
  <2>4. QED
    BY <2>1, <2>2, <2>3 DEF ToSet
<1>5. QED
  BY <1>1, <1>3, <1>4 DEF Ordered

LEMMA OneStep ==
    ASSUME NEW S, NEW x \in S, NEW kind
    PROVE  <<x>> \in Seq(S) /\ Ordered(kind, <<x>>) /\ ToSet(<<x>>) = {x}
BY DEF Ordered, ToSet

LEMMA NoStep ==
    ASSUME NEW S, NEW kind
    PROVE  <<>> \in Seq(S) /\ Ordered(kind, <<>>) /\ ToSet(<<>>) = {}
BY DEF Ordered, ToSet

\* The items of a set in their order.
LEMMA InOrderLists ==
    ASSUME NEW op, IsFiniteSet(MovedItems(op)), MovedItems(op) \subseteq Nat
    PROVE  /\ InOrder(op) \in Seq(MovedItems(op)) /\ ToSet(InOrder(op)) = MovedItems(op)
           /\ \A m, n \in DOMAIN InOrder(op) : m < n => InOrder(op)[m] < InOrder(op)[n]
<1> DEFINE M == MovedItems(op)
           upto(i) == {j \in M : j <= i}
           place == [i \in M |-> Cardinality(upto(i))]
           C == Cardinality(M)
<1>1. C \in Nat /\ IsFiniteSet(1..C) /\ Cardinality(1..C) = C
  BY FS_CardinalityType, FS_Interval
<1>2. ASSUME NEW i \in M PROVE IsFiniteSet(upto(i)) /\ Cardinality(upto(i)) \in 1..C
  <2>1. IsFiniteSet(upto(i)) /\ Cardinality(upto(i)) <= C
    BY FS_Subset
  <2>2. i \in upto(i)
    OBVIOUS
  <2>3. Cardinality(upto(i)) # 0
    BY <2>1, <2>2, FS_EmptySet
  <2>4. QED
    BY <1>1, <2>1, <2>3, FS_CardinalityType
<1>3. ASSUME NEW i \in M, NEW j \in M, i < j PROVE Cardinality(upto(i)) < Cardinality(upto(j))
  <2>1. upto(i) \subseteq upto(j) /\ j \in upto(j) /\ j \notin upto(i)
    BY <1>3
  <2>2. Cardinality(upto(i)) <= Cardinality(upto(j)) /\ Cardinality(upto(i)) # Cardinality(upto(j))
    BY <1>2, <2>1, FS_Subset
  <2>3. QED
    BY <1>2, <2>2
<1>4. place \in Injection(M, 1..C)
  <2>1. place \in [M -> 1..C]
    BY <1>2
  <2>2. ASSUME NEW i \in M, NEW j \in M, place[i] = place[j] PROVE i = j
    <3>1. ~(i < j) /\ ~(j < i)
      BY <1>2, <1>3, <2>2
    <3>2. QED
      BY <3>1
  <2>3. QED
    BY <2>1, <2>2 DEF Injection, IsInjective
<1>5. place \in Surjection(M, 1..C)
  BY <1>1, <1>4, FS_Injection
<1>6. \A n \in 1..C : \E i \in M : Cardinality(upto(i)) = n
  BY <1>5 DEF Surjection
<1> DEFINE f == InOrder(op)
<1>7. f = [n \in 1..C |-> CHOOSE i \in M : Cardinality(upto(i)) = n]
  BY DEF InOrder, MovedItems
<1>8. ASSUME NEW n \in 1..C PROVE f[n] \in M /\ Cardinality(upto(f[n])) = n
  BY <1>6, <1>7
<1> HIDE DEF f
<1>9. DOMAIN f = 1..C /\ f \in [1..C -> M]
  BY <1>7, <1>8
<1>10. f \in Seq(M)
  BY <1>1, <1>9
<1>11. ASSUME NEW m \in 1..C, NEW n \in 1..C, m < n PROVE f[m] < f[n]
  <2>1. ~(f[n] < f[m]) /\ f[n] # f[m]
    <3>1. f[m] \in M /\ f[n] \in M /\ Cardinality(upto(f[m])) = m /\ Cardinality(upto(f[n])) = n
      BY <1>8
    <3>2. f[n] < f[m] => Cardinality(upto(f[n])) < Cardinality(upto(f[m]))
      BY <1>3, <3>1
    <3> HIDE DEF upto, M
    <3>3. QED
      BY <1>1, <1>11, <3>1, <3>2
  <2>2. f[m] \in Nat /\ f[n] \in Nat
    BY <1>8
  <2>3. QED
    BY <2>1, <2>2
<1>12. ASSUME NEW i \in M PROVE \E n \in 1..C : f[n] = i
  <2>1. Cardinality(upto(i)) \in 1..C
    BY <1>2
  <2> DEFINE n == Cardinality(upto(i))
  <2>2. f[n] \in M /\ Cardinality(upto(f[n])) = n
    BY <1>8, <2>1
  <2>3. ~(f[n] < i) /\ ~(i < f[n])
    <3>1. f[n] < i => Cardinality(upto(f[n])) < Cardinality(upto(i))
      BY <1>3, <2>2
    <3>2. i < f[n] => Cardinality(upto(i)) < Cardinality(upto(f[n]))
      BY <1>3, <2>2
    <3>3. Cardinality(upto(i)) \in Int /\ Cardinality(upto(f[n])) = Cardinality(upto(i))
      BY <2>1, <2>2
    <3> HIDE DEF upto, M, n
    <3>4. QED
      BY <3>1, <3>2, <3>3
  <2>4. f[n] = i
    BY <2>2, <2>3
  <2>5. QED
    BY <2>1, <2>4
<1>13. ToSet(f) = M
  BY <1>9, <1>12 DEF ToSet
<1>14. QED
  BY <1>9, <1>10, <1>11, <1>13 DEF f

\* A document a request works on is there (the operation is possible, but for what it makes).
Found(op) == OnDocument(op) => Possible(op)

LEMMA ToSetFinite ==
    ASSUME NEW S, NEW s \in Seq(S)
    PROVE  IsFiniteSet(ToSet(s)) /\ ToSet(s) \subseteq S
<1>1. Len(s) \in Nat /\ s \in [1..Len(s) -> S] /\ DOMAIN s = 1..Len(s)
  BY LenProperties
<1>2. s \in Surjection(1..Len(s), ToSet(s))
  BY <1>1 DEF Surjection, ToSet
<1>3. IsFiniteSet(1..Len(s))
  BY <1>1, FS_Interval
<1>4. QED
  BY <1>1, <1>2, <1>3, FS_Surjection DEF ToSet

LEMMA OpKinds ==
    ASSUME NEW op \in Ops
    PROVE  /\ op.kind \in {"opening", "reopening", "adjustIn", "adjustOut"} => op \in CountOps
           /\ op.kind = "sale" => op \in SaleOps
           /\ op.kind = "transfer" => op \in TransferOps
           /\ op.kind = "purchase" => op \in PurchaseOps
           /\ op.kind \in {"return", "sendBack"} => op \in LineOps
           /\ op.kind \in {"cancel", "receive", "callBack"} => op \in DocOps
           /\ \/ op.kind \in {"opening", "reopening", "adjustIn", "adjustOut"} \/ Makes(op)
              \/ op.kind \in {"return", "sendBack"} \/ op.kind \in {"cancel", "receive", "callBack"}
BY StockAssumption DEF CountOps, SaleOps, TransferOps, PurchaseOps, LineOps, DocOps, Makes

LEMMA FoundDoc ==
    ASSUME TypeOK, NEW op \in Ops, OnDocument(op), Found(op)
    PROVE  /\ op.doc \in Documents /\ Made(op.doc) /\ docs[op.doc] \in Doc
           /\ op.kind \in {"return", "sendBack"} => op.line \in DOMAIN docs[op.doc].lines
<1>1. op.doc \in Documents
  BY OpKinds DEF OnDocument, LineOps, DocOps, Makes
<1>2. Made(op.doc) /\ (op.kind \in {"return", "sendBack"} => op.line \in DOMAIN docs[op.doc].lines)
  BY DEF Found, OnDocument, Possible, Is
<1>3. QED
  BY <1>1, <1>2 DEF TypeOK, Made

LEMMA LinesMoved ==
    ASSUME NEW L, L \in Seq(Goods) \/ L \in Seq(GoodsIn) \/ L \in Seq(Goods \cup GoodsIn)
    PROVE  /\ [n \in DOMAIN L |-> L[n].item] \in Seq(Items)
           /\ \A n \in DOMAIN L : L[n].item \in Items /\ L[n].qty \in Positive
           /\ L \in Seq(Goods \cup GoodsIn) /\ Len(L) \in Nat /\ DOMAIN L = 1..Len(L)
<1>1. L \in Seq(Goods \cup GoodsIn)
  BY SeqMonotonic
<1>2. Len(L) \in Nat /\ DOMAIN L = 1..Len(L) /\ L \in [1..Len(L) -> Goods \cup GoodsIn]
  BY <1>1, LenProperties
<1>3. \A n \in DOMAIN L : L[n].item \in Items /\ L[n].qty \in Positive
  BY <1>2 DEF Goods, GoodsIn
<1>4. [n \in DOMAIN L |-> L[n].item] \in [1..Len(L) -> Items]
  BY <1>2, <1>3
<1>5. QED
  BY <1>1, <1>2, <1>3, <1>4

LEMMA MovedItemsTyped ==
    ASSUME TypeOK, NEW op \in Ops, Found(op)
    PROVE  /\ ItemsMoved(op) \in Seq(Items)
           /\ IsFiniteSet(MovedItems(op)) /\ MovedItems(op) \subseteq Items /\ MovedItems(op) \subseteq Nat
<1>1. ItemsMoved(op) \in Seq(Items)
  <2>1. CASE op.kind \in {"opening", "reopening", "adjustIn", "adjustOut"}
    BY <2>1, OpKinds DEF ItemsMoved, CountOps
  <2>2. CASE Makes(op)
    <3>1. op.lines \in Seq(Goods) \/ op.lines \in Seq(GoodsIn)
      BY <2>2, OpKinds DEF Makes, SaleOps, TransferOps, PurchaseOps
    <3>2. [n \in DOMAIN op.lines |-> op.lines[n].item] \in Seq(Items)
      BY <3>1, LinesMoved
    <3>3. QED
      BY <2>2, <3>2 DEF ItemsMoved, Makes
  <2>3. CASE OnDocument(op)
    <3>1. docs[op.doc] \in Doc /\ (op.kind \in {"return", "sendBack"} => op.line \in DOMAIN docs[op.doc].lines)
      BY <2>3, FoundDoc
    <3>2. docs[op.doc].lines \in Seq(Goods \cup GoodsIn)
      BY <3>1 DEF Doc
    <3>3. /\ [n \in DOMAIN docs[op.doc].lines |-> docs[op.doc].lines[n].item] \in Seq(Items)
          /\ \A n \in DOMAIN docs[op.doc].lines : docs[op.doc].lines[n].item \in Items
      BY <3>2, LinesMoved
    <3>4. QED
      BY <2>3, <3>1, <3>3 DEF ItemsMoved, OnDocument
  <2>4. QED
    BY <2>1, <2>2, <2>3, OpKinds DEF OnDocument
<1>2. QED
  BY <1>1, ToSetFinite, StockAssumption DEF MovedItems

\* The locks of a request, class by class.
StockLocks(op) == {<<"stock", Place(op), i>> : i \in MovedItems(op)}
Shared(op) == {<<"share", i>> : i \in MovedItems(op)}
RowLocks(op) == {<<"item", i>> : i \in MovedItems(op)}

LEMMA ItemLocks ==
    ASSUME TypeOK, NEW op \in Ops, Found(op)
    PROVE  /\ LockItemStock(op) \in Seq(Steps(op)) /\ Ordered(op.kind, LockItemStock(op))
           /\ ToSet(LockItemStock(op)) = StockLocks(op)
           /\ ShareItems(op) \in Seq(Steps(op)) /\ Ordered(op.kind, ShareItems(op))
           /\ ToSet(ShareItems(op)) = Shared(op)
           /\ op.kind = "purchase" => /\ LockItems(op) \in Seq(Steps(op)) /\ Ordered(op.kind, LockItems(op))
                                      /\ ToSet(LockItems(op)) = RowLocks(op)
<1>1. /\ InOrder(op) \in Seq(MovedItems(op)) /\ ToSet(InOrder(op)) = MovedItems(op)
      /\ \A m, n \in DOMAIN InOrder(op) : m < n => InOrder(op)[m] < InOrder(op)[n]
  BY MovedItemsTyped, InOrderLists
<1> DEFINE N == Len(InOrder(op))
           f == InOrder(op)
<1>2. N \in Nat /\ DOMAIN f = 1..N /\ \A n \in 1..N : f[n] \in MovedItems(op)
  BY <1>1, LenProperties
<1>3. \A i \in MovedItems(op) : \E n \in 1..N : f[n] = i
  BY <1>1, <1>2 DEF ToSet
<1>4. /\ LockItemStock(op) = [n \in 1..N |-> <<"stock", Place(op), f[n]>>]
      /\ ShareItems(op) = [n \in 1..N |-> <<"share", f[n]>>]
      /\ LockItems(op) = [n \in 1..N |-> <<"item", f[n]>>]
  BY <1>2 DEF LockItemStock, ShareItems, LockItems
<1>5. \A m, n \in 1..N : m < n => f[m] < f[n]
  BY <1>1, <1>2
<1> HIDE DEF N, f
<1>6. /\ LockItemStock(op) \in [1..N -> Steps(op)] /\ ShareItems(op) \in [1..N -> Steps(op)]
      /\ op.kind = "purchase" => LockItems(op) \in [1..N -> Steps(op)]
  BY <1>2, <1>4 DEF Steps
<1>7. /\ LockItemStock(op) \in Seq(Steps(op)) /\ ShareItems(op) \in Seq(Steps(op))
      /\ op.kind = "purchase" => LockItems(op) \in Seq(Steps(op))
  BY <1>2, <1>6
<1>8. Ordered(op.kind, LockItemStock(op)) /\ Ordered(op.kind, ShareItems(op)) /\ Ordered(op.kind, LockItems(op))
  BY <1>4, <1>5 DEF Ordered, Before
<1>9. /\ ToSet(LockItemStock(op)) = StockLocks(op) /\ ToSet(ShareItems(op)) = Shared(op)
      /\ ToSet(LockItems(op)) = RowLocks(op)
  <2>1. /\ ToSet(LockItemStock(op)) = {<<"stock", Place(op), f[n]>> : n \in 1..N}
        /\ ToSet(ShareItems(op)) = {<<"share", f[n]>> : n \in 1..N}
        /\ ToSet(LockItems(op)) = {<<"item", f[n]>> : n \in 1..N}
    BY <1>4 DEF ToSet
  <2>2. MovedItems(op) = {f[n] : n \in 1..N}
    BY <1>2, <1>3
  <2>3. QED
    BY <2>1, <2>2 DEF StockLocks, Shared, RowLocks
<1>10. QED
  BY <1>7, <1>8, <1>9

\* What a request must hold to rely on what it read, and to write.
Needs(op) ==
    StockLocks(op) \cup (IF OnDocument(op) THEN {<<"doc", op.doc>>} ELSE {})
                   \cup (IF op.kind = "sale" THEN {<<"key", op.doc>>} ELSE {})

\* A stretch of a program: its steps, and the turns they are of.
Chain(op, s, low, high, X) ==
    /\ s \in Seq(Steps(op)) /\ Ordered(op.kind, s) /\ ToSet(s) = X
    /\ \A x \in X : Turn(op.kind, x[1]) >= low /\ Turn(op.kind, x[1]) <= high

LEMMA ChainOn ==
    ASSUME NEW op, NEW s, NEW t, NEW a \in Nat, NEW b \in Nat, NEW c \in Nat, NEW d \in Nat, NEW X, NEW Y,
           Chain(op, s, a, b, X), Chain(op, t, c, d, Y), a <= b, b < c, c <= d
    PROVE  Chain(op, s \o t, a, d, X \cup Y)
<1>1. \A n : Turn(op.kind, n) \in Nat
  BY DEF Turn
<1>2. \A x \in ToSet(s), y \in ToSet(t) : Before(op.kind, x, y)
  BY <1>1 DEF Chain, Before
<1>3. s \o t \in Seq(Steps(op)) /\ Ordered(op.kind, s \o t) /\ ToSet(s \o t) = X \cup Y
  BY <1>2, ConcatOrdered DEF Chain
<1>4. ASSUME NEW x \in X \cup Y PROVE Turn(op.kind, x[1]) >= a /\ Turn(op.kind, x[1]) <= d
  BY <1>1 DEF Chain
<1>5. QED
  BY <1>3, <1>4 DEF Chain

LEMMA ChainOne ==
    ASSUME NEW op, NEW x \in Steps(op), NEW a \in Nat, Turn(op.kind, x[1]) = a
    PROVE  Chain(op, <<x>>, a, a, {x})
BY OneStep DEF Chain

LEMMA ChainTwo ==
    ASSUME NEW op, NEW x \in Steps(op), NEW y \in Steps(op), NEW a \in Nat, NEW b \in Nat,
           Turn(op.kind, x[1]) = a, Turn(op.kind, y[1]) = b, a < b
    PROVE  Chain(op, <<x, y>>, a, b, {x, y})
<1>1. <<x, y>> \in Seq(Steps(op)) /\ ToSet(<<x, y>>) = {x, y}
  BY DEF ToSet
<1>2. Ordered(op.kind, <<x, y>>)
  BY DEF Ordered, Before
<1>3. QED
  BY <1>1, <1>2 DEF Chain

LEMMA ProgramOrdered ==
    ASSUME TypeOK, NEW op \in Ops, Found(op)
    PROVE  /\ Program(op) \in Seq(Steps(op)) /\ Ordered(op.kind, Program(op))
           /\ Needs(op) \cup {Read, Commit} \subseteq ToSet(Program(op))
<1> DEFINE L == LockItemStock(op)
           Sh == ShareItems(op)
           It == LockItems(op)
           Paid == IF op.paid THEN <<<<"branch", op.branch>>>> ELSE <<>>
<1>1. /\ L \in Seq(Steps(op)) /\ Ordered(op.kind, L) /\ ToSet(L) = StockLocks(op)
      /\ Sh \in Seq(Steps(op)) /\ Ordered(op.kind, Sh) /\ ToSet(Sh) = Shared(op)
      /\ op.kind = "purchase" => It \in Seq(Steps(op)) /\ Ordered(op.kind, It) /\ ToSet(It) = RowLocks(op)
  BY ItemLocks
<1>2. Read \in Steps(op) /\ Commit \in Steps(op) /\ <<"branch", Place(op)>> \in Steps(op)
  BY DEF Steps
<1>3. /\ Read[1] = "read" /\ Commit[1] = "commit"
      /\ \A x \in StockLocks(op) : x[1] = "stock"
      /\ \A x \in Shared(op) : x[1] = "share"
      /\ \A x \in RowLocks(op) : x[1] = "item"
      /\ <<"branch", Place(op)>>[1] = "branch" /\ <<"doc", op.doc>>[1] = "doc" /\ <<"key", op.doc>>[1] = "key"
  BY DEF Read, Commit, StockLocks, Shared, RowLocks
<1>4. Chain(op, <<Commit>>, 9, 9, {Commit})
  BY <1>2, <1>3, ChainOne DEF Turn
<1> HIDE DEF L, Sh, It, Paid
<1>5. CASE op.kind \in {"opening", "reopening", "adjustIn", "adjustOut"}
  <2>1. Chain(op, L, 3, 3, StockLocks(op))
    BY <1>1, <1>3, <1>5 DEF Chain, Turn
  <2>2. Chain(op, <<Read>>, 4, 4, {Read})
    BY <1>2, <1>3, <1>5, ChainOne DEF Turn
  <2>3. Chain(op, Sh, 6, 6, Shared(op))
    BY <1>1, <1>3, <1>5 DEF Chain, Turn
  <2>4. Chain(op, L \o <<Read>>, 3, 4, StockLocks(op) \cup {Read})
    BY <2>1, <2>2, ChainOn
  <2>5. Chain(op, L \o <<Read>> \o Sh, 3, 6, StockLocks(op) \cup {Read} \cup Shared(op))
    BY <2>4, <2>3, ChainOn
  <2>6. Chain(op, L \o <<Read>> \o Sh \o <<Commit>>, 3, 9, StockLocks(op) \cup {Read} \cup Shared(op) \cup {Commit})
    BY <2>5, <1>4, ChainOn
  <2>7. Program(op) = L \o <<Read>> \o Sh \o <<Commit>>
    BY <1>5 DEF Program, LockDocument, L, Sh, It, Paid
  <2>8. Chain(op, Program(op), 3, 9, StockLocks(op) \cup {Read} \cup Shared(op) \cup {Commit})
    BY <2>6, <2>7
  <2>9. QED
    BY <1>5, <2>8 DEF Chain, Needs, OnDocument
<1>6. CASE op.kind = "sale"
  <2>1. Chain(op, L, 3, 3, StockLocks(op))
    BY <1>1, <1>3, <1>6 DEF Chain, Turn
  <2>2. Chain(op, <<Read, <<"key", op.doc>>>>, 4, 5, {Read, <<"key", op.doc>>})
    <3>1. <<"key", op.doc>> \in Steps(op)
      BY <1>6 DEF Steps
    <3>2. QED
      BY <1>2, <1>3, <1>6, <3>1, ChainTwo DEF Turn
  <2>3. Chain(op, Sh, 6, 6, Shared(op))
    BY <1>1, <1>3, <1>6 DEF Chain, Turn
  <2>4. Chain(op, Paid, 7, 7, ToSet(Paid))
    <3>1. Place(op) = op.branch
      BY <1>6 DEF Place
    <3>2. CASE op.paid
      <4>1. Paid = <<<<"branch", Place(op)>>>>
        BY <3>1, <3>2 DEF Paid
      <4>2. Chain(op, Paid, 7, 7, {<<"branch", Place(op)>>})
        BY <1>2, <1>3, <1>6, <4>1, ChainOne DEF Turn
      <4>3. QED
        BY <4>2 DEF Chain
    <3>3. CASE ~op.paid
      <4>1. Paid = <<>>
        BY <3>3 DEF Paid
      <4>2. QED
        BY <4>1, NoStep DEF Chain
    <3>4. QED
      BY <3>2, <3>3
  <2>5. Chain(op, L \o <<Read, <<"key", op.doc>>>>, 3, 5, StockLocks(op) \cup {Read, <<"key", op.doc>>})
    BY <2>1, <2>2, ChainOn
  <2>6. Chain(op, L \o <<Read, <<"key", op.doc>>>> \o Sh, 3, 6, StockLocks(op) \cup {Read, <<"key", op.doc>>} \cup Shared(op))
    BY <2>5, <2>3, ChainOn
  <2>7. Chain(op, L \o <<Read, <<"key", op.doc>>>> \o Sh \o Paid, 3, 7, StockLocks(op) \cup {Read, <<"key", op.doc>>} \cup Shared(op) \cup ToSet(Paid))
    BY <2>6, <2>4, ChainOn
  <2>8. Chain(op, L \o <<Read, <<"key", op.doc>>>> \o Sh \o Paid \o <<Commit>>, 3, 9, StockLocks(op) \cup {Read, <<"key", op.doc>>} \cup Shared(op) \cup ToSet(Paid) \cup {Commit})
    BY <2>7, <1>4, ChainOn
  <2>9. Program(op) = L \o <<Read, <<"key", op.doc>>>> \o Sh \o Paid \o <<Commit>>
    BY <1>6 DEF Program, LockDocument, L, Sh, It, Paid
  <2>10. Chain(op, Program(op), 3, 9, StockLocks(op) \cup {Read, <<"key", op.doc>>} \cup Shared(op) \cup ToSet(Paid) \cup {Commit})
    BY <2>8, <2>9
  <2>11. QED
    BY <1>6, <2>10 DEF Chain, Needs, OnDocument
<1>7. CASE op.kind = "transfer"
  <2>1. Chain(op, L, 3, 3, StockLocks(op))
    BY <1>1, <1>3, <1>7 DEF Chain, Turn
  <2>2. Chain(op, <<Read, <<"branch", Place(op)>>>>, 4, 5, {Read, <<"branch", Place(op)>>})
    <3>1. Turn(op.kind, Read[1]) = 4 /\ Turn(op.kind, <<"branch", Place(op)>>[1]) = 5
      BY <1>3, <1>7 DEF Turn
    <3>2. QED
      BY <1>2, <3>1, ChainTwo
  <2>3. Chain(op, Sh, 6, 6, Shared(op))
    BY <1>1, <1>3, <1>7 DEF Chain, Turn
  <2>4. Chain(op, L \o <<Read, <<"branch", Place(op)>>>>, 3, 5, StockLocks(op) \cup {Read, <<"branch", Place(op)>>})
    BY <2>1, <2>2, ChainOn
  <2>5. Chain(op, L \o <<Read, <<"branch", Place(op)>>>> \o Sh, 3, 6, StockLocks(op) \cup {Read, <<"branch", Place(op)>>} \cup Shared(op))
    BY <2>4, <2>3, ChainOn
  <2>6. Chain(op, L \o <<Read, <<"branch", Place(op)>>>> \o Sh \o <<Commit>>, 3, 9, StockLocks(op) \cup {Read, <<"branch", Place(op)>>} \cup Shared(op) \cup {Commit})
    BY <2>5, <1>4, ChainOn
  <2>7. Program(op) = L \o <<Read, <<"branch", Place(op)>>>> \o Sh \o <<Commit>>
    BY <1>7 DEF Program, LockDocument, L, Sh, It, Paid, Place
  <2>8. Chain(op, Program(op), 3, 9, StockLocks(op) \cup {Read, <<"branch", Place(op)>>} \cup Shared(op) \cup {Commit})
    BY <2>6, <2>7
  <2>9. QED
    BY <1>7, <2>8 DEF Chain, Needs, OnDocument
<1>8. CASE op.kind = "purchase"
  <2>1. Chain(op, It, 2, 2, RowLocks(op))
    BY <1>1, <1>3, <1>8 DEF Chain, Turn
  <2>2. Chain(op, <<Read, <<"branch", Place(op)>>>>, 4, 5, {Read, <<"branch", Place(op)>>})
    <3>1. Turn(op.kind, Read[1]) = 4 /\ Turn(op.kind, <<"branch", Place(op)>>[1]) = 5
      BY <1>3, <1>8 DEF Turn
    <3>2. QED
      BY <1>2, <3>1, ChainTwo
  <2>3. Chain(op, L, 8, 8, StockLocks(op))
    BY <1>1, <1>3, <1>8 DEF Chain, Turn
  <2>4. Chain(op, It \o <<Read, <<"branch", Place(op)>>>>, 2, 5, RowLocks(op) \cup {Read, <<"branch", Place(op)>>})
    BY <2>1, <2>2, ChainOn
  <2>5. Chain(op, It \o <<Read, <<"branch", Place(op)>>>> \o L, 2, 8, RowLocks(op) \cup {Read, <<"branch", Place(op)>>} \cup StockLocks(op))
    BY <2>4, <2>3, ChainOn
  <2>6. Chain(op, It \o <<Read, <<"branch", Place(op)>>>> \o L \o <<Commit>>, 2, 9, RowLocks(op) \cup {Read, <<"branch", Place(op)>>} \cup StockLocks(op) \cup {Commit})
    BY <2>5, <1>4, ChainOn
  <2>7. Program(op) = It \o <<Read, <<"branch", Place(op)>>>> \o L \o <<Commit>>
    BY <1>8 DEF Program, LockDocument, L, Sh, It, Paid, Place
  <2>8. Chain(op, Program(op), 2, 9, RowLocks(op) \cup {Read, <<"branch", Place(op)>>} \cup StockLocks(op) \cup {Commit})
    BY <2>6, <2>7
  <2>9. QED
    BY <1>8, <2>8 DEF Chain, Needs, OnDocument
<1>9. CASE op.kind = "sendBack"
  <2>1. Chain(op, <<<<"doc", op.doc>>>>, 1, 1, {<<"doc", op.doc>>})
    <3>1. <<"doc", op.doc>> \in Steps(op)
      BY <1>9 DEF Steps, OnDocument
    <3>2. QED
      BY <1>3, <1>9, <3>1, ChainOne DEF Turn
  <2>2. Chain(op, L, 3, 3, StockLocks(op))
    BY <1>1, <1>3, <1>9 DEF Chain, Turn
  <2>3. Chain(op, <<Read, <<"branch", Place(op)>>>>, 4, 5, {Read, <<"branch", Place(op)>>})
    <3>1. Turn(op.kind, Read[1]) = 4 /\ Turn(op.kind, <<"branch", Place(op)>>[1]) = 5
      BY <1>3, <1>9 DEF Turn
    <3>2. QED
      BY <1>2, <3>1, ChainTwo
  <2>4. Chain(op, Sh, 6, 6, Shared(op))
    BY <1>1, <1>3, <1>9 DEF Chain, Turn
  <2>5. Chain(op, <<<<"doc", op.doc>>>> \o L, 1, 3, {<<"doc", op.doc>>} \cup StockLocks(op))
    BY <2>1, <2>2, ChainOn
  <2>6. Chain(op, <<<<"doc", op.doc>>>> \o L \o <<Read, <<"branch", Place(op)>>>>, 1, 5, {<<"doc", op.doc>>} \cup StockLocks(op) \cup {Read, <<"branch", Place(op)>>})
    BY <2>5, <2>3, ChainOn
  <2>7. Chain(op, <<<<"doc", op.doc>>>> \o L \o <<Read, <<"branch", Place(op)>>>> \o Sh, 1, 6, {<<"doc", op.doc>>} \cup StockLocks(op) \cup {Read, <<"branch", Place(op)>>} \cup Shared(op))
    BY <2>6, <2>4, ChainOn
  <2>8. Chain(op, <<<<"doc", op.doc>>>> \o L \o <<Read, <<"branch", Place(op)>>>> \o Sh \o <<Commit>>, 1, 9, {<<"doc", op.doc>>} \cup StockLocks(op) \cup {Read, <<"branch", Place(op)>>} \cup Shared(op) \cup {Commit})
    BY <2>7, <1>4, ChainOn
  <2>9. Program(op) = <<<<"doc", op.doc>>>> \o L \o <<Read, <<"branch", Place(op)>>>> \o Sh \o <<Commit>>
    BY <1>9 DEF Program, LockDocument, L, Sh, It, Paid, Place
  <2>10. Chain(op, Program(op), 1, 9, {<<"doc", op.doc>>} \cup StockLocks(op) \cup {Read, <<"branch", Place(op)>>} \cup Shared(op) \cup {Commit})
    BY <2>8, <2>9
  <2>11. QED
    BY <1>9, <2>10 DEF Chain, Needs, OnDocument
<1>10. CASE op.kind \in {"cancel", "return", "receive", "callBack"}
  <2>1. Chain(op, <<<<"doc", op.doc>>>>, 1, 1, {<<"doc", op.doc>>})
    <3>1. <<"doc", op.doc>> \in Steps(op)
      BY <1>10 DEF Steps, OnDocument
    <3>2. QED
      BY <1>3, <1>10, <3>1, ChainOne DEF Turn
  <2>2. Chain(op, <<Read>>, 2, 2, {Read})
    BY <1>2, <1>3, <1>10, ChainOne DEF Turn
  <2>3. Chain(op, L, 3, 3, StockLocks(op))
    BY <1>1, <1>3, <1>10 DEF Chain, Turn
  <2>4. Chain(op, Sh, 6, 6, Shared(op))
    BY <1>1, <1>3, <1>10 DEF Chain, Turn
  <2>5. Chain(op, <<<<"doc", op.doc>>>> \o <<Read>>, 1, 2, {<<"doc", op.doc>>} \cup {Read})
    BY <2>1, <2>2, ChainOn
  <2>6. Chain(op, <<<<"doc", op.doc>>>> \o <<Read>> \o L, 1, 3, {<<"doc", op.doc>>} \cup {Read} \cup StockLocks(op))
    BY <2>5, <2>3, ChainOn
  <2>7. Chain(op, <<<<"doc", op.doc>>>> \o <<Read>> \o L \o Sh, 1, 6, {<<"doc", op.doc>>} \cup {Read} \cup StockLocks(op) \cup Shared(op))
    BY <2>6, <2>4, ChainOn
  <2>8. Chain(op, <<<<"doc", op.doc>>>> \o <<Read>> \o L \o Sh \o <<Commit>>, 1, 9, {<<"doc", op.doc>>} \cup {Read} \cup StockLocks(op) \cup Shared(op) \cup {Commit})
    BY <2>7, <1>4, ChainOn
  <2>9. Program(op) = <<<<"doc", op.doc>>>> \o <<Read>> \o L \o Sh \o <<Commit>>
    BY <1>10 DEF Program, LockDocument, L, Sh, It, Paid
  <2>10. Chain(op, Program(op), 1, 9, {<<"doc", op.doc>>} \cup {Read} \cup StockLocks(op) \cup Shared(op) \cup {Commit})
    BY <2>8, <2>9
  <2>11. QED
    BY <1>10, <2>10 DEF Chain, Needs, OnDocument
<1>11. QED
  BY OpKinds, <1>5, <1>6, <1>7, <1>8, <1>9, <1>10 DEF Makes, OnDocument

(***************************************************************************)
(* What operations move is typed.                                          *)
(***************************************************************************)

Quantities == [Sources -> Int]

LEMMA SourcesFinite ==
    /\ IsFiniteSet(Sources) /\ NoBatch \in Sources
    /\ \A T \in SUBSET Sources : IsFiniteSet(T)
    /\ \A i : SourcesOf(i) \subseteq Sources
<1>1. IsFiniteSet(Sources)
  BY StockAssumption, FS_AddElement DEF Sources
<1>2. QED
  BY <1>1, FS_Subset DEF Sources, SourcesOf

LEMMA LotsTyped ==
    ASSUME TypeOK, NEW b \in Branches, NEW i \in Items
    PROVE  Lots(b, i) \in [SourcesOf(i) -> Int]
<1> DEFINE T == SourcesOf(i) \ {NoBatch}
           f == [t \in T |-> inBatch[<<b, t>>]]
<1>1. T \subseteq Batches /\ IsFiniteSet(T)
  BY SourcesFinite DEF SourcesOf
<1>2. f \in [T -> Int]
  BY <1>1 DEF TypeOK
<1>3. Total(f) \in Int
  <2> HIDE DEF f, T
  <2>1. QED
    BY <1>1, <1>2, TotalType
<1>4. ASSUME NEW s \in SourcesOf(i)
      PROVE  (IF s = NoBatch THEN onHand[<<b, i>>] - Total(f) ELSE inBatch[<<b, s>>]) \in Int
  BY <1>3 DEF TypeOK, SourcesOf
<1>5. QED
  BY <1>4 DEF Lots

LEMMA PickTyped ==
    ASSUME NEW i, NEW lots \in [SourcesOf(i) -> Int], NEW qty \in Int, NEW day, NEW all
    PROVE  Pick(lots, qty, day, all) \in Quantities
<1> DEFINE there(s) == IF Expired(s, day) /\ ~all THEN 0 ELSE AtLeast0(lots[s])
           T(s) == {u \in DOMAIN lots : PickedBefore(u, s, day)}
           f(s) == [t \in T(s) |-> there(t)]
<1>1. \A s \in SourcesOf(i) : there(s) \in Int
  BY DEF AtLeast0
<1>2. ASSUME NEW s PROVE Total(f(s)) \in Int
  <2>1. T(s) \subseteq SourcesOf(i)
    OBVIOUS
  <2>2. IsFiniteSet(T(s))
    BY <2>1, SourcesFinite
  <2>3. f(s) \in [T(s) -> Int]
    BY <1>1, <2>1
  <2> HIDE DEF f, T
  <2>4. QED
    BY <2>2, <2>3, TotalType
<1>3. Pick(lots, qty, day, all)
        = [s \in Sources |-> IF s \in DOMAIN lots THEN Least(there(s), AtLeast0(qty - Total(f(s)))) ELSE 0]
  BY DEF Pick
<1> HIDE DEF f, T, there
<1>4. ASSUME NEW s \in Sources
      PROVE  (IF s \in DOMAIN lots THEN Least(there(s), AtLeast0(qty - Total(f(s)))) ELSE 0) \in Int
  BY <1>1, <1>2 DEF Least, AtLeast0
<1>5. QED
  BY <1>3, <1>4 DEF Quantities

LEMMA TakeTyped ==
    ASSUME TypeOK, NEW b \in Branches, NEW i \in Items, NEW qty \in Int, NEW day, NEW short, NEW all,
           NEW pick \in TakeFromBatches(b, i, qty, day, short, all)
    PROVE  pick \in Quantities
<1>1. pick = Pick(Lots(b, i), qty, day, all)
  BY DEF TakeFromBatches
<1>2. QED
  BY <1>1, LotsTyped, PickTyped

LEMMA SplitTyped ==
    ASSUME NEW lines \in Seq(Goods), NEW n \in DOMAIN lines, NEW pick \in Quantities, NEW day
    PROVE  SplitOverShares(lines, n, pick, day) \in Quantities
<1> DEFINE item == lines[n].item
           M == {k \in 1..(n-1) : lines[k].item = item}
           e == [m \in M |-> lines[m].qty]
           from == Total(e)
           upto == from + lines[n].qty
           T(s) == {u \in SourcesOf(item) : PickedBefore(u, s, day)}
           f(s) == [t \in T(s) |-> pick[t]]
           start(s) == Total(f(s))
           part(s) == AtLeast0(Least(upto, start(s) + pick[s]) - (IF from > start(s) THEN from ELSE start(s)))
           g == [s \in SourcesOf(item) |-> part(s)]
<1>1. Len(lines) \in Nat /\ DOMAIN lines = 1..Len(lines) /\ \A m \in DOMAIN lines : lines[m].qty \in Int
  <2>1. /\ Len(lines) \in Nat /\ DOMAIN lines = 1..Len(lines)
        /\ \A m \in DOMAIN lines : lines[m].item \in Items /\ lines[m].qty \in Positive
    BY LinesMoved
  <2>2. QED
    BY <2>1 DEF Positive
<1>2. from \in Int
  <2>0. n \in Int
    BY <1>1
  <2>1. IsFiniteSet(1..(n-1)) /\ M \subseteq 1..(n-1)
    <3>1. 1 \in Int /\ n - 1 \in Int
      BY <2>0
    <3>2. IsFiniteSet(1..(n-1))
      BY ONLY <3>1, FS_Interval
    <3>3. QED
      BY <3>2
  <2>2. IsFiniteSet(M)
    BY <2>1, FS_Subset
  <2>3. e \in [M -> Int]
    BY <1>1, <2>1
  <2> HIDE DEF e, M
  <2>4. QED
    BY <2>2, <2>3, TotalType
<1>3. upto \in Int
  <2> HIDE DEF from
  <2>1. QED
    BY <1>1, <1>2
<1>4. ASSUME NEW s PROVE start(s) \in Int
  <2>1. T(s) \subseteq Sources /\ IsFiniteSet(T(s))
    BY SourcesFinite
  <2>2. f(s) \in [T(s) -> Int]
    BY <2>1 DEF Quantities
  <2> HIDE DEF f, T
  <2>3. QED
    BY <2>1, <2>2, TotalType
<1>5. SplitOverShares(lines, n, pick, day)
        = [s \in Sources |-> (IF s \in SourcesOf(item) THEN part(s) ELSE 0)
                               + (IF s = NoBatch THEN lines[n].qty - Total(g) ELSE 0)]
  BY DEF SplitOverShares
<1> HIDE DEF from, upto, start
<1>6. ASSUME NEW s \in Sources PROVE part(s) \in Int
  BY <1>2, <1>3, <1>4 DEF AtLeast0, Least, Quantities
<1> HIDE DEF part
<1>7. Total(g) \in Int
  <2>1. g \in [SourcesOf(item) -> Int] /\ IsFiniteSet(SourcesOf(item))
    BY <1>6, SourcesFinite
  <2> HIDE DEF g
  <2>2. QED
    BY <2>1, TotalType
<1> HIDE DEF g
<1>8. ASSUME NEW s \in Sources
      PROVE  (IF s \in SourcesOf(item) THEN part(s) ELSE 0) + (IF s = NoBatch THEN lines[n].qty - Total(g) ELSE 0) \in Int
  BY <1>1, <1>6, <1>7
<1> HIDE DEF item
<1>9. QED
  BY <1>5, <1>8 DEF Quantities

LEMMA PutBackTyped ==
    ASSUME NEW out \in Quantities, NEW back \in Quantities, NEW qty \in Int
    PROVE  PutBack(out, back, qty) \in Quantities
<1> DEFINE room(s) == AtLeast0(out[s] - back[s])
           T(s) == {u \in Sources : Sooner(u, s)}
           f(s) == [t \in T(s) |-> room(t)]
           into == [s \in Sources |-> Least(room(s), AtLeast0(qty - Total(f(s))))]
<1>1. \A s \in Sources : room(s) \in Int
  BY DEF AtLeast0, Quantities
<1>2. ASSUME NEW s PROVE Total(f(s)) \in Int
  <2>1. T(s) \subseteq Sources /\ IsFiniteSet(T(s))
    BY SourcesFinite
  <2>2. f(s) \in [T(s) -> Int]
    BY <1>1, <2>1
  <2> HIDE DEF f, T
  <2>3. QED
    BY <2>1, <2>2, TotalType
<1>3. PutBack(out, back, qty) = [into EXCEPT ![NoBatch] = @ + qty - Total(into)]
  BY DEF PutBack
<1> HIDE DEF f, room
<1>4. into \in Quantities
  BY <1>1, <1>2 DEF Least, AtLeast0, Quantities
<1> HIDE DEF into
<1>5. Total(into) \in Int
  BY <1>4, SourcesFinite, TotalType DEF Quantities
<1>6. QED
  BY <1>3, <1>4, <1>5, SourcesFinite DEF Quantities

LEMMA WholeTyped ==
    ASSUME NEW qty \in Int, NEW s \in Sources
    PROVE  Whole(qty, s) \in Quantities
BY DEF Whole, Nothing, Quantities

LEMMA WantedTyped ==
    ASSUME NEW lines, lines \in Seq(Goods) \/ lines \in Seq(GoodsIn), NEW i
    PROVE  Wanted(lines, i) \in Int
<1> DEFINE M == {m \in DOMAIN lines : lines[m].item = i}
           f == [n \in M |-> lines[n].qty]
<1>1. /\ Len(lines) \in Nat /\ DOMAIN lines = 1..Len(lines)
      /\ \A m \in DOMAIN lines : lines[m].item \in Items /\ lines[m].qty \in Positive
  BY LinesMoved
<1>2. IsFiniteSet(DOMAIN lines)
  BY <1>1, FS_Interval
<1>3. M \subseteq DOMAIN lines /\ IsFiniteSet(M)
  BY <1>2, FS_Subset
<1>4. f \in [M -> Int]
  BY <1>1, <1>3 DEF Positive
<1> HIDE DEF f, M
<1>5. Total(f) \in Int
  BY <1>3, <1>4, TotalType
<1>6. QED
  BY <1>5 DEF Wanted, f, M

\* A sequence given line by line.
LEMMA LineByLine ==
    ASSUME NEW L, Len(L) \in Nat, DOMAIN L = 1..Len(L), NEW S, NEW f, f = [n \in DOMAIN L |-> f[n]],
           \A n \in DOMAIN L : f[n] \in S
    PROVE  f \in Seq(S) /\ DOMAIN f = DOMAIN L
<1>1. f \in [1..Len(L) -> S]
  OBVIOUS
<1>2. QED
  BY <1>1

LEMMA TakenOfTyped ==
    ASSUME TypeOK, NEW op, op \in SaleOps \/ op \in TransferOps, NEW i \in Items, NEW day, NEW kept, NEW short,
           NEW pick \in TakenOf(op, i, day, kept, short)
    PROVE  pick \in Quantities
<1>1. op.branch \in Branches /\ Wanted(op.lines, i) \in Int
  BY WantedTyped DEF SaleOps, TransferOps
<1>2. \/ pick \in TakeFromBatches(op.branch, i, Wanted(op.lines, i), day, short, FALSE)
      \/ pick = Whole(Wanted(op.lines, i), NoBatch)
  BY DEF TakenOf
<1>3. QED
  BY <1>1, <1>2, TakeTyped, WholeTyped, SourcesFinite

LEMMA TakenOutTyped ==
    ASSUME TypeOK, NEW op, op \in SaleOps \/ op \in TransferOps, NEW day, NEW kept, NEW short,
           NEW took \in TakenOut(op, day, kept, short)
    PROVE  took \in Seq(Quantities) /\ DOMAIN took = DOMAIN op.lines
<1>1. /\ op.lines \in Seq(Goods) /\ Len(op.lines) \in Nat /\ DOMAIN op.lines = 1..Len(op.lines)
      /\ \A n \in DOMAIN op.lines : op.lines[n].item \in Items
  <2>1. op.lines \in Seq(Goods)
    BY DEF SaleOps, TransferOps
  <2>2. QED
    BY <2>1, LinesMoved
<1> DEFINE all == [i \in ItemsOf(op.lines) |-> TakenOf(op, i, day, kept, short)]
<1>2. PICK take \in {all} :
         /\ \A i \in DOMAIN take : take[i] # {}
         /\ took = [n \in DOMAIN op.lines |->
                      SplitOverShares(op.lines, n, CHOOSE pick \in take[op.lines[n].item] : TRUE, day)]
  BY DEF TakenOut
<1> DEFINE pick(n) == CHOOSE p \in take[op.lines[n].item] : TRUE
<1>3. ASSUME NEW n \in DOMAIN op.lines PROVE pick(n) \in Quantities
  <2>1. op.lines[n].item \in ItemsOf(op.lines) /\ op.lines[n].item \in Items
    BY <1>1 DEF ItemsOf
  <2>2. take[op.lines[n].item] # {} /\ take[op.lines[n].item] = TakenOf(op, op.lines[n].item, day, kept, short)
    BY <1>2, <2>1
  <2>3. pick(n) \in TakenOf(op, op.lines[n].item, day, kept, short)
    BY <2>2
  <2> HIDE DEF pick
  <2>4. QED
    BY <2>1, <2>3, TakenOfTyped
<1> HIDE DEF all
<1>4. took = [n \in DOMAIN op.lines |-> SplitOverShares(op.lines, n, pick(n), day)]
  BY <1>2
<1> HIDE DEF pick
<1>5. \A n \in DOMAIN op.lines : took[n] \in Quantities
  BY <1>1, <1>3, <1>4, SplitTyped
<1>6. took = [n \in DOMAIN op.lines |-> took[n]]
  BY <1>4
<1>7. QED
  BY <1>1, <1>5, <1>6, LineByLine

\* One line's goods, of one item.
LEMMA OneLine ==
    ASSUME NEW q \in Quantities, NEW i
    PROVE  <<q>> \in Seq(Quantities) /\ DOMAIN <<q>> = DOMAIN <<i>>
OBVIOUS

LEMMA IntoTyped ==
    ASSUME NEW op, NEW kept, op \in CountOps \/ op \in GoodsIn
    PROVE  Into(op, kept) \in SourcesOf(op.item) /\ Into(op, kept) \in Sources /\ op.qty \in Int
BY DEF Into, SourcesOf, Sources, CountOps, GoodsIn, BatchFits, Positive

LEMMA CountTyped ==
    ASSUME TypeOK, NEW op \in CountOps, NEW day, NEW kept, NEW took \in Outcome(op, day, kept)
    PROVE  \E q \in Quantities : took = <<q>>
<1>1. op.branch \in Branches /\ op.item \in Items /\ op.batch \in Sources /\ op.qty \in Int
  BY DEF CountOps, Positive
<1>2. CASE op.kind = "opening"
  <2>1. took = <<Whole(op.qty, Into(op, kept))>>
    BY <1>2 DEF Outcome
  <2>2. QED
    BY <1>1, <2>1, IntoTyped, WholeTyped
<1>3. CASE op.kind = "reopening"
  <2>1. PICK s \in Openings(op, kept) : took = <<Whole(op.qty, s)>>
    BY <1>3 DEF Outcome
  <2>2. s \in Sources
    BY DEF Openings
  <2>3. QED
    BY <1>1, <2>1, <2>2, WholeTyped
<1>4. CASE op.kind = "adjustIn"
  <2>1. took = <<Whole(op.qty, Into(op, kept))>>
    BY <1>4 DEF Outcome
  <2>2. QED
    BY <1>1, <2>1, IntoTyped, WholeTyped
<1>5. CASE op.kind = "adjustOut"
  <2>1. \/ took = <<Whole(op.qty, NoBatch)>> \/ took = <<Whole(op.qty, op.batch)>>
        \/ \E pick \in TakeFromBatches(op.branch, op.item, op.qty, day, FALSE, TRUE) : took = <<pick>>
    BY <1>5 DEF Outcome, AdjustedOut
  <2>2. QED
    BY <1>1, <2>1, TakeTyped, WholeTyped, SourcesFinite
<1>6. QED
  BY <1>2, <1>3, <1>4, <1>5 DEF CountOps

LEMMA BoughtTyped ==
    ASSUME NEW op \in PurchaseOps, NEW kept, NEW took \in Bought(op, kept)
    PROVE  /\ took = [n \in DOMAIN op.lines |-> Whole(op.lines[n].qty, Into(op.lines[n], kept))]
           /\ took \in Seq(Quantities) /\ DOMAIN took = DOMAIN op.lines
<1>1. took = [n \in DOMAIN op.lines |-> Whole(op.lines[n].qty, Into(op.lines[n], kept))]
  BY DEF Bought
<1>2. op.lines \in Seq(GoodsIn)
  BY DEF PurchaseOps
<1>3. Len(op.lines) \in Nat /\ DOMAIN op.lines = 1..Len(op.lines) /\ \A n \in DOMAIN op.lines : op.lines[n] \in GoodsIn
  BY <1>2, LenProperties
<1>4. \A n \in DOMAIN op.lines : took[n] \in Quantities
  BY <1>1, <1>3, IntoTyped, WholeTyped
<1>5. took \in [1..Len(op.lines) -> Quantities]
  BY <1>1, <1>3, <1>4
<1>6. QED
  BY <1>1, <1>3, <1>5

\* A line bought came in to one batch of its item, or without one.
PurchasesKept ==
    \A d \in Documents : Is(d, "purchase") =>
        \A n \in DOMAIN docs[d].lines :
            \E s \in SourcesOf(docs[d].lines[n].item) : docs[d].out[n] = Whole(docs[d].lines[n].qty, s)

LEMMA SentFrom ==
    ASSUME TypeOK, PurchasesKept, NEW op \in Ops, op.kind = "sendBack", Found(op)
    PROVE  CameInto(docs[op.doc], op.line) \in SourcesOf(docs[op.doc].lines[op.line].item)
<1>1. Is(op.doc, "purchase") /\ op.doc \in Documents /\ op.line \in DOMAIN docs[op.doc].lines
  BY FoundDoc DEF OnDocument, Found, Possible
<1>2. docs[op.doc].lines[op.line].qty \in Positive
  BY <1>1, FoundDoc, LinesMoved DEF OnDocument, Doc
<1> DEFINE into == CameInto(docs[op.doc], op.line)
           item == docs[op.doc].lines[op.line].item
           out == docs[op.doc].out[op.line]
           q == docs[op.doc].lines[op.line].qty
<1>3. PICK s \in SourcesOf(item) : out = Whole(q, s)
  BY <1>1 DEF PurchasesKept
<1>4. s \in Sources
  BY SourcesFinite
<1> HIDE DEF item, out, q
<1>5. \A t \in Sources : out[t] = IF t = s THEN q ELSE 0
  BY <1>3, <1>4 DEF Whole, Nothing
<1>6. \A t \in Sources : out[t] > 0 <=> t = s
  BY <1>2, <1>5 DEF Positive, q
<1>7. into = s
  BY <1>4, <1>6 DEF CameInto, out
<1>8. QED
  BY <1>3, <1>7 DEF item

LEMMA OutcomeTyped ==
    ASSUME TypeOK, PurchasesKept, NEW op \in Ops, Found(op), NEW day, NEW kept, NEW took \in Outcome(op, day, kept)
    PROVE  took \in Seq(Quantities) /\ DOMAIN took = DOMAIN ItemsMoved(op)
<1>1. CASE op.kind \in {"opening", "reopening", "adjustIn", "adjustOut"}
  <2>1. PICK q \in Quantities : took = <<q>>
    BY <1>1, OpKinds, CountTyped
  <2>2. ItemsMoved(op) = <<op.item>>
    BY <1>1 DEF ItemsMoved
  <2>3. QED
    BY <2>1, <2>2, OneLine
<1>2. CASE op.kind \in {"sale", "transfer"}
  <2>1. op \in SaleOps \/ op \in TransferOps
    BY <1>2, OpKinds
  <2>2. \E short : took \in TakenOut(op, day, kept, short)
    BY <1>2 DEF Outcome
  <2>3. took \in Seq(Quantities) /\ DOMAIN took = DOMAIN op.lines
    BY <2>1, <2>2, TakenOutTyped
  <2>4. QED
    BY <1>2, <2>3 DEF ItemsMoved
<1>3. CASE op.kind = "purchase"
  <2>1. took \in Bought(op, kept) /\ op \in PurchaseOps
    BY <1>3, OpKinds DEF Outcome
  <2>2. QED
    BY <1>3, <2>1, BoughtTyped DEF ItemsMoved
<1>4. CASE op.kind = "sendBack"
  <2>1. took \in SentBack(op) /\ op \in LineOps
    BY <1>4, OpKinds DEF Outcome
  <2>2. took = <<Whole(op.qty, CameInto(docs[op.doc], op.line))>>
    BY <2>1 DEF SentBack, CameInto
  <2>3. CameInto(docs[op.doc], op.line) \in Sources /\ op.qty \in Int
    BY <1>4, <2>1, SentFrom, SourcesFinite DEF LineOps, Positive
  <2>4. ItemsMoved(op) = <<docs[op.doc].lines[op.line].item>>
    BY <1>4 DEF ItemsMoved
  <2>5. QED
    BY <2>2, <2>3, <2>4, WholeTyped, OneLine
<1>5. CASE op.kind = "return"
  <2>1. took = <<PutBack(docs[op.doc].out[op.line], docs[op.doc].back[op.line], op.qty)>> /\ op.qty \in Int
    BY <1>5, OpKinds DEF Outcome, LineOps, Positive
  <2>2. /\ docs[op.doc] \in Doc /\ op.line \in DOMAIN docs[op.doc].out /\ op.line \in DOMAIN docs[op.doc].back
    BY <1>5, FoundDoc DEF OnDocument, TypeOK, Made
  <2>3. docs[op.doc].out[op.line] \in Quantities /\ docs[op.doc].back[op.line] \in Quantities
    <3>1. docs[op.doc].out \in Seq(Quantities) /\ docs[op.doc].back \in Seq(Quantities)
      BY <2>2 DEF Doc, Quantities
    <3>2. QED
      BY <2>2, <3>1, LenProperties
  <2>4. PutBack(docs[op.doc].out[op.line], docs[op.doc].back[op.line], op.qty) \in Quantities
    BY <2>1, <2>3, PutBackTyped
  <2>5. ItemsMoved(op) = <<docs[op.doc].lines[op.line].item>>
    BY <1>5 DEF ItemsMoved
  <2>6. QED
    BY <2>1, <2>4, <2>5, OneLine
<1>6. CASE op.kind \in {"cancel", "receive", "callBack"}
  <2>1. took = docs[op.doc].out
    BY <1>6 DEF Outcome
  <2>2. docs[op.doc] \in Doc /\ DOMAIN docs[op.doc].out = DOMAIN docs[op.doc].lines
    BY <1>6, FoundDoc DEF OnDocument, TypeOK, Made
  <2>3. QED
    BY <1>6, <2>1, <2>2 DEF ItemsMoved, Doc, Quantities
<1>7. QED
  BY <1>1, <1>2, <1>3, <1>4, <1>5, <1>6, OpKinds DEF Makes

(***************************************************************************)
(* What an operation writes.                                               *)
(***************************************************************************)

LEMMA MovesTyped ==
    ASSUME NEW items \in Seq(Items), NEW took \in Seq(Quantities), DOMAIN took = DOMAIN items, NEW i, NEW s \in Sources
    PROVE  Moves(items, took, i, s) \in Int /\ (i \notin ToSet(items) => Moves(items, took, i, s) = 0)
<1> DEFINE M == {m \in DOMAIN took : items[m] = i}
           f == [n \in M |-> took[n][s]]
<1>1. Len(took) \in Nat /\ DOMAIN took = 1..Len(took) /\ \A n \in DOMAIN took : took[n] \in Quantities
  BY LenProperties
<1>2. M \subseteq DOMAIN took /\ IsFiniteSet(M)
  <2>1. 1 \in Int /\ Len(took) \in Int
    BY <1>1
  <2>2. IsFiniteSet(1..Len(took))
    BY ONLY <2>1, FS_Interval
  <2>3. M \subseteq 1..Len(took)
    BY <1>1
  <2>4. QED
    BY <1>1, <2>2, <2>3, FS_Subset
<1>3. f \in [M -> Int]
  BY <1>1, <1>2 DEF Quantities
<1>4. i \notin ToSet(items) => M = {}
  BY DEF ToSet
<1> HIDE DEF f, M
<1>5. Total(f) \in Int /\ (M = {} => Total(f) = 0)
  BY <1>2, <1>3, TotalType, TotalOfNone
<1>6. QED
  BY <1>4, <1>5 DEF Moves, f, M

\* Stock counted at the opening is of a batch of the item.
OpeningsKept ==
    \A b \in Branches, i \in Items, s \in Sources : opening[<<b, i, s>>] # NoOpening => s \in SourcesOf(i)
BookInv == TypeOK /\ PurchasesKept /\ OpeningsKept

\* An opening count, or its correction, is of one source.
OpeningFits(op, took) == op.kind \in {"opening", "reopening"} => \E s \in SourcesOf(op.item) : took = <<Whole(op.qty, s)>>

LEMMA OutcomeFits ==
    ASSUME BookInv, NEW op \in Ops, NEW day, NEW kept, NEW took \in Outcome(op, day, kept)
    PROVE  OpeningFits(op, took)
<1>1. CASE op.kind = "opening"
  <2>1. took = <<Whole(op.qty, Into(op, kept))>> /\ op \in CountOps
    BY <1>1, OpKinds DEF Outcome
  <2>2. QED
    BY <2>1, IntoTyped DEF OpeningFits
<1>2. CASE op.kind = "reopening"
  <2>1. PICK s \in Openings(op, kept) : took = <<Whole(op.qty, s)>>
    BY <1>2 DEF Outcome
  <2>2. op.branch \in Branches /\ op.item \in Items
    BY <1>2, OpKinds DEF CountOps
  <2>3. s \in SourcesOf(op.item)
    BY <2>1, <2>2 DEF Openings, BookInv, OpeningsKept
  <2>4. QED
    BY <2>1, <2>3 DEF OpeningFits
<1>3. QED
  BY <1>1, <1>2 DEF OpeningFits

Elsewhere(op, b, i) == b # Place(op) \/ i \notin MovedItems(op)

\* The stock of other items, and at other branches, stays as it was.
StockStays(op) ==
    \A b \in Branches, i \in Items : Elsewhere(op, b, i) =>
        /\ onHand'[<<b, i>>] = onHand[<<b, i>>]
        /\ \A s \in Batches : ItemOf[s] = i => inBatch'[<<b, s>>] = inBatch[<<b, s>>]
        /\ \A s \in Sources : opening'[<<b, i, s>>] = opening[<<b, i, s>>]
        /\ <<b, i>> \in moved' <=> <<b, i>> \in moved
StockTyped ==
    /\ onHand \in [Branches \X Items -> Int]
    /\ inBatch \in [Branches \X Batches -> Int]
    /\ ledger \in [Branches \X Items \X Sources -> Int]
    /\ opening \in [Branches \X Items \X Sources -> Nat \cup {NoOpening}]

\* But for these items at this branch, the stock stays as it was.
StaysOutside(b, items) ==
    \A c \in Branches, i \in Items : c # b \/ i \notin ToSet(items) =>
        /\ onHand'[<<c, i>>] = onHand[<<c, i>>]
        /\ \A s \in Batches : ItemOf[s] = i => inBatch'[<<c, s>>] = inBatch[<<c, s>>]

\* Recording stock moves the items it is of, where they are.
LEMMA Recorded ==
    ASSUME TypeOK, NEW b, NEW items \in Seq(Items), NEW took \in Seq(Quantities), DOMAIN took = DOMAIN items,
           NEW sign \in {-1, 1}, RecordStock(b, items, took, sign)
    PROVE  /\ onHand' \in [Branches \X Items -> Int]
           /\ inBatch' \in [Branches \X Batches -> Int]
           /\ ledger' \in [Branches \X Items \X Sources -> Int]
           /\ StaysOutside(b, items)
<1> DEFINE all(i) == Total([s \in Sources |-> Moves(items, took, i, s)])
<1>1. ASSUME NEW i PROVE all(i) \in Int /\ (i \notin ToSet(items) => all(i) = 0)
  <2> DEFINE f == [s \in Sources |-> Moves(items, took, i, s)]
  <2>1. f \in [Sources -> Int] /\ (i \notin ToSet(items) => \A s \in Sources : f[s] = 0)
    BY MovesTyped
  <2> HIDE DEF f
  <2>2. Total(f) \in Int /\ (i \notin ToSet(items) => Total(f) = 0)
    BY <2>1, SourcesFinite, TotalType, TotalOfNone
  <2>3. QED
    BY <2>2 DEF f
<1>2. /\ DOMAIN onHand = Branches \X Items /\ DOMAIN inBatch = Branches \X Batches
      /\ DOMAIN ledger = Branches \X Items \X Sources
  BY DEF TypeOK
<1>3. /\ ledger' = [p \in DOMAIN ledger |-> ledger[p] + IF p[1] = b THEN sign * Moves(items, took, p[2], p[3]) ELSE 0]
      /\ onHand' = [p \in DOMAIN onHand |-> onHand[p] + IF p[1] = b THEN sign * all(p[2]) ELSE 0]
      /\ inBatch' = [p \in DOMAIN inBatch |-> inBatch[p] + IF p[1] = b THEN sign * Moves(items, took, ItemOf[p[2]], p[2]) ELSE 0]
  BY DEF RecordStock
<1> HIDE DEF all
<1>4. \A n \in Int : sign * n \in Int /\ (n = 0 => sign * n = 0)
  OBVIOUS
<1>5. ASSUME NEW p \in Branches \X Items
      PROVE  onHand'[p] \in Int /\ (p[1] # b \/ p[2] \notin ToSet(items) => onHand'[p] = onHand[p])
  <2>1. onHand[p] \in Int
    BY DEF TypeOK
  <2>2. sign * all(p[2]) \in Int /\ (p[2] \notin ToSet(items) => sign * all(p[2]) = 0)
    BY <1>1, <1>4
  <2>3. onHand'[p] = onHand[p] + IF p[1] = b THEN sign * all(p[2]) ELSE 0
    BY <1>2, <1>3
  <2>4. QED
    BY <2>1, <2>2, <2>3
<1>6. ASSUME NEW p \in Branches \X Batches
      PROVE  inBatch'[p] \in Int /\ (p[1] # b \/ ItemOf[p[2]] \notin ToSet(items) => inBatch'[p] = inBatch[p])
  <2>1. inBatch[p] \in Int /\ p[2] \in Sources
    BY DEF TypeOK, Sources
  <2> DEFINE x == sign * Moves(items, took, ItemOf[p[2]], p[2])
  <2>2. x \in Int /\ (ItemOf[p[2]] \notin ToSet(items) => x = 0)
    BY <1>4, <2>1, MovesTyped
  <2>3. inBatch'[p] = inBatch[p] + IF p[1] = b THEN x ELSE 0
    BY <1>2, <1>3
  <2> HIDE DEF x
  <2>4. QED
    BY <2>1, <2>2, <2>3
<1>7. ASSUME NEW p \in Branches \X Items \X Sources PROVE ledger'[p] \in Int
  <2>1. ledger[p] \in Int /\ p[3] \in Sources
    BY DEF TypeOK
  <2> DEFINE x == sign * Moves(items, took, p[2], p[3])
  <2>2. x \in Int
    BY <1>4, <2>1, MovesTyped
  <2>3. ledger'[p] = ledger[p] + IF p[1] = b THEN x ELSE 0
    BY <1>2, <1>3
  <2> HIDE DEF x
  <2>4. QED
    BY <2>1, <2>2, <2>3
<1>8. /\ onHand' \in [Branches \X Items -> Int] /\ inBatch' \in [Branches \X Batches -> Int]
      /\ ledger' \in [Branches \X Items \X Sources -> Int]
  BY <1>2, <1>3, <1>5, <1>6, <1>7
<1>9. ASSUME NEW c \in Branches, NEW i \in Items, c # b \/ i \notin ToSet(items)
      PROVE  /\ onHand'[<<c, i>>] = onHand[<<c, i>>]
             /\ \A s \in Batches : ItemOf[s] = i => inBatch'[<<c, s>>] = inBatch[<<c, s>>]
  <2>1. <<c, i>> \in Branches \X Items /\ \A s \in Batches : <<c, s>> \in Branches \X Batches
    OBVIOUS
  <2>2. QED
    BY <1>5, <1>6, <1>9, <2>1
<1>10. StaysOutside(b, items)
  BY <1>9 DEF StaysOutside
<1>11. QED
  BY <1>8, <1>10

LEMMA PlaceTyped ==
    ASSUME TypeOK, NEW op \in Ops, Found(op)
    PROVE  Place(op) \in Branches
<1>1. CASE op.kind \in {"opening", "reopening", "adjustIn", "adjustOut"}
  BY <1>1, OpKinds DEF Place, CountOps
<1>2. CASE Makes(op)
  BY <1>2, OpKinds DEF Makes, Place, SaleOps, TransferOps, PurchaseOps
<1>3. CASE OnDocument(op)
  <2>1. docs[op.doc].branch \in Branches /\ docs[op.doc].to \in Branches
    BY <1>3, FoundDoc DEF Doc
  <2>2. QED
    BY <1>3, <2>1 DEF Place, OnDocument
<1>4. QED
  BY <1>1, <1>2, <1>3, OpKinds DEF OnDocument

\* A quantity tells which source it is of.
LEMMA WholeOf ==
    ASSUME NEW qty \in Positive, NEW s \in Sources, NEW t \in Sources, Whole(qty, s) = Whole(qty, t)
    PROVE  s = t
<1>1. Whole(qty, s)[s] = qty
  BY DEF Whole, Nothing
<1>2. s # t => Whole(qty, t)[s] = 0
  BY DEF Whole, Nothing
<1>3. QED
  BY <1>1, <1>2 DEF Positive

\* A corrected opening count: of one source of the item, at the request's branch.
LEMMA Corrected ==
    ASSUME BookInv, NEW op \in CountOps, NEW s \in SourcesOf(op.item), opening[<<op.branch, op.item, s>>] # NoOpening,
           CorrectOpening(op, s)
    PROVE  /\ onHand' \in [Branches \X Items -> Int] /\ inBatch' \in [Branches \X Batches -> Int]
           /\ ledger' \in [Branches \X Items \X Sources -> Int]
           /\ opening' \in [Branches \X Items \X Sources -> Nat \cup {NoOpening}]
           /\ counted' \in [Items -> Int]
           /\ OpeningsKept'
           /\ \A b \in Branches, i \in Items : b # op.branch \/ i # op.item =>
                 /\ onHand'[<<b, i>>] = onHand[<<b, i>>]
                 /\ \A t \in Batches : ItemOf[t] = i => inBatch'[<<b, t>>] = inBatch[<<b, t>>]
                 /\ \A t \in Sources : opening'[<<b, i, t>>] = opening[<<b, i, t>>]
<1> DEFINE p == <<op.branch, op.item>>
           q == <<op.branch, op.item, s>>
           change == op.qty - opening[q]
<1>1. /\ op.branch \in Branches /\ op.item \in Items /\ op.qty \in Nat /\ s \in Sources
      /\ p \in Branches \X Items /\ q \in Branches \X Items \X Sources
  BY SourcesFinite DEF CountOps, Positive
<1>2. change \in Int
  BY <1>1 DEF BookInv, TypeOK, NoOpening
<1>3. /\ onHand' = [onHand EXCEPT ![p] = @ + change] /\ ledger' = [ledger EXCEPT ![q] = @ + change]
      /\ opening' = [opening EXCEPT ![q] = op.qty] /\ counted' = [counted EXCEPT ![op.item] = @ + change]
      /\ inBatch' = IF s = NoBatch THEN inBatch ELSE [inBatch EXCEPT ![<<op.branch, s>>] = @ + change]
  BY DEF CorrectOpening
<1> HIDE DEF change
<1>4. onHand' \in [Branches \X Items -> Int] /\ \A z \in Branches \X Items : z # p => onHand'[z] = onHand[z]
  BY <1>1, <1>2, <1>3 DEF BookInv, TypeOK
<1>5. /\ opening' \in [Branches \X Items \X Sources -> Nat \cup {NoOpening}]
      /\ \A z \in Branches \X Items \X Sources : z # q => opening'[z] = opening[z]
  BY <1>1, <1>2, <1>3 DEF BookInv, TypeOK
<1>6. ledger' \in [Branches \X Items \X Sources -> Int] /\ counted' \in [Items -> Int]
  BY <1>1, <1>2, <1>3 DEF BookInv, TypeOK
<1>7. /\ inBatch' \in [Branches \X Batches -> Int]
      /\ \A z \in Branches \X Batches : z # <<op.branch, s>> => inBatch'[z] = inBatch[z]
  <2>1. inBatch \in [Branches \X Batches -> Int]
    BY DEF BookInv, TypeOK
  <2>2. CASE s = NoBatch
    BY <1>3, <2>1, <2>2
  <2>3. CASE s # NoBatch
    <3>1. <<op.branch, s>> \in Branches \X Batches
      BY <1>1, <2>3 DEF Sources
    <3>2. QED
      BY <1>2, <1>3, <2>1, <2>3, <3>1
  <2>4. QED
    BY <2>2, <2>3
<1>8. s # NoBatch => ItemOf[s] = op.item
  BY DEF SourcesOf
<1>9. OpeningsKept'
  <2>1. SUFFICES ASSUME NEW b \in Branches, NEW i \in Items, NEW t \in Sources, opening'[<<b, i, t>>] # NoOpening
                 PROVE  t \in SourcesOf(i)
    BY DEF OpeningsKept
  <2>2. CASE <<b, i, t>> = q
    BY <2>2
  <2>3. CASE <<b, i, t>> # q
    BY <1>5, <2>1, <2>3 DEF BookInv, OpeningsKept
  <2>4. QED
    BY <2>2, <2>3
<1>10. ASSUME NEW b \in Branches, NEW i \in Items, b # op.branch \/ i # op.item
       PROVE  /\ onHand'[<<b, i>>] = onHand[<<b, i>>]
              /\ \A t \in Batches : ItemOf[t] = i => inBatch'[<<b, t>>] = inBatch[<<b, t>>]
              /\ \A t \in Sources : opening'[<<b, i, t>>] = opening[<<b, i, t>>]
  <2>1. <<b, i>> # p /\ <<b, i>> \in Branches \X Items
    BY <1>10
  <2>2. ASSUME NEW t \in Batches, ItemOf[t] = i PROVE inBatch'[<<b, t>>] = inBatch[<<b, t>>]
    <3>1. <<b, t>> # <<op.branch, s>> /\ <<b, t>> \in Branches \X Batches
      BY <1>8, <1>10, <2>2, StockAssumption
    <3>2. QED
      BY <1>7, <3>1
  <2>3. ASSUME NEW t \in Sources PROVE opening'[<<b, i, t>>] = opening[<<b, i, t>>]
    <3>1. <<b, i, t>> # q /\ <<b, i, t>> \in Branches \X Items \X Sources
      BY <1>10
    <3>2. QED
      BY <1>5, <3>1
  <2>4. QED
    BY <1>4, <2>1, <2>2, <2>3
<1>11. QED
  BY <1>4, <1>5, <1>6, <1>7, <1>9, <1>10

\* What an operation moves fits it.
Fits(op, took) ==
    /\ took \in Seq(Quantities) /\ DOMAIN took = DOMAIN ItemsMoved(op)
    /\ op.kind = "opening" => \E s \in SourcesOf(op.item) : took = <<Whole(op.qty, s)>>
    /\ op.kind = "reopening" => \E s \in SourcesOf(op.item) :
          took = <<Whole(op.qty, s)>> /\ opening[<<op.branch, op.item, s>>] # NoOpening

LEMMA OutcomeFitsOp ==
    ASSUME BookInv, NEW op \in Ops, Found(op), NEW day, NEW kept, NEW took \in Outcome(op, day, kept)
    PROVE  Fits(op, took)
<1>1. took \in Seq(Quantities) /\ DOMAIN took = DOMAIN ItemsMoved(op)
  BY OutcomeTyped DEF BookInv
<1>2. op.kind = "opening" => \E s \in SourcesOf(op.item) : took = <<Whole(op.qty, s)>>
  BY OutcomeFits DEF OpeningFits
<1>3. ASSUME op.kind = "reopening"
      PROVE  \E s \in SourcesOf(op.item) : took = <<Whole(op.qty, s)>> /\ opening[<<op.branch, op.item, s>>] # NoOpening
  <2>1. PICK s \in Openings(op, kept) : took = <<Whole(op.qty, s)>>
    BY <1>3 DEF Outcome
  <2>2. op.branch \in Branches /\ op.item \in Items
    BY <1>3, OpKinds DEF CountOps
  <2>3. s \in SourcesOf(op.item) /\ opening[<<op.branch, op.item, s>>] # NoOpening
    BY <2>1, <2>2 DEF Openings, BookInv, OpeningsKept
  <2>4. QED
    BY <2>1, <2>3
<1>4. QED
  BY <1>1, <1>2, <1>3 DEF Fits

LEMMA SignTyped ==
    ASSUME NEW op
    PROVE  Sign(op) \in {-1, 1}
BY DEF Sign

\* Whether an operation is a count.
IsCount(op) == op.kind \in {"opening", "reopening", "adjustIn", "adjustOut"}

\* What an operation does to the stock: to its items, at its branch, and no other.
LEMMA Applied ==
    ASSUME BookInv, NEW op \in Ops, Possible(op), NEW day, NEW took, Fits(op, took), Apply(op, took, day)
    PROVE  /\ StockTyped' /\ OpeningsKept' /\ StockStays(op)
           /\ moved' \subseteq Branches \X Items /\ past' \subseteq Branches \X Items /\ counted' \in [Items -> Int]
           /\ tracked' = tracked /\ switched' = switched /\ today' = today /\ done' = done + 1
<1>0. TypeOK /\ Found(op) /\ OpeningsKept /\ OpeningsKept
  BY DEF BookInv, Found
<1>1. Place(op) \in Branches /\ ItemsMoved(op) \in Seq(Items) /\ MovedItems(op) \subseteq Items
  BY <1>0, PlaceTyped, MovedItemsTyped
<1>2. tracked' = tracked /\ switched' = switched /\ today' = today /\ done' = done + 1 /\ past' = past \cup SoldPast(op)
  BY DEF Apply
<1>3. past' \subseteq Branches \X Items
  <2>1. SoldPast(op) \subseteq Branches \X Items
    <3>1. CASE op.kind = "sale"
      <4>1. op.branch \in Branches /\ op.lines \in Seq(Goods)
        BY <3>1, OpKinds DEF SaleOps
      <4>2. \A n \in DOMAIN op.lines : op.lines[n].item \in Items
        BY <4>1, LinesMoved
      <4>3. ItemsOf(op.lines) \subseteq Items
        BY <4>2 DEF ItemsOf
      <4>4. ASSUME NEW p \in SoldPast(op) PROVE \E i \in ItemsOf(op.lines) : p = <<op.branch, i>>
        BY <3>1 DEF SoldPast
      <4>5. QED
        BY <4>1, <4>3, <4>4
    <3>2. QED
      BY <3>1 DEF SoldPast
  <2>2. QED
    BY <1>0, <1>2, <2>1 DEF TypeOK
<1>4. CASE op.kind = "reopening"
  <2>1. PICK s \in Sources : took[1] = Whole(op.qty, s) /\ CorrectOpening(op, s) /\ moved' = moved
    BY <1>4 DEF Apply
  <2>2. op \in CountOps /\ op.qty \in Positive
    BY <1>4, OpKinds DEF CountOps
  <2>3. PICK t \in SourcesOf(op.item) : took = <<Whole(op.qty, t)>> /\ opening[<<op.branch, op.item, t>>] # NoOpening
    BY <1>4 DEF Fits
  <2>4. took[1] = Whole(op.qty, t)
    BY <2>3
  <2>5. s = t
    BY <2>1, <2>2, <2>4, WholeOf, SourcesFinite
  <2>6. Place(op) = op.branch /\ MovedItems(op) = {op.item}
    BY <1>4 DEF Place, MovedItems, ItemsMoved, ToSet
  <2>7. /\ onHand' \in [Branches \X Items -> Int] /\ inBatch' \in [Branches \X Batches -> Int]
        /\ ledger' \in [Branches \X Items \X Sources -> Int]
        /\ opening' \in [Branches \X Items \X Sources -> Nat \cup {NoOpening}]
        /\ counted' \in [Items -> Int] /\ OpeningsKept'
        /\ \A b \in Branches, i \in Items : b # op.branch \/ i # op.item =>
                 /\ onHand'[<<b, i>>] = onHand[<<b, i>>]
                 /\ \A u \in Batches : ItemOf[u] = i => inBatch'[<<b, u>>] = inBatch[<<b, u>>]
                 /\ \A u \in Sources : opening'[<<b, i, u>>] = opening[<<b, i, u>>]
    BY <2>1, <2>2, <2>3, <2>5, Corrected
  <2>8. StockStays(op)
    BY <2>1, <2>6, <2>7 DEF StockStays, Elsewhere
  <2>9. QED
    BY <1>0, <1>2, <1>3, <2>1, <2>7, <2>8 DEF StockTyped, TypeOK
<1>5. CASE op.kind # "reopening"
  <2>1. /\ RecordStock(Place(op), ItemsMoved(op), took, Sign(op))
        /\ moved' = IF op.kind = "opening" THEN moved
                    ELSE moved \cup {<<Place(op), ItemsMoved(op)[n]>> : n \in DOMAIN took}
        /\ opening' = IF op.kind = "opening"
                      THEN [p \in DOMAIN opening |->
                              IF p[1] = Place(op) /\ p[2] = op.item /\ took[1][p[3]] > 0 THEN op.qty ELSE opening[p]]
                      ELSE opening
        /\ counted' = IF op.kind \in {"opening", "adjustIn", "adjustOut"}
                      THEN [counted EXCEPT ![op.item] = @ + Sign(op) * op.qty] ELSE counted
    BY <1>5 DEF Apply
  <2>2. took \in Seq(Quantities) /\ DOMAIN took = DOMAIN ItemsMoved(op)
    BY DEF Fits
  <2>3. /\ onHand' \in [Branches \X Items -> Int]
        /\ inBatch' \in [Branches \X Batches -> Int]
        /\ ledger' \in [Branches \X Items \X Sources -> Int]
        /\ \A c \in Branches, i \in Items : c # Place(op) \/ i \notin MovedItems(op) =>
              /\ onHand'[<<c, i>>] = onHand[<<c, i>>]
              /\ \A s \in Batches : ItemOf[s] = i => inBatch'[<<c, s>>] = inBatch[<<c, s>>]
    <3>1. MovedItems(op) = ToSet(ItemsMoved(op)) /\ Sign(op) \in {-1, 1}
      BY SignTyped DEF MovedItems
    <3>2. PICK b : b = Place(op)
      OBVIOUS
    <3>3. PICK items : items = ItemsMoved(op)
      OBVIOUS
    <3>4. PICK sign : sign = Sign(op)
      OBVIOUS
    <3>5. RecordStock(b, items, took, sign) /\ items \in Seq(Items) /\ DOMAIN took = DOMAIN items /\ sign \in {-1, 1}
      BY <1>1, <2>1, <2>2, <3>1, <3>2, <3>3, <3>4
    <3>6. /\ onHand' \in [Branches \X Items -> Int]
          /\ inBatch' \in [Branches \X Batches -> Int]
          /\ ledger' \in [Branches \X Items \X Sources -> Int]
          /\ StaysOutside(b, items)
      BY <1>0, <2>2, <3>5, Recorded
    <3>7. QED
      BY <3>1, <3>2, <3>3, <3>6 DEF StaysOutside
  <2>4. /\ moved' \subseteq Branches \X Items
        /\ \A b \in Branches, i \in Items : Elsewhere(op, b, i) => (<<b, i>> \in moved' <=> <<b, i>> \in moved)
    <3>1. \A n \in DOMAIN took : ItemsMoved(op)[n] \in MovedItems(op)
      BY <2>2 DEF MovedItems, ToSet
    <3>2. moved \subseteq Branches \X Items
      BY <1>0 DEF TypeOK
    <3>3. QED
      BY <1>1, <2>1, <3>1, <3>2 DEF Elsewhere
  <2>5. counted' \in [Items -> Int]
    <3>1. CASE op.kind \in {"opening", "adjustIn", "adjustOut"}
      <4>1. op.item \in Items /\ op.qty \in Int
        BY <3>1, OpKinds DEF CountOps, Positive
      <4>2. Sign(op) * op.qty \in Int
        BY <4>1, SignTyped
      <4>3. counted \in [Items -> Int]
        BY <1>0 DEF TypeOK
      <4>4. QED
        BY <2>1, <3>1, <4>1, <4>2, <4>3
    <3>2. QED
      BY <1>0, <2>1, <3>1 DEF TypeOK
  <2>6. /\ opening' \in [Branches \X Items \X Sources -> Nat \cup {NoOpening}]
        /\ OpeningsKept'
        /\ \A b \in Branches, i \in Items : Elsewhere(op, b, i) =>
              \A s \in Sources : opening'[<<b, i, s>>] = opening[<<b, i, s>>]
    <3>0. opening \in [Branches \X Items \X Sources -> Nat \cup {NoOpening}]
      BY <1>0 DEF TypeOK
    <3>1. CASE op.kind # "opening"
      <4>1. opening' = opening
        BY <2>1, <3>1
      <4>2. QED
        BY <1>0, <3>0, <4>1 DEF OpeningsKept
    <3>2. CASE op.kind = "opening"
      <4>1. op \in CountOps
        BY <3>2, OpKinds
      <4>2. op.item \in Items /\ op.qty \in Nat /\ op.qty \in Int
        BY <4>1 DEF CountOps, Positive
      <4>3. PICK s \in SourcesOf(op.item) : took = <<Whole(op.qty, s)>>
        BY <3>2 DEF Fits
      <4>4. \A t \in Sources : took[1][t] > 0 => t = s
        <5>1. took[1] = Whole(op.qty, s) /\ s \in Sources
          BY <4>3, SourcesFinite
        <5>2. QED
          BY <5>1 DEF Whole, Nothing
      <4>5. \A p \in Branches \X Items \X Sources :
               opening'[p] = IF p[1] = Place(op) /\ p[2] = op.item /\ took[1][p[3]] > 0 THEN op.qty ELSE opening[p]
        BY <2>1, <3>0, <3>2
      <4>6. opening' \in [Branches \X Items \X Sources -> Nat \cup {NoOpening}]
        <5>1. opening' = [p \in Branches \X Items \X Sources |-> opening'[p]]
          BY <2>1, <3>0, <3>2
        <5>2. \A p \in Branches \X Items \X Sources : opening'[p] \in Nat \cup {NoOpening}
          BY <3>0, <4>2, <4>5
        <5>3. QED
          BY <5>1, <5>2
      <4>7. ASSUME NEW b \in Branches, NEW i \in Items, NEW t \in Sources
            PROVE  opening'[<<b, i, t>>] = IF b = Place(op) /\ i = op.item /\ took[1][t] > 0 THEN op.qty ELSE opening[<<b, i, t>>]
        BY <4>5
      <4>8. op.item \in MovedItems(op)
        BY <3>2 DEF MovedItems, ItemsMoved, ToSet
      <4>9. OpeningsKept'
        BY <1>0, <4>3, <4>4, <4>7 DEF OpeningsKept
      <4>10. QED
        BY <4>6, <4>7, <4>8, <4>9 DEF Elsewhere
    <3>3. QED
      BY <3>1, <3>2
  <2>7. StockStays(op)
    BY <2>3, <2>4, <2>6 DEF StockStays, Elsewhere
  <2>8. QED
    BY <1>2, <1>3, <2>3, <2>4, <2>5, <2>6, <2>7 DEF StockTyped
<1>6. QED
  BY <1>4, <1>5

(***************************************************************************)
(* The documents operations make and change.                               *)
(***************************************************************************)

\* A document as it is: which goods it is of, whatever happens to it later.
SameGoods(d, e) == d.kind = e.kind /\ d.branch = e.branch /\ d.to = e.to /\ d.lines = e.lines /\ d.out = e.out

LEMMA DocParts ==
    ASSUME NEW x \in Doc
    PROVE  /\ x = [kind |-> x.kind, branch |-> x.branch, to |-> x.to, lines |-> x.lines, out |-> x.out,
                   back |-> x.back, day |-> x.day, state |-> x.state]
           /\ x.kind \in {"sale", "purchase", "transfer"} /\ x.branch \in Branches /\ x.to \in Branches
           /\ x.lines \in Seq(Goods \cup GoodsIn) /\ x.out \in Seq(Quantities) /\ x.back \in Seq(Quantities)
           /\ x.day \in Int
           /\ x.state \in States
BY DEF Doc, Quantities

\* A document with another state.
LEMMA DocState ==
    ASSUME NEW x \in Doc, NEW v \in States,
           NEW y, y = [x EXCEPT !.state = v]
    PROVE  y \in Doc /\ SameGoods(x, y) /\ y.back = x.back /\ y.day = x.day /\ y.state = v
<1>1. y = [kind |-> x.kind, branch |-> x.branch, to |-> x.to, lines |-> x.lines, out |-> x.out,
           back |-> x.back, day |-> x.day, state |-> v]
  BY DocParts
<1>2. y \in Doc
  BY <1>1, DocParts DEF Doc, Quantities
<1>3. QED
  BY <1>1, <1>2 DEF SameGoods

LEMMA DocNewBack ==
    ASSUME NEW x \in Doc, NEW v \in Seq(Quantities), NEW y, y = [x EXCEPT !.back = v]
    PROVE  y \in Doc /\ SameGoods(x, y) /\ y.back = v /\ y.day = x.day /\ y.state = x.state
<1>1. y = [kind |-> x.kind, branch |-> x.branch, to |-> x.to, lines |-> x.lines, out |-> x.out,
           back |-> v, day |-> x.day, state |-> x.state]
  <2>1. x = [kind |-> x.kind, branch |-> x.branch, to |-> x.to, lines |-> x.lines, out |-> x.out,
             back |-> x.back, day |-> x.day, state |-> x.state]
    BY DocParts
  <2>2. [x EXCEPT !.back = v]
          = [kind |-> x.kind, branch |-> x.branch, to |-> x.to, lines |-> x.lines, out |-> x.out,
             back |-> v, day |-> x.day, state |-> x.state]
    BY ONLY <2>1
  <2>3. QED
    BY <2>2, Zenon
<1>2. y \in Doc
  BY <1>1, DocParts DEF Doc, Quantities
<1>3. QED
  BY <1>1, <1>2 DEF SameGoods

\* A document as a request makes it.
IsMade(x, op, took, day) ==
    /\ x \in Doc /\ DOMAIN x.out = DOMAIN x.lines /\ DOMAIN x.back = DOMAIN x.lines
    /\ x.kind = op.kind /\ x.branch = op.branch /\ x.lines = op.lines /\ x.out = took /\ x.day = day
    /\ x.back = [n \in DOMAIN op.lines |-> Nothing]
    /\ x.state = IF op.kind = "sale" THEN IF op.paid THEN "settled" ELSE "draft"
                 ELSE IF op.kind = "transfer" THEN "open" ELSE "settled"

LEMMA DocumentMade ==
    ASSUME NEW op \in Ops, Makes(op), NEW day \in Int, NEW took \in Seq(Quantities), DOMAIN took = DOMAIN op.lines,
           NEW x, x = Document(op, took, day)
    PROVE  IsMade(x, op, took, day)
<1> DEFINE back == [n \in DOMAIN op.lines |-> Nothing]
           to == IF op.kind = "transfer" THEN op.to ELSE op.branch
           state == IF op.kind = "sale" THEN IF op.paid THEN "settled" ELSE "draft"
                    ELSE IF op.kind = "transfer" THEN "open" ELSE "settled"
<1>1. /\ op.branch \in Branches /\ to \in Branches
      /\ op.lines \in Seq(Goods) \/ op.lines \in Seq(GoodsIn)
  BY OpKinds DEF Makes, SaleOps, TransferOps, PurchaseOps
<1>2. op.lines \in Seq(Goods \cup GoodsIn) /\ Len(op.lines) \in Nat /\ DOMAIN op.lines = 1..Len(op.lines)
  BY <1>1, LinesMoved
<1>3. back \in Seq(Quantities) /\ DOMAIN back = DOMAIN op.lines
  <2>1. Nothing \in Quantities
    BY DEF Nothing, Quantities
  <2>2. back \in [1..Len(op.lines) -> Quantities]
    BY <1>2, <2>1
  <2>3. QED
    BY <1>2, <2>2
<1>4. state \in States
  BY DEF States
<1>5. x = [kind |-> op.kind, branch |-> op.branch, lines |-> op.lines, out |-> took, day |-> day, to |-> to,
           back |-> back, state |-> state]
  <2>1. CASE op.kind = "sale"
    BY <2>1 DEF Document
  <2>2. CASE op.kind = "purchase"
    BY <2>2 DEF Document
  <2>3. CASE op.kind = "transfer"
    BY <2>3 DEF Document
  <2>4. QED
    BY <2>1, <2>2, <2>3 DEF Makes
<1> HIDE DEF back, to, state
<1>6. x \in Doc
  BY <1>1, <1>2, <1>3, <1>4, <1>5 DEF Doc, Quantities, Makes
<1>7. QED
  BY <1>3, <1>5, <1>6 DEF back, state, IsMade

\* The state a request leaves document x in.
StateAfter(op, x) ==
    IF op.kind = "cancel" THEN IF x.state = "draftReturned" THEN "cancelledReturned" ELSE "cancelled"
    ELSE IF op.kind = "receive" THEN "received"
    ELSE IF op.kind = "callBack" THEN "calledBack"
    ELSE IF op.free /\ x.state \in {"draft", "draftReturned"} THEN "draftReturned"
    ELSE "settled"

LEMMA StateIs ==
    ASSUME NEW op, NEW x
    PROVE  StateAfter(op, x) \in States
BY DEF StateAfter, States

LEMMA DocumentChanged ==
    ASSUME TypeOK, NEW op \in Ops, OnDocument(op), Possible(op), NEW day, NEW took \in Seq(Quantities),
           DOMAIN took = DOMAIN ItemsMoved(op)
    PROVE  LET x == docs[op.doc]
               y == Document(op, took, day)
           IN  /\ y \in Doc /\ SameGoods(x, y) /\ y.day = x.day /\ y.state = StateAfter(op, x)
               /\ DOMAIN y.out = DOMAIN y.lines /\ DOMAIN y.back = DOMAIN y.lines
               /\ y.back = IF op.kind \in {"return", "sendBack"}
                           THEN [x.back EXCEPT ![op.line] = Added(@, took[1])] ELSE x.back
<1> DEFINE x == docs[op.doc]
           y == Document(op, took, day)
<1>1. /\ op.doc \in Documents /\ x \in Doc /\ DOMAIN x.out = DOMAIN x.lines /\ DOMAIN x.back = DOMAIN x.lines
      /\ op.kind \in {"return", "sendBack"} => op.line \in DOMAIN x.lines
  BY FoundDoc DEF Found, TypeOK, Made
<1> HIDE DEF x
<1>2. CASE op.kind \in {"return", "sendBack"}
  <2>1. took[1] \in Quantities
    <3>1. DOMAIN took = 1..1
      BY <1>2 DEF ItemsMoved
    <3>2. QED
      BY <3>1
  <2>2. y = [x EXCEPT !.back[op.line] = Added(@, took[1]), !.state = StateAfter(op, x)]
    BY <1>2 DEF Document, StateAfter, x
  <2>3. op.line \in DOMAIN x.back
    BY <1>1, <1>2
  <2> HIDE DEF y
  <2>4. /\ y \in Doc /\ SameGoods(x, y) /\ y.day = x.day /\ y.state = StateAfter(op, x)
        /\ y.back = [x.back EXCEPT ![op.line] = Added(@, took[1])]
    <3>1. PICK d : d = x
      OBVIOUS
    <3>2. PICK e : e = y
      OBVIOUS
    <3>3. PICK n, q, w : n = op.line /\ q = took[1] /\ w = StateAfter(op, x)
      OBVIOUS
    <3>4. d \in Doc /\ n \in DOMAIN d.back /\ q \in Quantities /\ w \in States
      BY <1>1, <2>1, <2>3, <3>1, <3>3, StateIs
    <3> DEFINE v == [d.back EXCEPT ![n] = Added(@, q)]
               z == [d EXCEPT !.back = v]
    <3>5. e = [z EXCEPT !.state = w]
      BY <2>2, <3>1, <3>2, <3>3, Zenon
    <3>6. v \in Seq(Quantities)
      <4>1. d.back \in Seq(Quantities)
        BY <3>4, DocParts
      <4>2. d.back[n] \in Quantities
        BY <3>4, <4>1
      <4>3. Added(d.back[n], q) \in Quantities
        BY <3>4, <4>2 DEF Added, Quantities
      <4>4. QED
        BY ONLY <3>4, <4>1, <4>3
    <3>7. z \in Doc /\ SameGoods(d, z) /\ z.back = v /\ z.day = d.day /\ z.state = d.state
      <4> HIDE DEF v
      <4>1. QED
        BY ONLY <3>4, <3>6, DocNewBack
    <3> HIDE DEF z
    <3>8. e \in Doc /\ SameGoods(z, e) /\ e.back = z.back /\ e.day = z.day /\ e.state = w
      BY ONLY <3>4, <3>5, <3>7, DocState
    <3> HIDE DEF v
    <3>9. SameGoods(d, e) /\ e.back = v /\ e.day = d.day
      BY <3>7, <3>8 DEF SameGoods
    <3> USE DEF v
    <3>10. QED
      BY <3>1, <3>2, <3>3, <3>8, <3>9, Zenon
  <2>5. DOMAIN y.back = DOMAIN x.back
    BY <2>4
  <2>6. QED
    BY <1>1, <1>2, <2>4, <2>5 DEF SameGoods, x, y
<1>3. CASE op.kind \in {"cancel", "receive", "callBack"}
  <2>1. y = [x EXCEPT !.state = StateAfter(op, x)]
    <3>1. CASE op.kind = "cancel"
      BY <3>1 DEF Document, StateAfter, x
    <3>2. CASE op.kind = "receive"
      BY <3>2 DEF Document, StateAfter, x
    <3>3. CASE op.kind = "callBack"
      BY <3>3 DEF Document, StateAfter, x
    <3>4. QED
      BY <1>3, <3>1, <3>2, <3>3
  <2>2. StateAfter(op, x) \in States
    BY StateIs
  <2> HIDE DEF y
  <2>3. y \in Doc /\ SameGoods(x, y) /\ y.back = x.back /\ y.day = x.day /\ y.state = StateAfter(op, x)
    BY <1>1, <2>1, <2>2, DocState
  <2>4. QED
    BY <1>1, <1>3, <2>3 DEF SameGoods, x, y
<1>4. QED
  BY <1>2, <1>3 DEF OnDocument

\* What was made stays, and is of the same goods.
GoodsStay ==
    \A d \in Documents : Made(d) => Made(d)' /\ SameGoods(docs[d], docs'[d])

LEMMA DocOf ==
    ASSUME NEW op \in Ops, ~IsCount(op)
    PROVE  op.doc \in Documents /\ (Makes(op) \/ OnDocument(op))
BY OpKinds DEF IsCount, SaleOps, TransferOps, PurchaseOps, LineOps, DocOps, Makes, OnDocument

LEMMA DocsAfter ==
    ASSUME TypeOK, NEW op \in Ops, Possible(op), NEW day \in Int, NEW took, Fits(op, took), Apply(op, took, day)
    PROVE  /\ IsCount(op) => docs' = docs
           /\ ~IsCount(op) => op.doc \in Documents /\ docs' = [docs EXCEPT ![op.doc] = Document(op, took, day)]
           /\ \A d \in Documents : docs'[d] # docs[d] => ~IsCount(op) /\ d = op.doc
           /\ docs' \in [Documents -> Doc \cup {NoDocument}]
           /\ \A d \in Documents : docs'[d] # NoDocument =>
                 DOMAIN docs'[d].out = DOMAIN docs'[d].lines /\ DOMAIN docs'[d].back = DOMAIN docs'[d].lines
           /\ GoodsStay
<1>0. docs \in [Documents -> Doc \cup {NoDocument}]
  BY DEF TypeOK
<1>1. CASE IsCount(op)
  <2>1. docs' = docs
    BY <1>1 DEF Apply, IsCount
  <2>2. GoodsStay
    BY <2>1 DEF GoodsStay, Made, SameGoods
  <2>3. QED
    BY <1>1, <2>1, <2>2 DEF TypeOK
<1>2. CASE ~IsCount(op)
  <2> DEFINE x == docs[op.doc]
             y == Document(op, took, day)
  <2>1. op.doc \in Documents /\ docs' = [docs EXCEPT ![op.doc] = y]
    BY <1>2, DocOf DEF Apply, IsCount
  <2>2. took \in Seq(Quantities) /\ DOMAIN took = DOMAIN ItemsMoved(op)
    BY DEF Fits
  <2>3. /\ y \in Doc /\ DOMAIN y.out = DOMAIN y.lines /\ DOMAIN y.back = DOMAIN y.lines
        /\ x # NoDocument => SameGoods(x, y)
    <3>1. CASE Makes(op)
      <4>1. DOMAIN took = DOMAIN op.lines
        BY <2>2, <3>1 DEF Makes, ItemsMoved
      <4>2. y \in Doc /\ DOMAIN y.out = DOMAIN y.lines /\ DOMAIN y.back = DOMAIN y.lines
        <5>1. PICK z : z = y
          OBVIOUS
        <5> HIDE DEF y
        <5>2. z = Document(op, took, day)
          BY <5>1 DEF y
        <5>3. IsMade(z, op, took, day)
          BY <2>2, <3>1, <4>1, <5>2, DocumentMade
        <5>4. QED
          BY <5>1, <5>3 DEF IsMade
      <4>3. x = NoDocument
        BY <3>1 DEF Makes, Possible, Made
      <4>4. QED
        BY <4>2, <4>3
    <3>2. CASE OnDocument(op)
      BY <2>2, <3>2, DocumentChanged
    <3>3. QED
      BY <1>2, <3>1, <3>2, DocOf
  <2> HIDE DEF y
  <2>4. \A d \in Documents : docs'[d] = IF d = op.doc THEN y ELSE docs[d]
    BY <1>0, <2>1
  <2>5. docs' \in [Documents -> Doc \cup {NoDocument}]
    BY <1>0, <2>1, <2>3
  <2>6. ASSUME NEW d \in Documents, docs'[d] # NoDocument
        PROVE  DOMAIN docs'[d].out = DOMAIN docs'[d].lines /\ DOMAIN docs'[d].back = DOMAIN docs'[d].lines
    BY <2>3, <2>4, <2>6 DEF TypeOK
  <2>7. ASSUME NEW d \in Documents, Made(d) PROVE Made(d)' /\ SameGoods(docs[d], docs'[d])
    <3>1. CASE d = op.doc
      <4>1. docs'[d] = y /\ y # NoDocument
        BY <2>3, <2>4, <3>1, StockAssumption
      <4>2. QED
        BY <2>3, <2>7, <3>1, <4>1 DEF Made
    <3>2. CASE d # op.doc
      BY <2>4, <2>7, <3>2 DEF Made, SameGoods
    <3>3. QED
      BY <3>1, <3>2
  <2>8. GoodsStay
    BY <2>7 DEF GoodsStay
  <2>9. QED
    BY <1>2, <2>1, <2>4, <2>5, <2>6, <2>8 DEF y
<1>3. QED
  BY <1>1, <1>2

\* What a request is of does not change under it.
LEMMA GoodsStayed ==
    ASSUME TypeOK, GoodsStay, NEW op \in Ops, Found(op)
    PROVE  /\ Found(op)' /\ Place(op)' = Place(op) /\ ItemsMoved(op)' = ItemsMoved(op)
           /\ MovedItems(op)' = MovedItems(op) /\ StockLocks(op)' = StockLocks(op)
           /\ Steps(op)' = Steps(op) /\ Needs(op)' = Needs(op)
<1>1. OnDocument(op) => /\ op.doc \in Documents /\ Made(op.doc) /\ Made(op.doc)'
                        /\ SameGoods(docs[op.doc], docs'[op.doc])
  BY FoundDoc DEF GoodsStay
<1>2. Found(op)'
  BY <1>1 DEF Found, Possible, OnDocument, Is, SameGoods
<1>3. Place(op)' = Place(op)
  <2>1. CASE OnDocument(op)
    BY <1>1, <2>1 DEF Place, SameGoods
  <2>2. CASE ~OnDocument(op)
    BY <2>2, OpKinds DEF Place, OnDocument, Makes
  <2>3. QED
    BY <2>1, <2>2
<1>4. ItemsMoved(op)' = ItemsMoved(op)
  <2>1. CASE OnDocument(op)
    BY <1>1, <2>1 DEF ItemsMoved, SameGoods
  <2>2. CASE ~OnDocument(op)
    BY <2>2, OpKinds DEF ItemsMoved, OnDocument, Makes
  <2>3. QED
    BY <2>1, <2>2
<1>5. MovedItems(op)' = MovedItems(op)
  BY <1>4 DEF MovedItems
<1>6. StockLocks(op)' = StockLocks(op)
  BY <1>3, <1>5 DEF StockLocks
<1>7. Steps(op)' = Steps(op)
  BY <1>3, <1>5 DEF Steps
<1>8. Needs(op)' = Needs(op)
  BY <1>6 DEF Needs
<1>9. QED
  BY <1>2, <1>3, <1>4, <1>5, <1>6, <1>7, <1>8

LEMMA PurchaseFits ==
    ASSUME NEW op \in Ops, op.kind = "purchase", NEW day, NEW kept, NEW took \in Outcome(op, day, kept)
    PROVE  \A n \in DOMAIN op.lines : \E s \in SourcesOf(op.lines[n].item) : took[n] = Whole(op.lines[n].qty, s)
<1>1. took \in Bought(op, kept) /\ op \in PurchaseOps
  BY OpKinds DEF Outcome
<1>2. took = [n \in DOMAIN op.lines |-> Whole(op.lines[n].qty, Into(op.lines[n], kept))]
  BY <1>1, BoughtTyped
<1>3. op.lines \in Seq(GoodsIn)
  BY <1>1 DEF PurchaseOps
<1>4. \A n \in DOMAIN op.lines : op.lines[n] \in GoodsIn
  BY <1>3
<1>5. \A n \in DOMAIN op.lines : Into(op.lines[n], kept) \in SourcesOf(op.lines[n].item)
  BY <1>4, IntoTyped
<1>6. QED
  BY <1>2, <1>5

\* An operation keeps the books in order.
LEMMA OperationKeeps ==
    ASSUME BookInv, NEW op \in Ops, Possible(op), done < MaxDone, NEW day \in Int, NEW kept,
           NEW took \in Outcome(op, day, kept), Apply(op, took, day)
    PROVE  BookInv'
<1>0. TypeOK /\ Found(op)
  BY DEF BookInv, Found
<1>1. Fits(op, took)
  BY <1>0, OutcomeFitsOp
<1>2. /\ StockTyped' /\ OpeningsKept'
      /\ moved' \subseteq Branches \X Items /\ past' \subseteq Branches \X Items /\ counted' \in [Items -> Int]
      /\ tracked' = tracked /\ switched' = switched /\ today' = today /\ done' = done + 1
  BY <1>1, Applied
<1>3. /\ \A d \in Documents : docs'[d] # docs[d] => ~IsCount(op) /\ d = op.doc
      /\ ~IsCount(op) => op.doc \in Documents /\ docs' = [docs EXCEPT ![op.doc] = Document(op, took, day)]
      /\ docs' \in [Documents -> Doc \cup {NoDocument}]
      /\ \A d \in Documents : docs'[d] # NoDocument =>
            DOMAIN docs'[d].out = DOMAIN docs'[d].lines /\ DOMAIN docs'[d].back = DOMAIN docs'[d].lines
      /\ GoodsStay
  BY <1>0, <1>1, DocsAfter
<1>4. TypeOK'
  <2>1. done + 1 \in 0..MaxDone
    BY <1>0, StockAssumption DEF TypeOK
  <2>2. tracked \subseteq Items /\ switched \in [Items -> 0..MaxSwitches] /\ today \in 0..MaxDay
    BY <1>0 DEF TypeOK
  <2>3. /\ onHand' \in [Branches \X Items -> Int] /\ inBatch' \in [Branches \X Batches -> Int]
        /\ ledger' \in [Branches \X Items \X Sources -> Int]
        /\ opening' \in [Branches \X Items \X Sources -> Nat \cup {NoOpening}]
    BY <1>2 DEF StockTyped
  <2>4. QED
    BY <1>2, <1>3, <2>1, <2>2, <2>3 DEF TypeOK
<1>5. PurchasesKept'
  <2>1. SUFFICES ASSUME NEW d \in Documents, Is(d, "purchase")', NEW n \in DOMAIN docs'[d].lines
                 PROVE  \E s \in SourcesOf(docs'[d].lines[n].item) : docs'[d].out[n] = Whole(docs'[d].lines[n].qty, s)
    BY DEF PurchasesKept
  <2>2. CASE Made(d)
    <3>1. SameGoods(docs[d], docs'[d])
      BY <1>3, <2>2 DEF GoodsStay
    <3>2. Is(d, "purchase") /\ n \in DOMAIN docs[d].lines
      BY <2>1, <2>2, <3>1 DEF Is, SameGoods
    <3>3. \E s \in SourcesOf(docs[d].lines[n].item) : docs[d].out[n] = Whole(docs[d].lines[n].qty, s)
      BY <3>2 DEF BookInv, PurchasesKept
    <3>4. QED
      BY <3>1, <3>3 DEF SameGoods
  <2>3. CASE ~Made(d)
    <3>1. ~IsCount(op) /\ d = op.doc
      BY <1>3, <2>1, <2>3 DEF Is, Made
    <3>2. Makes(op)
      BY <2>3, <3>1, <1>0, DocOf, FoundDoc
    <3>3. docs'[d] = Document(op, took, day)
      BY <1>0, <1>3, <3>1 DEF TypeOK
    <3>4. took \in Seq(Quantities) /\ DOMAIN took = DOMAIN op.lines
      BY <1>1, <3>2 DEF Fits, ItemsMoved, Makes
    <3>5. PICK x : x = Document(op, took, day)
      OBVIOUS
    <3>8. IsMade(x, op, took, day)
      BY <3>2, <3>4, <3>5, DocumentMade
    <3>6. op.kind = "purchase" /\ docs'[d].lines = op.lines /\ docs'[d].out = took
      BY <2>1, <3>3, <3>5, <3>8 DEF Is, IsMade
    <3>7. QED
      BY <2>1, <3>6, PurchaseFits
  <2>4. QED
    BY <2>2, <2>3
<1>6. QED
  BY <1>2, <1>4, <1>5 DEF BookInv

(***************************************************************************)
(* What an operation finds depends on the stock it locks and the document  *)
(* it works on.                                                            *)
(***************************************************************************)

\* The stock of an item at a branch is as it was.
SameStock(b, i) ==
    /\ onHand'[<<b, i>>] = onHand[<<b, i>>]
    /\ \A s \in Batches : ItemOf[s] = i => inBatch'[<<b, s>>] = inBatch[<<b, s>>]
    /\ \A s \in Sources : opening'[<<b, i, s>>] = opening[<<b, i, s>>]
    /\ <<b, i>> \in moved' <=> <<b, i>> \in moved

LEMMA LotsSame ==
    ASSUME NEW b, NEW i, SameStock(b, i)
    PROVE  Lots(b, i)' = Lots(b, i)
<1> DEFINE T == SourcesOf(i) \ {NoBatch}
           f == [t \in T |-> inBatch'[<<b, t>>]]
           e == [t \in T |-> inBatch[<<b, t>>]]
<1>1. \A t \in T : inBatch'[<<b, t>>] = inBatch[<<b, t>>]
  BY DEF SameStock, SourcesOf
<1>2. f = e
  BY <1>1
<1>3. Total(f) = Total(e)
  BY <1>2
<1>4. ASSUME NEW s \in SourcesOf(i)
      PROVE  (IF s = NoBatch THEN onHand'[<<b, i>>] - Total(f) ELSE inBatch'[<<b, s>>])
               = (IF s = NoBatch THEN onHand[<<b, i>>] - Total(e) ELSE inBatch[<<b, s>>])
  <2> HIDE DEF f, e
  <2>1. QED
    BY <1>1, <1>3 DEF SameStock
<1>5. /\ Lots(b, i)' = [s \in SourcesOf(i) |-> IF s = NoBatch THEN onHand'[<<b, i>>] - Total(f) ELSE inBatch'[<<b, s>>]]
      /\ Lots(b, i) = [s \in SourcesOf(i) |-> IF s = NoBatch THEN onHand[<<b, i>>] - Total(e) ELSE inBatch[<<b, s>>]]
  BY Zenon DEF Lots
<1> HIDE DEF f, e
<1>6. QED
  BY <1>4, <1>5

LEMMA TakeSame ==
    ASSUME NEW b, NEW i, NEW qty, NEW day, NEW short, NEW all, SameStock(b, i)
    PROVE  TakeFromBatches(b, i, qty, day, short, all)' = TakeFromBatches(b, i, qty, day, short, all)
BY LotsSame, Zenon DEF TakeFromBatches

LEMMA TakenOfSame ==
    ASSUME NEW op, NEW i, NEW day, NEW kept, NEW short, SameStock(op.branch, i)
    PROVE  TakenOf(op, i, day, kept, short)' = TakenOf(op, i, day, kept, short)
<1>1. PICK q : q = Wanted(op.lines, i)
  OBVIOUS
<1>2. onHand'[<<op.branch, i>>] = onHand[<<op.branch, i>>]
  BY DEF SameStock
<1>3. TakeFromBatches(op.branch, i, q, day, short, FALSE)' = TakeFromBatches(op.branch, i, q, day, short, FALSE)
  BY TakeSame
<1>4. QED
  BY <1>1, <1>2, <1>3, Zenon DEF TakenOf

LEMMA TakenOutSame ==
    ASSUME NEW op, NEW day, NEW kept, NEW short, \A i \in ItemsOf(op.lines) : SameStock(op.branch, i)
    PROVE  TakenOut(op, day, kept, short)' = TakenOut(op, day, kept, short)
<1> DEFINE f == [i \in ItemsOf(op.lines) |-> TakenOf(op, i, day, kept, short)']
           e == [i \in ItemsOf(op.lines) |-> TakenOf(op, i, day, kept, short)]
<1>1. \A i \in ItemsOf(op.lines) : TakenOf(op, i, day, kept, short)' = TakenOf(op, i, day, kept, short)
  BY TakenOfSame
<1>2. f = e
  BY <1>1
<1>3. f = [i \in ItemsOf(op.lines) |-> TakenOf(op, i, day, kept, short)]'
  OBVIOUS
<1>4. [i \in ItemsOf(op.lines) |-> TakenOf(op, i, day, kept, short)]' = [i \in ItemsOf(op.lines) |-> TakenOf(op, i, day, kept, short)]
  BY <1>2, <1>3
<1>5. QED
  BY <1>4, Zenon DEF TakenOut

\* The requests that look at the stock (and lock it before they do).
LooksAtStock(op) == IsCount(op) \/ op.kind \in {"sale", "transfer", "sendBack"}

LEMMA OpeningsSame ==
    ASSUME NEW op, NEW kept, SameStock(op.branch, op.item)
    PROVE  Openings(op, kept)' = Openings(op, kept)
<1>1. \A s \in Sources : opening'[<<op.branch, op.item, s>>] = opening[<<op.branch, op.item, s>>]
  BY DEF SameStock
<1>2. QED
  BY <1>1 DEF Openings

LEMMA CountSame ==
    ASSUME NEW op \in CountOps, NEW day, NEW kept, SameStock(op.branch, op.item)
    PROVE  Outcome(op, day, kept)' = Outcome(op, day, kept)
<1>1. Openings(op, kept)' = Openings(op, kept)
  BY OpeningsSame
<1>2. BatchGiven(op, kept)' <=> BatchGiven(op, kept)
  BY DEF BatchGiven
<1>3. CASE op.kind = "opening"
  <2>1. Outcome(op, day, kept) = IF BatchGiven(op, kept) /\ Openings(op, kept) = {} THEN {<<Whole(op.qty, Into(op, kept))>>} ELSE {}
    BY <1>3 DEF Outcome
  <2>2. Outcome(op, day, kept)' = IF BatchGiven(op, kept) /\ Openings(op, kept)' = {} THEN {<<Whole(op.qty, Into(op, kept))>>} ELSE {}
    BY <1>3 DEF Outcome
  <2>3. QED
    BY <1>1, <2>1, <2>2
<1>4. CASE op.kind = "reopening"
  <2>1. Outcome(op, day, kept) = IF BatchGiven(op, kept) /\ <<op.branch, op.item>> \notin moved
                                 THEN {<<Whole(op.qty, s)>> : s \in Openings(op, kept)} ELSE {}
    BY <1>4 DEF Outcome
  <2>2. Outcome(op, day, kept)' = IF BatchGiven(op, kept) /\ <<op.branch, op.item>> \notin moved'
                                  THEN {<<Whole(op.qty, s)>> : s \in Openings(op, kept)'} ELSE {}
    BY <1>4 DEF Outcome
  <2>3. <<op.branch, op.item>> \in moved' <=> <<op.branch, op.item>> \in moved
    BY DEF SameStock
  <2>4. QED
    BY <1>1, <2>1, <2>2, <2>3
<1>5. CASE op.kind = "adjustIn"
  BY <1>5 DEF Outcome
<1>6. CASE op.kind = "adjustOut"
  <2>1. TakeFromBatches(op.branch, op.item, op.qty, day, FALSE, TRUE)' = TakeFromBatches(op.branch, op.item, op.qty, day, FALSE, TRUE)
    BY TakeSame
  <2>2. onHand'[<<op.branch, op.item>>] = onHand[<<op.branch, op.item>>]
    BY DEF SameStock
  <2>3. op.batch # NoBatch => inBatch'[<<op.branch, op.batch>>] = inBatch[<<op.branch, op.batch>>]
    BY DEF SameStock, CountOps, BatchFits, Sources
  <2>4. AdjustedOut(op, day, kept)' = AdjustedOut(op, day, kept)
    BY <2>1, <2>2, <2>3, Zenon DEF AdjustedOut
  <2>5. Outcome(op, day, kept)' = AdjustedOut(op, day, kept)' /\ Outcome(op, day, kept) = AdjustedOut(op, day, kept)
    BY <1>6 DEF Outcome
  <2>6. QED
    BY <2>4, <2>5
<1>7. QED
  BY <1>3, <1>4, <1>5, <1>6 DEF CountOps

LEMMA OutcomeSame ==
    ASSUME BookInv, NEW op \in Ops, Found(op), NEW day, NEW kept,
           OnDocument(op) => docs'[op.doc] = docs[op.doc],
           LooksAtStock(op) => \A i \in MovedItems(op) : SameStock(Place(op), i)
    PROVE  Outcome(op, day, kept)' = Outcome(op, day, kept)
<1>1. CASE IsCount(op)
  <2>1. op \in CountOps /\ Place(op) = op.branch /\ op.item \in MovedItems(op)
    BY <1>1, OpKinds DEF IsCount, Place, MovedItems, ItemsMoved, ToSet
  <2>2. SameStock(op.branch, op.item)
    BY <1>1, <2>1 DEF LooksAtStock
  <2>3. QED
    BY <2>1, <2>2, CountSame
<1>2. CASE op.kind \in {"sale", "transfer"}
  <2>1. Place(op) = op.branch /\ ItemsOf(op.lines) = MovedItems(op)
    BY <1>2 DEF Place, MovedItems, ItemsMoved, ToSet, ItemsOf
  <2>2. \A i \in ItemsOf(op.lines) : SameStock(op.branch, i)
    BY <1>2, <2>1 DEF LooksAtStock
  <2>3. \A short : TakenOut(op, day, kept, short)' = TakenOut(op, day, kept, short)
    BY <2>2, TakenOutSame
  <2>4. CASE op.kind = "sale"
    <3>1. Outcome(op, day, kept)' = TakenOut(op, day, kept, op.past)' /\ Outcome(op, day, kept) = TakenOut(op, day, kept, op.past)
      BY <2>4 DEF Outcome
    <3>2. QED
      BY <2>3, <3>1
  <2>5. CASE op.kind = "transfer"
    <3>1. Outcome(op, day, kept)' = TakenOut(op, day, kept, FALSE)' /\ Outcome(op, day, kept) = TakenOut(op, day, kept, FALSE)
      BY <2>5 DEF Outcome
    <3>2. QED
      BY <2>3, <3>1
  <2>6. QED
    BY <1>2, <2>4, <2>5
<1>3. CASE op.kind = "purchase"
  <2>1. Outcome(op, day, kept)' = Bought(op, kept)' /\ Outcome(op, day, kept) = Bought(op, kept)
    BY <1>3 DEF Outcome
  <2>2. QED
    BY <2>1
<1>4. CASE op.kind = "sendBack"
  <2>1. docs'[op.doc] = docs[op.doc]
    BY <1>4 DEF OnDocument
  <2> DEFINE doc == docs[op.doc]
             into == CameInto(doc, op.line)
             item == doc.lines[op.line].item
  <2>2. into \in SourcesOf(item) /\ Place(op) = doc.branch /\ item \in MovedItems(op)
    BY <1>4, SentFrom DEF BookInv, Place, MovedItems, ItemsMoved, ToSet
  <2>3. SameStock(doc.branch, item)
    BY <1>4, <2>2 DEF LooksAtStock
  <2>4. onHand'[<<doc.branch, item>>] = onHand[<<doc.branch, item>>]
    BY <2>3 DEF SameStock
  <2>5. into # NoBatch => inBatch'[<<doc.branch, into>>] = inBatch[<<doc.branch, into>>]
    BY <2>2, <2>3 DEF SameStock, SourcesOf
  <2>6. SentBack(op)' = SentBack(op)
    <3>1. PICK d, s, i : d = doc /\ s = into /\ i = item
      OBVIOUS
    <3>2. PICK n : n = IF s = NoBatch THEN onHand[<<d.branch, i>>] ELSE inBatch[<<d.branch, s>>]
      OBVIOUS
    <3>3. n = IF s = NoBatch THEN onHand'[<<d.branch, i>>] ELSE inBatch'[<<d.branch, s>>]
      BY <2>4, <2>5, <3>1, <3>2
    <3>4. d = docs'[op.doc] /\ s = CameInto(d, op.line) /\ i = d.lines[op.line].item /\ d = docs[op.doc]
      BY <2>1, <3>1
    <3> HIDE DEF doc, into, item
    <3>5. SentBack(op) = IF Total(d.back[op.line]) + op.qty > d.lines[op.line].qty \/ n < op.qty
                         THEN {} ELSE {<<Whole(op.qty, s)>>}
      BY <3>2, <3>4 DEF SentBack
    <3>6. SentBack(op)' = IF Total(d.back[op.line]) + op.qty > d.lines[op.line].qty \/ n < op.qty
                          THEN {} ELSE {<<Whole(op.qty, s)>>}
      BY <3>3, <3>4 DEF SentBack
    <3>7. QED
      BY <3>5, <3>6
  <2>7. Outcome(op, day, kept)' = SentBack(op)' /\ Outcome(op, day, kept) = SentBack(op)
    BY <1>4 DEF Outcome
  <2>8. QED
    BY <2>6, <2>7
<1>5. CASE op.kind = "cancel"
  <2>1. docs'[op.doc] = docs[op.doc]
    BY <1>5 DEF OnDocument
  <2>2. QED
    BY <1>5, <2>1 DEF Outcome
<1>6. CASE op.kind = "return"
  <2>1. docs'[op.doc] = docs[op.doc]
    BY <1>6 DEF OnDocument
  <2>2. QED
    BY <1>6, <2>1 DEF Outcome
<1>7. CASE op.kind \in {"receive", "callBack"}
  <2>1. docs'[op.doc] = docs[op.doc]
    BY <1>7 DEF OnDocument
  <2>2. QED
    BY <1>7, <2>1 DEF Outcome
<1>8. QED
  BY <1>1, <1>2, <1>3, <1>4, <1>5, <1>6, <1>7, OpKinds DEF IsCount, Makes

(***************************************************************************)
(* The requests under way.                                                 *)
(***************************************************************************)

\* Where a request is in its program: it holds the locks it has passed, and has
\* the rest before it, in order.
InProgram(op, todo, held) ==
    /\ op \in Ops /\ Found(op)
    /\ todo \in Seq(Steps(op)) /\ held \subseteq Steps(op)
    /\ Ordered(op.kind, todo)
    /\ \A l \in held, n \in DOMAIN todo : Before(op.kind, l, todo[n])
    /\ Needs(op) \subseteq held \cup ToSet(todo) /\ Commit \in ToSet(todo)

\* The items kept by batch: as it is now, or was before items were switched.
KeptOnce == {(tracked \ old) \cup (old \ tracked) : old \in SUBSET {i \in Items : switched[i] > 0}}

\* What it read is still so: it moves what it would if it looked again.
Stands(op, todo, day, took) ==
    Read \notin ToSet(todo) =>
        /\ \A n \in DOMAIN todo : Before(op.kind, Read, todo[n])
        /\ \E kept \in KeptOnce : took \in Outcome(op, day, kept)

\* The document it is to make isn't there.
Fresh(op, held) ==
    /\ op.kind \in {"purchase", "transfer"} => ~Made(op.doc)
    /\ op.kind = "sale" /\ <<"key", op.doc>> \in held => ~Made(op.doc)

Going(f) ==
    /\ f = [todo |-> f.todo, held |-> f.held, op |-> f.op, day |-> f.day, took |-> f.took]
    /\ InProgram(f.op, f.todo, f.held)
    /\ Stands(f.op, f.todo, f.day, f.took)
    /\ Fresh(f.op, f.held)
    /\ f.day \in {today - 1, today}
    /\ f.took \in Seq(Quantities)
UnderWay(f) == f = Idle \/ (f.todo # <<>> /\ Going(f))

\* No two requests hold locks that conflict, or make the same document.
Apart(f, g) ==
    /\ \A l \in f.held, m \in g.held : ~Conflict(l, m)
    /\ f.todo # <<>> /\ g.todo # <<>> /\ f.op.kind \in {"purchase", "transfer"} /\ Makes(g.op) =>
          g.op.doc # f.op.doc

BusyOnes == {q \in Requests : Busy(q)}

StockInv ==
    /\ BookInv
    /\ reqs = [r \in Requests |-> reqs[r]]
    /\ \A r \in Requests : UnderWay(reqs[r])
    /\ \A r, q \in Requests : r # q => Apart(reqs[r], reqs[q])
    /\ done + Cardinality(BusyOnes) <= MaxDone

LEMMA IdleApart ==
    ASSUME NEW g
    PROVE  Apart(Idle, g) /\ Apart(g, Idle)
BY DEF Apart, Idle

\* A request that has read what it checks holds what it read.
LEMMA HoldsWhatItRead ==
    ASSUME NEW op, NEW todo, NEW held, NEW day, NEW took, InProgram(op, todo, held), Stands(op, todo, day, took),
           Read \notin ToSet(todo)
    PROVE  /\ OnDocument(op) => <<"doc", op.doc>> \in held
           /\ LooksAtStock(op) => StockLocks(op) \subseteq held
<1>1. \A l \in ToSet(todo) : Before(op.kind, Read, l)
  BY DEF Stands, ToSet
<1>2. \A l \in Needs(op) : l \in held \/ l \in ToSet(todo)
  BY DEF InProgram
<1>3. ASSUME OnDocument(op)
      PROVE  <<"doc", op.doc>> \in held
  <2>1. <<"doc", op.doc>> \in Needs(op)
    BY <1>3 DEF Needs
  <2>2. ~Before(op.kind, Read, <<"doc", op.doc>>)
    BY <1>3 DEF Before, Turn, Read, OnDocument
  <2>3. QED
    BY <1>1, <1>2, <2>1, <2>2
<1>4. ASSUME LooksAtStock(op), NEW i \in MovedItems(op)
      PROVE  <<"stock", Place(op), i>> \in held
  <2> DEFINE l == <<"stock", Place(op), i>>
  <2>1. l \in Needs(op)
    BY DEF Needs, StockLocks
  <2>2. ~Before(op.kind, Read, l)
    BY <1>4 DEF Before, Turn, Read, LooksAtStock, IsCount
  <2> HIDE DEF l
  <2>3. l \in held
    BY <1>1, <1>2, <2>1, <2>2
  <2>4. QED
    BY <2>3 DEF l
<1>5. QED
  BY <1>3, <1>4 DEF StockLocks

\* A request about to commit has everything else behind it.
LEMMA HoldsAtCommit ==
    ASSUME NEW op, NEW todo, NEW held, InProgram(op, todo, held), todo # <<>>, Head(todo) = Commit
    PROVE  Needs(op) \subseteq held /\ Read \notin ToSet(todo) /\ ToSet(todo) = {Commit}
<1>1. /\ todo \in Seq(Steps(op)) /\ Len(todo) \in Nat /\ Len(todo) > 0 /\ DOMAIN todo = 1..Len(todo)
      /\ todo[1] = Commit
  BY DEF InProgram
<1>2. ASSUME NEW n \in DOMAIN todo, n # 1
      PROVE  FALSE
  <2>1. Before(op.kind, Commit, todo[n])
    BY <1>1, <1>2 DEF InProgram, Ordered
  <2>2. QED
    BY <2>1 DEF Before, Turn, Commit
<1>3. ToSet(todo) = {Commit}
  BY <1>1, <1>2 DEF ToSet
<1>4. Commit \notin Needs(op) /\ Read # Commit
  BY DEF Needs, StockLocks, Commit, Read
<1>5. QED
  BY <1>3, <1>4 DEF InProgram


\* A step leaves a request what it relies on: the document it works on, and
\* the stock it has looked at.
Undisturbed(op, todo) ==
    Read \notin ToSet(todo) =>
        /\ OnDocument(op) => docs'[op.doc] = docs[op.doc]
        /\ LooksAtStock(op) => \A i \in MovedItems(op) : SameStock(Place(op), i)

\* A request that a step leaves alone stays as it was.
LEMMA GoingStays ==
    ASSUME BookInv, GoodsStay, NEW f, Going(f), Undisturbed(f.op, f.todo),
           KeptOnce \subseteq KeptOnce', Fresh(f.op, f.held)', f.day \in {today' - 1, today'}
    PROVE  Going(f)'
<1>1. PICK op, todo, held, day, took : op = f.op /\ todo = f.todo /\ held = f.held /\ day = f.day /\ took = f.took
  OBVIOUS
<1>2. InProgram(op, todo, held) /\ Stands(op, todo, day, took)
  BY <1>1 DEF Going
<1>3. TypeOK /\ op \in Ops /\ Found(op)
  BY <1>2 DEF InProgram, BookInv
<1>4. /\ Found(op)' /\ Steps(op)' = Steps(op) /\ Needs(op)' = Needs(op)
  BY <1>3, GoodsStayed
<1>5. InProgram(op, todo, held)'
  BY <1>2, <1>4 DEF InProgram
<1>6. Stands(op, todo, day, took)'
  <2>1. SUFFICES ASSUME Read \notin ToSet(todo)
                 PROVE  /\ \A n \in DOMAIN todo : Before(op.kind, Read, todo[n])
                        /\ \E kept \in KeptOnce' : took \in Outcome(op, day, kept)'
    BY DEF Stands
  <2>2. PICK kept \in KeptOnce : took \in Outcome(op, day, kept)
    BY <1>2, <2>1 DEF Stands
  <2>3. /\ OnDocument(op) => docs'[op.doc] = docs[op.doc]
        /\ LooksAtStock(op) => \A i \in MovedItems(op) : SameStock(Place(op), i)
    BY <1>1, <2>1 DEF Undisturbed
  <2>4. Outcome(op, day, kept)' = Outcome(op, day, kept)
    BY <1>3, <2>3, OutcomeSame
  <2>5. kept \in KeptOnce' /\ took \in Outcome(op, day, kept)'
    BY <2>2, <2>4
  <2>6. QED
    BY <1>2, <2>1, <2>5 DEF Stands
<1>7. QED
  BY <1>1, <1>5, <1>6 DEF Going

\* A step that leaves the books alone leaves every request alone.
LEMMA BooksStay ==
    ASSUME BookInv, UNCHANGED bookVars, NEW f
    PROVE  BookInv' /\ (Going(f) => Going(f)') /\ (UnderWay(f) => UnderWay(f)')
<1>1. BookInv'
  BY DEF BookInv, TypeOK, PurchasesKept, Is, Made, OpeningsKept, bookVars
<1>2. docs' = docs /\ tracked' = tracked /\ switched' = switched /\ today' = today
  BY DEF bookVars
<1>3. GoodsStay
  BY <1>2 DEF GoodsStay, SameGoods, Made
<1>4. \A b, i : SameStock(b, i)
  BY DEF bookVars, SameStock
<1>5. KeptOnce' = KeptOnce
  BY <1>2 DEF KeptOnce
<1>6. ASSUME Going(f)
      PROVE  Going(f)'
  <2>1. Undisturbed(f.op, f.todo)
    BY <1>2, <1>4 DEF Undisturbed
  <2>2. Fresh(f.op, f.held)'
    BY <1>2, <1>6 DEF Going, Fresh, Made
  <2>3. f.day \in {today' - 1, today'}
    BY <1>2, <1>6 DEF Going
  <2>4. QED
    BY <1>3, <1>5, <1>6, <2>1, <2>2, <2>3, GoingStays
<1>7. QED
  BY <1>1, <1>6 DEF UnderWay

\* One request moves on, to g, and the others stay.
LEMMA OneMoves ==
    ASSUME reqs = [q \in Requests |-> reqs[q]], \A p, q \in Requests : p # q => Apart(reqs[p], reqs[q]),
           NEW r \in Requests, NEW g, reqs' = [reqs EXCEPT ![r] = g], UnderWay(g)',
           \A q \in Requests : q # r => Apart(g, reqs[q]) /\ Apart(reqs[q], g),
           \A q \in Requests : q # r => \E f : f = reqs[q] /\ UnderWay(f)'
    PROVE  /\ reqs' = [q \in Requests |-> reqs'[q]]
           /\ \A q \in Requests : UnderWay(reqs[q])'
           /\ \A p, q \in Requests : p # q => Apart(reqs'[p], reqs'[q])
<1>1. DOMAIN reqs = Requests
  BY Zenon
<1>2. reqs' = [q \in Requests |-> reqs'[q]] /\ reqs'[r] = g /\ \A q \in Requests : q # r => reqs'[q] = reqs[q]
  BY <1>1
<1>3. ASSUME NEW q \in Requests
      PROVE  UnderWay(reqs[q])'
  <2>1. PICK f : f = reqs'[q] /\ UnderWay(f)'
    BY <1>2
  <2>2. QED
    BY <2>1
<1>4. ASSUME NEW p \in Requests, NEW q \in Requests, p # q
      PROVE  Apart(reqs'[p], reqs'[q])
  BY <1>2, <1>4
<1>5. QED
  BY <1>2, <1>3, <1>4

\* How many requests are under way.
LEMMA BusyCount ==
    ASSUME NEW r \in Requests, reqs = [q \in Requests |-> reqs[q]], NEW g, reqs' = [reqs EXCEPT ![r] = g]
    PROVE  /\ Cardinality(BusyOnes) \in Nat
           /\ Busy(r) => Cardinality(BusyOnes) > 0
           /\ Busy(r) /\ g.todo # <<>> => Cardinality(BusyOnes') = Cardinality(BusyOnes)
           /\ Busy(r) /\ g.todo = <<>> => Cardinality(BusyOnes') = Cardinality(BusyOnes) - 1
           /\ ~Busy(r) /\ g.todo # <<>> => Cardinality(BusyOnes') = Cardinality(BusyOnes) + 1
<1>1. reqs'[r] = g /\ \A q \in Requests : q # r => reqs'[q] = reqs[q]
  BY Zenon
<1>2. IsFiniteSet(BusyOnes)
  BY RequestsAssumption, FS_Subset DEF BusyOnes
<1>3. \A q \in Requests : q # r => (Busy(q)' <=> Busy(q))
  BY <1>1 DEF Busy
<1>4. Busy(r)' <=> g.todo # <<>>
  BY <1>1 DEF Busy
<1>5. /\ Busy(r) => r \in BusyOnes
      /\ Busy(r) /\ g.todo # <<>> => BusyOnes' = BusyOnes
      /\ Busy(r) /\ g.todo = <<>> => BusyOnes' = BusyOnes \ {r}
      /\ ~Busy(r) /\ g.todo # <<>> => BusyOnes' = BusyOnes \cup {r}
      /\ ~Busy(r) => r \notin BusyOnes
  BY <1>3, <1>4 DEF BusyOnes
<1>6. /\ Cardinality(BusyOnes) \in Nat
      /\ r \in BusyOnes => Cardinality(BusyOnes \ {r}) = Cardinality(BusyOnes) - 1
      /\ r \notin BusyOnes => Cardinality(BusyOnes \cup {r}) = Cardinality(BusyOnes) + 1
  BY <1>2, FS_CardinalityType, FS_RemoveElement, FS_AddElement
<1>7. r \in BusyOnes => Cardinality(BusyOnes) > 0
  BY <1>2, <1>6, FS_EmptySet
<1>8. QED
  BY <1>5, <1>6, <1>7


\* A request moves on, and the books stay.
LEMMA RequestMoves ==
    ASSUME StockInv, UNCHANGED bookVars, NEW r \in Requests, NEW g, reqs' = [reqs EXCEPT ![r] = g], UnderWay(g),
           Busy(r) \/ done + Cardinality(BusyOnes) < MaxDone,
           \A q \in Requests : q # r => Apart(g, reqs[q]) /\ Apart(reqs[q], g)
    PROVE  StockInv'
<1>1. BookInv /\ done' = done /\ done \in Int /\ MaxDone \in Int
  BY StockAssumption DEF StockInv, BookInv, TypeOK, bookVars
<1>2. \A f : UnderWay(f) => UnderWay(f)'
  BY <1>1, BooksStay
<1>3. BookInv'
  BY <1>1, BooksStay
<1>4. \A q \in Requests : q # r => \E f : f = reqs[q] /\ UnderWay(f)'
  BY <1>2 DEF StockInv
<1>5. UnderWay(g)'
  BY <1>2
<1>6. /\ reqs = [q \in Requests |-> reqs[q]]
      /\ \A p, q \in Requests : p # q => Apart(reqs[p], reqs[q])
  BY DEF StockInv
<1>7. /\ reqs' = [q \in Requests |-> reqs'[q]]
      /\ \A q \in Requests : UnderWay(reqs[q])'
      /\ \A p, q \in Requests : p # q => Apart(reqs'[p], reqs'[q])
  BY <1>4, <1>5, <1>6, OneMoves
<1>8. done' + Cardinality(BusyOnes') <= MaxDone
  <2>1. done + Cardinality(BusyOnes) <= MaxDone
    BY DEF StockInv
  <2>2. /\ Cardinality(BusyOnes) \in Nat
        /\ Busy(r) /\ g.todo # <<>> => Cardinality(BusyOnes') = Cardinality(BusyOnes)
        /\ Busy(r) /\ g.todo = <<>> => Cardinality(BusyOnes') = Cardinality(BusyOnes) - 1
        /\ ~Busy(r) /\ g.todo # <<>> => Cardinality(BusyOnes') = Cardinality(BusyOnes) + 1
    BY <1>6, BusyCount
  <2>3. ~Busy(r) /\ g.todo = <<>> => BusyOnes' = BusyOnes
    <3>1. reqs'[r] = g /\ \A q \in Requests : q # r => reqs'[q] = reqs[q]
      BY <1>6, Zenon
    <3>2. QED
      BY <3>1 DEF BusyOnes, Busy
  <2> DEFINE n == Cardinality(BusyOnes)
             m == Cardinality(BusyOnes')
  <2>4. /\ n \in Nat /\ done + n <= MaxDone
        /\ Busy(r) /\ g.todo # <<>> => m = n
        /\ Busy(r) /\ g.todo = <<>> => m = n - 1
        /\ ~Busy(r) /\ g.todo # <<>> => m = n + 1
        /\ ~Busy(r) /\ g.todo = <<>> => m = n
        /\ Busy(r) \/ done + n < MaxDone
    BY <2>1, <2>2, <2>3
  <2> HIDE DEF n, m
  <2>5. done' + m <= MaxDone
    BY <1>1, <2>4
  <2>6. QED
    BY <2>5 DEF m
<1>9. QED
  BY <1>3, <1>7, <1>8 DEF StockInv

LEMMA RollBackKeeps ==
    ASSUME StockInv, NEW r \in Requests, Busy(r), RollBack(r)
    PROVE  StockInv'
BY RequestMoves, IdleApart DEF RollBack, UnderWay

\* Who may make which document.
LEMMA FreshDocument ==
    ASSUME StockInv, NEW op \in Ops, Makes(op), op.kind \in {"purchase", "transfer"} => ~\E q \in Requests : WorksOn(q, op.doc),
           NEW q \in Requests, Busy(q), Makes(reqs[q].op), reqs[q].op \in Ops,
           op.kind \in {"purchase", "transfer"} \/ reqs[q].op.kind \in {"purchase", "transfer"}
    PROVE  op.doc # reqs[q].op.doc
<1>1. "doc" \in DOMAIN reqs[q].op
  BY OpKinds DEF Makes, SaleOps, TransferOps, PurchaseOps
<1>2. CASE op.kind \in {"purchase", "transfer"}
  BY <1>1, <1>2 DEF WorksOn
<1>3. CASE op.kind = "sale"
  <2>1. op.kind # reqs[q].op.kind
    BY <1>3
  <2>2. \A a, b \in Ops : {a.kind, b.kind} \subseteq {"sale", "purchase", "transfer"} /\ a.kind # b.kind => a.doc # b.doc
    BY StockAssumption
  <2>3. QED
    BY <2>1, <2>2 DEF Makes
<1>4. QED
  BY <1>2, <1>3 DEF Makes

LEMMA BeginKeeps ==
    ASSUME StockInv, NEW r \in Requests, NEW op \in Ops, Begin(r, op)
    PROVE  StockInv'
<1>1. PICK g : g = [todo |-> Program(op), held |-> {}, op |-> op, day |-> today, took |-> <<>>]
  OBVIOUS
<1>2. reqs' = [reqs EXCEPT ![r] = g] /\ ~Busy(r) /\ Possible(op) /\ UNCHANGED bookVars
  BY <1>1 DEF Begin
<1>3. done + Cardinality(BusyOnes) < MaxDone
  BY DEF Begin, BusyOnes
<1>4. TypeOK /\ Found(op)
  BY <1>2 DEF StockInv, BookInv, Found
<1>5. /\ g.todo = Program(op) /\ g.held = {} /\ g.op = op /\ g.day = today /\ g.took = <<>>
      /\ g = [todo |-> g.todo, held |-> g.held, op |-> g.op, day |-> g.day, took |-> g.took]
  BY <1>1
<1>6. /\ Program(op) \in Seq(Steps(op)) /\ Ordered(op.kind, Program(op))
      /\ Needs(op) \cup {Read, Commit} \subseteq ToSet(Program(op))
  BY <1>4, ProgramOrdered
<1>7. InProgram(op, Program(op), {})
  BY <1>4, <1>6 DEF InProgram
<1>8. Program(op) # <<>>
  BY <1>6 DEF ToSet
<1>9. Going(g)
  <2>1. Stands(op, Program(op), today, <<>>)
    BY <1>6 DEF Stands
  <2>2. Fresh(op, {})
    BY <1>2 DEF Fresh, Possible
  <2>3. <<>> \in Seq(Quantities) /\ today \in {today - 1, today}
    OBVIOUS
  <2>4. QED
    BY <1>5, <1>7, <2>1, <2>2, <2>3 DEF Going
<1>10. UnderWay(g)
  BY <1>5, <1>8, <1>9 DEF UnderWay
<1>11. ASSUME NEW q \in Requests, q # r
       PROVE  Apart(g, reqs[q]) /\ Apart(reqs[q], g)
  <2>1. CASE reqs[q] = Idle
    BY <2>1, IdleApart
  <2>2. CASE reqs[q] # Idle
    <3>1. Busy(q) /\ reqs[q].op \in Ops
      BY <2>2 DEF StockInv, UnderWay, Going, InProgram, Busy
    <3>2. op.kind \in {"purchase", "transfer"} => ~\E p \in Requests : WorksOn(p, op.doc)
      BY DEF Begin
    <3>3. Makes(op) /\ Makes(reqs[q].op) /\ (op.kind \in {"purchase", "transfer"} \/ reqs[q].op.kind \in {"purchase", "transfer"})
          => op.doc # reqs[q].op.doc
      BY <3>1, <3>2, FreshDocument
    <3>4. QED
      BY <1>5, <3>3 DEF Apart, Makes
  <2>3. QED
    BY <2>1, <2>2
<1>12. QED
  BY <1>2, <1>3, <1>10, <1>11, RequestMoves


\* A request under way, and what it is.
LEMMA BusyGoes ==
    ASSUME StockInv, NEW r \in Requests, Busy(r)
    PROVE  \E f : /\ f = reqs[r] /\ f.todo # <<>> /\ Going(f)
                  /\ Step(r) = Head(f.todo) /\ Held(r) = f.held
BY DEF StockInv, UnderWay, Busy, Idle, Step, Held

\* The rest of a program.
LEMMA RestOfProgram ==
    ASSUME NEW S, NEW todo \in Seq(S), todo # <<>>, NEW kind, Ordered(kind, todo)
    PROVE  /\ Head(todo) \in S /\ Tail(todo) \in Seq(S) /\ Ordered(kind, Tail(todo))
           /\ ToSet(todo) = {Head(todo)} \cup ToSet(Tail(todo))
           /\ \A n \in DOMAIN Tail(todo) : Before(kind, Head(todo), Tail(todo)[n])
           /\ \A n \in DOMAIN Tail(todo) : \E m \in DOMAIN todo : Tail(todo)[n] = todo[m]
<1>1. /\ Len(todo) \in Nat /\ Len(todo) > 0 /\ DOMAIN todo = 1..Len(todo)
      /\ Head(todo) = todo[1] /\ Tail(todo) \in Seq(S) /\ Len(Tail(todo)) = Len(todo) - 1
      /\ DOMAIN Tail(todo) = 1..(Len(todo) - 1)
      /\ \A n \in 1..(Len(todo) - 1) : Tail(todo)[n] = todo[n + 1]
  OBVIOUS
<1>2. \A n \in 1..(Len(todo) - 1) : n + 1 \in 1..Len(todo) /\ 1 < n + 1
  BY <1>1
<1>3. Head(todo) \in S
  BY <1>1
<1>4. \A n \in DOMAIN Tail(todo) : Before(kind, Head(todo), Tail(todo)[n])
  BY <1>1, <1>2 DEF Ordered
<1>5. Ordered(kind, Tail(todo))
  <2>1. SUFFICES ASSUME NEW m \in 1..(Len(todo) - 1), NEW n \in 1..(Len(todo) - 1), m < n
                 PROVE  Before(kind, todo[m + 1], todo[n + 1])
    BY <1>1 DEF Ordered
  <2>2. m + 1 \in 1..Len(todo) /\ n + 1 \in 1..Len(todo) /\ m + 1 < n + 1
    BY <1>1, <2>1
  <2>3. QED
    BY <1>1, <2>2 DEF Ordered
<1>6. \A n \in DOMAIN Tail(todo) : \E m \in DOMAIN todo : Tail(todo)[n] = todo[m]
  BY <1>1, <1>2
<1>7. ToSet(todo) = {Head(todo)} \cup ToSet(Tail(todo))
  <2>1. \A m \in 1..Len(todo) : m = 1 \/ (m - 1 \in 1..(Len(todo) - 1) /\ (m - 1) + 1 = m)
    BY <1>1
  <2>2. \A m \in 1..Len(todo) : m = 1 \/ \E n \in 1..(Len(todo) - 1) : Tail(todo)[n] = todo[m]
    BY <1>1, <2>1
  <2>3. ASSUME NEW x \in ToSet(todo), x # todo[1]
        PROVE  x \in ToSet(Tail(todo))
    <3>1. PICK m \in 1..Len(todo) : x = todo[m]
      BY <1>1 DEF ToSet
    <3>2. PICK n \in DOMAIN Tail(todo) : Tail(todo)[n] = x
      BY <1>1, <2>2, <2>3, <3>1
    <3>3. QED
      BY <3>2 DEF ToSet
  <2>4. todo[1] \in ToSet(todo)
    BY <1>1 DEF ToSet
  <2>5. \A x \in ToSet(Tail(todo)) : x \in ToSet(todo)
    BY <1>6 DEF ToSet
  <2>6. QED
    BY <1>1, <2>3, <2>4, <2>5
<1>8. QED
  BY <1>1, <1>3, <1>4, <1>5, <1>6, <1>7

\* One step on in its program: what it passed, if a lock, it holds.
LEMMA ProgramGoesOn ==
    ASSUME NEW op, NEW todo, NEW held, NEW holds, InProgram(op, todo, held), todo # <<>>, Head(todo) # Commit,
           holds = held \cup {Head(todo)} \/ (holds = held /\ Head(todo) = Read)
    PROVE  InProgram(op, Tail(todo), holds) /\ Tail(todo) # <<>>
<1>1. todo \in Seq(Steps(op)) /\ Ordered(op.kind, todo)
  BY DEF InProgram
<1>2. /\ Head(todo) \in Steps(op) /\ Tail(todo) \in Seq(Steps(op)) /\ Ordered(op.kind, Tail(todo))
      /\ ToSet(todo) = {Head(todo)} \cup ToSet(Tail(todo))
      /\ \A n \in DOMAIN Tail(todo) : Before(op.kind, Head(todo), Tail(todo)[n])
      /\ \A n \in DOMAIN Tail(todo) : \E m \in DOMAIN todo : Tail(todo)[n] = todo[m]
  BY <1>1, RestOfProgram
<1>3. holds \subseteq Steps(op)
  BY <1>2 DEF InProgram
<1>4. ASSUME NEW l \in holds, NEW n \in DOMAIN Tail(todo)
      PROVE  Before(op.kind, l, Tail(todo)[n])
  BY <1>2 DEF InProgram
<1>5. Read \notin Needs(op)
  BY DEF Needs, StockLocks, Read
<1>6. Needs(op) \subseteq holds \cup ToSet(Tail(todo))
  BY <1>2, <1>5 DEF InProgram
<1>7. Commit \in ToSet(Tail(todo))
  BY <1>2 DEF InProgram
<1>8. Tail(todo) # <<>>
  BY <1>7 DEF ToSet
<1>9. QED
  BY <1>2, <1>3, <1>4, <1>6, <1>7, <1>8 DEF InProgram

LEMMA ConflictBothWays ==
    ASSUME NEW l, NEW m
    PROVE  Conflict(l, m) <=> Conflict(m, l)
BY DEF Conflict

\* A request with other steps left and locks held, or with what it read.
LEMMA LockTaken ==
    ASSUME NEW f, f = [todo |-> f.todo, held |-> f.held, op |-> f.op, day |-> f.day, took |-> f.took],
           NEW todo, NEW held
    PROVE  [[f EXCEPT !.todo = todo] EXCEPT !.held = held]
              = [todo |-> todo, held |-> held, op |-> f.op, day |-> f.day, took |-> f.took]
<1>1. PICK x : x = [f EXCEPT !.todo = todo]
  OBVIOUS
<1>2. x = [todo |-> todo, held |-> f.held, op |-> f.op, day |-> f.day, took |-> f.took]
  BY <1>1
<1>3. [x EXCEPT !.held = held] = [todo |-> todo, held |-> held, op |-> f.op, day |-> f.day, took |-> f.took]
  BY ONLY <1>2
<1>4. QED
  BY <1>1, <1>3

LEMMA OutcomeTaken ==
    ASSUME NEW f, f = [todo |-> f.todo, held |-> f.held, op |-> f.op, day |-> f.day, took |-> f.took],
           NEW todo, NEW day, NEW took
    PROVE  [[[f EXCEPT !.todo = todo] EXCEPT !.took = took] EXCEPT !.day = day]
              = [todo |-> todo, held |-> f.held, op |-> f.op, day |-> day, took |-> took]
<1>1. PICK x : x = [f EXCEPT !.todo = todo]
  OBVIOUS
<1>2. x = [todo |-> todo, held |-> f.held, op |-> f.op, day |-> f.day, took |-> f.took]
  BY <1>1
<1>3. PICK y : y = [x EXCEPT !.took = took]
  OBVIOUS
<1>4. y = [todo |-> todo, held |-> f.held, op |-> f.op, day |-> f.day, took |-> took]
  BY ONLY <1>2, <1>3
<1>5. [y EXCEPT !.day = day] = [todo |-> todo, held |-> f.held, op |-> f.op, day |-> day, took |-> took]
  BY ONLY <1>4
<1>6. QED
  BY <1>1, <1>3, <1>5

LEMMA TakeLockKeeps ==
    ASSUME StockInv, NEW r \in Requests, TakeLock(r)
    PROVE  StockInv'
<1>1. PICK f : f = reqs[r] /\ f.todo # <<>> /\ Going(f) /\ Step(r) = Head(f.todo) /\ Held(r) = f.held
  BY BusyGoes DEF TakeLock
<1>2. PICK l : l = Head(f.todo)
  OBVIOUS
<1>3. PICK g : g = [todo |-> Tail(f.todo), held |-> f.held \cup {l}, op |-> f.op, day |-> f.day, took |-> f.took]
  OBVIOUS
<1>4. /\ g.todo = Tail(f.todo) /\ g.held = f.held \cup {l} /\ g.op = f.op /\ g.day = f.day /\ g.took = f.took
      /\ g = [todo |-> g.todo, held |-> g.held, op |-> g.op, day |-> g.day, took |-> g.took]
  BY <1>3
<1>5. DOMAIN reqs = Requests
  BY Zenon DEF StockInv
<1>6. reqs' = [reqs EXCEPT ![r] = g]
  <2>1. reqs' = [reqs EXCEPT ![r].todo = Tail(@), ![r].held = @ \cup {l}]
    BY <1>1, <1>2 DEF TakeLock, GoOn
  <2>2. f = [todo |-> f.todo, held |-> f.held, op |-> f.op, day |-> f.day, took |-> f.took]
    BY <1>1 DEF Going
  <2>3. [[f EXCEPT !.todo = Tail(f.todo)] EXCEPT !.held = f.held \cup {l}] = g
    BY <1>3, <2>2, LockTaken
  <2>4. QED
    BY <1>1, <1>5, <2>1, <2>3
<1>7. IsLock(l) /\ ~KeyTaken(l) /\ \A q \in Requests \ {r} : \A m \in reqs[q].held : ~Conflict(l, m)
  BY <1>1, <1>2 DEF TakeLock, Held
<1>8. InProgram(f.op, f.todo, f.held)
  BY <1>1 DEF Going
<1>9. InProgram(g.op, g.todo, g.held) /\ g.todo # <<>>
  <2>1. Head(f.todo) # Commit
    BY <1>2, <1>7 DEF IsLock
  <2>2. InProgram(f.op, Tail(f.todo), f.held \cup {Head(f.todo)}) /\ Tail(f.todo) # <<>>
    BY <1>1, <1>8, <2>1, ProgramGoesOn
  <2>3. QED
    BY <1>2, <1>4, <2>2
<1>10. Stands(g.op, g.todo, g.day, g.took)
  <2>1. f.todo \in Seq(Steps(f.op)) /\ Ordered(f.op.kind, f.todo)
    BY <1>8 DEF InProgram
  <2>2. /\ ToSet(f.todo) = {l} \cup ToSet(Tail(f.todo))
        /\ \A n \in DOMAIN Tail(f.todo) : \E m \in DOMAIN f.todo : Tail(f.todo)[n] = f.todo[m]
    BY <1>1, <1>2, <2>1, RestOfProgram
  <2>3. Read \notin ToSet(Tail(f.todo)) => Read \notin ToSet(f.todo)
    BY <1>7, <2>2 DEF IsLock
  <2>4. Stands(f.op, f.todo, f.day, f.took)
    BY <1>1 DEF Going
  <2>5. QED
    BY <1>4, <2>2, <2>3, <2>4 DEF Stands
<1>11. Fresh(g.op, g.held)
  <2>1. Fresh(f.op, f.held)
    BY <1>1 DEF Going
  <2>2. <<"key", f.op.doc>> = l => ~Made(f.op.doc)
    BY <1>7 DEF KeyTaken
  <2>3. QED
    BY <1>4, <2>1, <2>2 DEF Fresh
<1>12. UnderWay(g)
  BY <1>1, <1>4, <1>9, <1>10, <1>11 DEF UnderWay, Going
<1>13. ASSUME NEW q \in Requests, q # r
       PROVE  Apart(g, reqs[q]) /\ Apart(reqs[q], g)
  <2>1. Apart(f, reqs[q]) /\ Apart(reqs[q], f)
    BY <1>1, <1>13 DEF StockInv
  <2>2. \A m \in reqs[q].held : ~Conflict(l, m) /\ ~Conflict(m, l)
    BY <1>7, <1>13, ConflictBothWays
  <2>3. QED
    BY <1>1, <1>4, <2>1, <2>2 DEF Apart
<1>14. Busy(r) /\ UNCHANGED bookVars
  BY DEF TakeLock
<1>15. QED
  BY <1>6, <1>12, <1>13, <1>14, RequestMoves

LEMMA ReadAndCheckKeeps ==
    ASSUME StockInv, NEW r \in Requests, ReadAndCheck(r)
    PROVE  StockInv'
<1>1. PICK f : f = reqs[r] /\ f.todo # <<>> /\ Going(f) /\ Step(r) = Head(f.todo) /\ Held(r) = f.held
  BY BusyGoes DEF ReadAndCheck
<1>2. Busy(r) /\ Head(f.todo) = Read
  BY <1>1 DEF ReadAndCheck
<1>3. CASE Outcome(f.op, today, tracked) = {}
  BY <1>1, <1>2, <1>3, RollBackKeeps DEF ReadAndCheck
<1>4. CASE Outcome(f.op, today, tracked) # {}
  <2>1. PICK took \in Outcome(f.op, today, tracked) :
           reqs' = [reqs EXCEPT ![r].todo = Tail(@), ![r].took = took, ![r].day = today]
    BY <1>1, <1>4 DEF ReadAndCheck
  <2>2. UNCHANGED bookVars
    BY <1>1, <1>4 DEF ReadAndCheck
  <2>3. PICK day : day = today
    OBVIOUS
  <2>4. PICK g : g = [todo |-> Tail(f.todo), held |-> f.held, op |-> f.op, day |-> day, took |-> took]
    OBVIOUS
  <2>5. /\ g.todo = Tail(f.todo) /\ g.held = f.held /\ g.op = f.op /\ g.day = day /\ g.took = took
        /\ g = [todo |-> g.todo, held |-> g.held, op |-> g.op, day |-> g.day, took |-> g.took]
    BY <2>4
  <2>6. DOMAIN reqs = Requests
    BY Zenon DEF StockInv
  <2>7. reqs' = [reqs EXCEPT ![r] = g]
    <3>1. f = [todo |-> f.todo, held |-> f.held, op |-> f.op, day |-> f.day, took |-> f.took]
      BY <1>1 DEF Going
    <3>2. [[[f EXCEPT !.todo = Tail(f.todo)] EXCEPT !.took = took] EXCEPT !.day = day] = g
      BY <2>4, <3>1, OutcomeTaken
    <3>3. QED
      BY <1>1, <2>1, <2>3, <2>6, <3>2
  <2>8. InProgram(f.op, f.todo, f.held)
    BY <1>1 DEF Going
  <2>9. InProgram(g.op, g.todo, g.held) /\ g.todo # <<>>
    <3>1. Head(f.todo) # Commit
      BY <1>2 DEF Read, Commit
    <3>2. InProgram(f.op, Tail(f.todo), f.held) /\ Tail(f.todo) # <<>>
      BY <1>1, <1>2, <2>8, <3>1, ProgramGoesOn
    <3>3. QED
      BY <2>5, <3>2
  <2>10. Stands(g.op, g.todo, g.day, g.took)
    <3>1. f.todo \in Seq(Steps(f.op)) /\ Ordered(f.op.kind, f.todo)
      BY <2>8 DEF InProgram
    <3>2. \A n \in DOMAIN Tail(f.todo) : Before(f.op.kind, Read, Tail(f.todo)[n])
      BY <1>1, <1>2, <3>1, RestOfProgram
    <3>3. tracked \in KeptOnce
      <4>1. tracked = (tracked \ {}) \cup ({} \ tracked) /\ {} \in SUBSET {i \in Items : switched[i] > 0}
        OBVIOUS
      <4>2. QED
        BY <4>1 DEF KeptOnce
    <3>4. QED
      BY <2>3, <2>5, <3>2, <3>3 DEF Stands
  <2>11. took \in Seq(Quantities)
    <3>1. TypeOK /\ PurchasesKept /\ f.op \in Ops /\ Found(f.op)
      BY <2>8 DEF InProgram, StockInv, BookInv
    <3>2. QED
      BY <2>1, <3>1, OutcomeTyped
  <2>12. UnderWay(g)
    BY <1>1, <2>3, <2>5, <2>9, <2>10, <2>11 DEF UnderWay, Going
  <2>13. \A q \in Requests : q # r => Apart(f, reqs[q]) /\ Apart(reqs[q], f)
    BY <1>1 DEF StockInv
  <2>14. \A q \in Requests : q # r => Apart(g, reqs[q]) /\ Apart(reqs[q], g)
    BY <1>1, <2>5, <2>13 DEF Apart
  <2>15. QED
    BY <1>2, <2>2, <2>7, <2>12, <2>14, RequestMoves
<1>5. QED
  BY <1>3, <1>4


\* The commit of one request leaves another what it relies on: they hold no
\* locks that conflict.
LEMMA CommitDisturbsNone ==
    ASSUME BookInv, NEW f, NEW g, Going(f), Going(g), Apart(f, g), Apart(g, f), f.todo # <<>>, g.todo # <<>>,
           Needs(f.op) \subseteq f.held, Possible(f.op), StockStays(f.op), GoodsStay,
           \A d \in Documents : docs'[d] # docs[d] => ~IsCount(f.op) /\ d = f.op.doc
    PROVE  Undisturbed(g.op, g.todo) /\ Fresh(g.op, g.held)'
<1>1. PICK op, held, todo, other, has : op = f.op /\ has = f.held /\ other = g.op /\ todo = g.todo /\ held = g.held
  OBVIOUS
<1>2. InProgram(other, todo, held) /\ op \in Ops /\ other \in Ops /\ Found(other)
  BY <1>1 DEF Going, InProgram
<1>3. \A l \in has, m \in held : ~Conflict(l, m)
  BY <1>1 DEF Apart
<1>4. Needs(op) \subseteq has
  BY <1>1
<1>5. \A d \in Documents : docs'[d] # docs[d] => ~IsCount(op) /\ d = op.doc
  BY <1>1
<1>6. TypeOK
  BY DEF BookInv
<1>7. ASSUME Read \notin ToSet(todo)
      PROVE  /\ OnDocument(other) => docs'[other.doc] = docs[other.doc]
             /\ LooksAtStock(other) => \A i \in MovedItems(other) : SameStock(Place(other), i)
  <2>1. Stands(other, todo, g.day, g.took)
    BY <1>1 DEF Going
  <2>2. /\ OnDocument(other) => <<"doc", other.doc>> \in held
        /\ LooksAtStock(other) => StockLocks(other) \subseteq held
    BY <1>2, <1>7, <2>1, HoldsWhatItRead
  <2>3. ASSUME OnDocument(other), docs'[other.doc] # docs[other.doc]
        PROVE  FALSE
    <3>1. other.doc \in Documents /\ Made(other.doc)
      BY <1>2, <1>6, <2>3, FoundDoc
    <3>2. ~IsCount(op) /\ other.doc = op.doc
      BY <1>5, <2>3, <3>1
    <3>3. OnDocument(op) \/ Makes(op)
      BY <1>2, <3>2, DocOf
    <3>4. CASE Makes(op)
      BY <1>1, <3>1, <3>2, <3>4 DEF Possible, Makes
    <3>5. CASE OnDocument(op)
      <4>1. <<"doc", op.doc>> \in has
        BY <1>4, <3>5 DEF Needs
      <4>2. QED
        BY <1>3, <2>2, <2>3, <3>2, <4>1 DEF Conflict
    <3>6. QED
      BY <3>3, <3>4, <3>5
  <2>4. ASSUME LooksAtStock(other), NEW i \in MovedItems(other)
        PROVE  SameStock(Place(other), i)
    <3>1. <<"stock", Place(other), i>> \in held
      BY <2>2, <2>4 DEF StockLocks
    <3>2. Place(other) \in Branches /\ i \in Items
      BY <1>2, <1>6, PlaceTyped, MovedItemsTyped
    <3>3. Elsewhere(op, Place(other), i)
      <4>1. SUFFICES ASSUME Place(other) = Place(op), i \in MovedItems(op)
                     PROVE  FALSE
        BY DEF Elsewhere
      <4>2. <<"stock", Place(op), i>> \in Needs(op)
        BY <4>1 DEF Needs, StockLocks
      <4>3. <<"stock", Place(op), i>> \in has /\ <<"stock", Place(op), i>> \in held
        BY <1>4, <3>1, <4>1, <4>2
      <4>4. Conflict(<<"stock", Place(op), i>>, <<"stock", Place(op), i>>)
        BY DEF Conflict
      <4>5. QED
        BY <1>3, <4>3, <4>4
    <3>4. StockStays(op)
      BY <1>1
    <3>5. QED
      BY <3>2, <3>3, <3>4 DEF StockStays, SameStock
  <2>5. QED
    BY <2>3, <2>4
<1>8. ASSUME Makes(other), ~Made(other.doc), other.kind = "sale" => <<"key", other.doc>> \in held
      PROVE  ~Made(other.doc)'
  <2>1. other.doc \in Documents
    BY <1>2, <1>8, DocOf DEF Makes, IsCount
  <2>2. SUFFICES ASSUME docs'[other.doc] # docs[other.doc]
                 PROVE  FALSE
    BY <1>8 DEF Made
  <2>3. ~IsCount(op) /\ other.doc = op.doc
    BY <1>5, <2>1, <2>2
  <2>4. OnDocument(op) \/ Makes(op)
    BY <1>2, <2>3, DocOf
  <2>5. CASE OnDocument(op)
    BY <1>1, <1>8, <2>3, <2>5 DEF OnDocument, Possible, Is
  <2>6. CASE Makes(op) /\ (op.kind \in {"purchase", "transfer"} \/ other.kind \in {"purchase", "transfer"})
    BY <1>1, <1>8, <2>3, <2>6 DEF Apart
  <2>7. CASE op.kind = "sale" /\ other.kind = "sale"
    <3>1. <<"key", op.doc>> \in has /\ <<"key", op.doc>> \in held
      BY <1>4, <1>8, <2>3, <2>7 DEF Needs
    <3>2. QED
      BY <1>3, <3>1 DEF Conflict
  <2>8. QED
    BY <1>8, <2>4, <2>5, <2>6, <2>7 DEF Makes
<1>9. Fresh(other, held)
  BY <1>1 DEF Going
<1>10. Fresh(other, held)'
  BY <1>8, <1>9 DEF Fresh, Makes
<1>11. QED
  BY <1>1, <1>7, <1>10 DEF Undisturbed

\* A request about to commit does what an operation alone would.
LEMMA CommitsOperation ==
    ASSUME StockInv, NEW r \in Requests, CommitRequest(r)
    PROVE  \E f : /\ f = reqs[r] /\ f.todo # <<>> /\ Going(f) /\ f.op \in Ops
                  /\ Needs(f.op) \subseteq f.held /\ Possible(f.op) /\ done < MaxDone /\ f.day \in Int
                  /\ Apply(f.op, f.took, f.day)
                  /\ \E kept \in KeptOnce : f.took \in Outcome(f.op, f.day, kept) /\ Fits(f.op, f.took)
<1>1. PICK f : f = reqs[r] /\ f.todo # <<>> /\ Going(f) /\ Step(r) = Head(f.todo) /\ Held(r) = f.held
  BY BusyGoes DEF CommitRequest
<1>2. PICK op, todo, held, day, took : op = f.op /\ todo = f.todo /\ held = f.held /\ day = f.day /\ took = f.took
  OBVIOUS
<1>3. Head(todo) = Commit /\ Apply(op, took, day) /\ Busy(r)
  BY <1>1, <1>2 DEF CommitRequest
<1>4. InProgram(op, todo, held) /\ Stands(op, todo, day, took) /\ Fresh(op, held) /\ day \in {today - 1, today}
  BY <1>1, <1>2 DEF Going
<1>5. Needs(op) \subseteq held /\ Read \notin ToSet(todo)
  BY <1>1, <1>2, <1>3, <1>4, HoldsAtCommit
<1>6. op \in Ops /\ Found(op) /\ BookInv
  BY <1>4 DEF InProgram, StockInv
<1>7. Possible(op)
  <2>1. CASE OnDocument(op)
    BY <1>6, <2>1 DEF Found
  <2>2. CASE Makes(op)
    <3>1. op.kind = "sale" => <<"key", op.doc>> \in held
      BY <1>5 DEF Needs
    <3>2. ~Made(op.doc)
      BY <1>4, <2>2, <3>1 DEF Fresh, Makes
    <3>3. QED
      BY <2>2, <3>2 DEF Possible, Makes
  <2>3. CASE IsCount(op)
    BY <2>3 DEF IsCount, Possible
  <2>4. QED
    BY <1>6, <2>1, <2>2, <2>3, DocOf
<1>8. PICK kept \in KeptOnce : took \in Outcome(op, day, kept)
  BY <1>4, <1>5 DEF Stands
<1>9. Fits(op, took)
  BY <1>6, <1>8, OutcomeFitsOp
<1>10. done < MaxDone
  <2>1. reqs = [q \in Requests |-> reqs[q]]
    BY DEF StockInv
  <2>2. \E g : reqs' = [reqs EXCEPT ![r] = g]
    BY DEF CommitRequest
  <2>3. Cardinality(BusyOnes) \in Nat /\ Cardinality(BusyOnes) > 0
    BY <1>3, <2>1, <2>2, BusyCount
  <2>4. done + Cardinality(BusyOnes) <= MaxDone /\ done \in Int /\ MaxDone \in Int
    BY StockAssumption DEF StockInv, BookInv, TypeOK
  <2> DEFINE n == Cardinality(BusyOnes)
  <2>5. n \in Nat /\ n > 0 /\ done + n <= MaxDone
    BY <2>3, <2>4
  <2> HIDE DEF n
  <2>6. QED
    BY <2>4, <2>5
<1>11. day \in Int
  BY <1>4, <1>6 DEF BookInv, TypeOK
<1>12. QED
  BY <1>1, <1>2, <1>3, <1>5, <1>6, <1>7, <1>8, <1>9, <1>10, <1>11

LEMMA CommitKeeps ==
    ASSUME StockInv, NEW r \in Requests, CommitRequest(r)
    PROVE  StockInv'
<1>1. PICK f : /\ f = reqs[r] /\ f.todo # <<>> /\ Going(f) /\ f.op \in Ops
               /\ Needs(f.op) \subseteq f.held /\ Possible(f.op) /\ done < MaxDone /\ f.day \in Int
               /\ Apply(f.op, f.took, f.day)
               /\ \E kept \in KeptOnce : f.took \in Outcome(f.op, f.day, kept) /\ Fits(f.op, f.took)
  BY CommitsOperation
<1>2. PICK op, took, day : op = f.op /\ took = f.took /\ day = f.day
  OBVIOUS
<1>3. PICK kept \in KeptOnce : took \in Outcome(op, day, kept) /\ Fits(op, took)
  BY <1>1, <1>2
<1>4. BookInv /\ TypeOK /\ op \in Ops /\ Possible(op) /\ done < MaxDone /\ day \in Int /\ Apply(op, took, day)
  BY <1>1, <1>2 DEF StockInv, BookInv
<1>5. BookInv'
  BY <1>3, <1>4, OperationKeeps
<1>6. StockStays(op) /\ tracked' = tracked /\ switched' = switched /\ today' = today /\ done' = done + 1
  BY <1>3, <1>4, Applied
<1>7. GoodsStay /\ \A d \in Documents : docs'[d] # docs[d] => ~IsCount(op) /\ d = op.doc
  BY <1>3, <1>4, DocsAfter
<1>8. KeptOnce' = KeptOnce
  BY <1>6 DEF KeptOnce
<1>9. ASSUME NEW q \in Requests, q # r
      PROVE  \E g : g = reqs[q] /\ UnderWay(g)'
  <2>1. PICK g : g = reqs[q]
    OBVIOUS
  <2>2. UnderWay(g) /\ Apart(f, g) /\ Apart(g, f)
    BY <1>1, <1>9, <2>1 DEF StockInv
  <2>3. CASE g = Idle
    BY <2>1, <2>3 DEF UnderWay
  <2>4. CASE g # Idle
    <3>1. g.todo # <<>> /\ Going(g)
      BY <2>2, <2>4 DEF UnderWay
    <3>2. StockStays(f.op) /\ \A d \in Documents : docs'[d] # docs[d] => ~IsCount(f.op) /\ d = f.op.doc
      BY <1>2, <1>6, <1>7
    <3>3. Undisturbed(g.op, g.todo) /\ Fresh(g.op, g.held)'
      BY <1>1, <1>4, <1>7, <2>2, <3>1, <3>2, CommitDisturbsNone
    <3>4. g.day \in {today' - 1, today'}
      BY <1>6, <3>1 DEF Going
    <3>5. Going(g)'
      BY <1>4, <1>7, <1>8, <3>1, <3>3, <3>4, GoingStays
    <3>6. QED
      BY <2>1, <3>1, <3>5 DEF UnderWay
  <2>5. QED
    BY <2>3, <2>4
<1>10. reqs' = [reqs EXCEPT ![r] = Idle]
  BY DEF CommitRequest
<1>11. /\ reqs = [q \in Requests |-> reqs[q]]
       /\ \A p, q \in Requests : p # q => Apart(reqs[p], reqs[q])
  BY DEF StockInv
<1>12. UnderWay(Idle)'
  BY DEF UnderWay
<1>13. /\ reqs' = [q \in Requests |-> reqs'[q]]
       /\ \A q \in Requests : UnderWay(reqs[q])'
       /\ \A p, q \in Requests : p # q => Apart(reqs'[p], reqs'[q])
  <2>1. \A q \in Requests : q # r => Apart(Idle, reqs[q]) /\ Apart(reqs[q], Idle)
    BY IdleApart
  <2>2. PICK g : g = Idle
    OBVIOUS
  <2>3. /\ reqs' = [reqs EXCEPT ![r] = g] /\ UnderWay(g)'
        /\ \A q \in Requests : q # r => Apart(g, reqs[q]) /\ Apart(reqs[q], g)
        /\ \A q \in Requests : q # r => \E h : h = reqs[q] /\ UnderWay(h)'
    BY <1>9, <1>10, <1>12, <2>1, <2>2
  <2>4. QED
    BY <1>11, <2>3, OneMoves
<1>14. done' + Cardinality(BusyOnes') <= MaxDone
  <2>1. Busy(r) /\ Idle.todo = <<>>
    BY DEF CommitRequest, Idle
  <2>2. Cardinality(BusyOnes) \in Nat /\ Cardinality(BusyOnes') = Cardinality(BusyOnes) - 1
    BY <1>10, <1>11, <2>1, BusyCount
  <2>3. done + Cardinality(BusyOnes) <= MaxDone /\ done \in Int /\ MaxDone \in Int
    BY <1>4, StockAssumption DEF StockInv, TypeOK
  <2> DEFINE n == Cardinality(BusyOnes)
             m == Cardinality(BusyOnes')
  <2>4. n \in Nat /\ m = n - 1 /\ done + n <= MaxDone
    BY <2>2, <2>3
  <2> HIDE DEF n, m
  <2>5. done' + m <= MaxDone
    BY <1>6, <2>3, <2>4
  <2>6. QED
    BY <2>5 DEF m
<1>15. QED
  BY <1>5, <1>13, <1>14 DEF StockInv


\* A step that moves no goods and no request.
LEMMA AllStay ==
    ASSUME StockInv, UNCHANGED <<onHand, inBatch, opening, moved, docs, done, reqs>>, BookInv',
           KeptOnce \subseteq KeptOnce', \A r \in Requests : Busy(r) => reqs[r].day \in {today' - 1, today'}
    PROVE  StockInv'
<1>1. BookInv /\ docs' = docs /\ reqs' = reqs
  BY DEF StockInv
<1>2. GoodsStay
  BY <1>1 DEF GoodsStay, SameGoods, Made
<1>3. \A b, i : SameStock(b, i)
  BY DEF SameStock
<1>4. ASSUME NEW r \in Requests
      PROVE  UnderWay(reqs[r])'
  <2>1. PICK f : f = reqs[r]
    OBVIOUS
  <2>2. CASE f = Idle
    BY <1>1, <2>1, <2>2 DEF UnderWay
  <2>3. CASE f # Idle
    <3>1. f.todo # <<>> /\ Going(f)
      BY <2>1, <2>3 DEF StockInv, UnderWay
    <3>2. Undisturbed(f.op, f.todo)
      BY <1>1, <1>3 DEF Undisturbed
    <3>3. Fresh(f.op, f.held)'
      BY <1>1, <3>1 DEF Going, Fresh, Made
    <3>4. f.day \in {today' - 1, today'}
      BY <2>1, <3>1 DEF Busy
    <3>5. Going(f)'
      BY <1>1, <1>2, <3>1, <3>2, <3>3, <3>4, GoingStays
    <3>6. f = reqs'[r] /\ UnderWay(f)'
      BY <1>1, <2>1, <3>1, <3>5 DEF UnderWay
    <3>7. QED
      BY <3>6
  <2>4. QED
    BY <2>2, <2>3
<1>5. BusyOnes' = BusyOnes
  BY <1>1 DEF BusyOnes, Busy
<1>6. QED
  BY <1>1, <1>4, <1>5 DEF StockInv

LEMMA SwitchKeeps ==
    ASSUME StockInv, NEW i \in Items, Switch(i)
    PROVE  StockInv'
<1>1. BookInv /\ TypeOK /\ MaxSwitches \in Nat
  BY StockAssumption DEF StockInv, BookInv
<1>2. /\ UNCHANGED <<onHand, inBatch, ledger, opening, moved, counted, docs, past, today, done, reqs>>
      /\ switched[i] < MaxSwitches /\ switched' = [switched EXCEPT ![i] = @ + 1]
      /\ tracked' = IF i \in tracked THEN tracked \ {i} ELSE tracked \cup {i}
  BY DEF Switch, SwitchBatches
<1>3. switched \in [Items -> 0..MaxSwitches] /\ tracked \subseteq Items
  BY <1>1 DEF TypeOK
<1>4. switched' \in [Items -> 0..MaxSwitches] /\ tracked' \subseteq Items
  BY <1>1, <1>2, <1>3
<1>5. BookInv'
  BY <1>1, <1>2, <1>4 DEF BookInv, TypeOK, PurchasesKept, Is, Made, OpeningsKept
<1>6. ASSUME NEW old \in SUBSET {j \in Items : switched[j] > 0}
      PROVE  (tracked \ old) \cup (old \ tracked) \in KeptOnce'
  <2> DEFINE now == (old \ {i}) \cup ({i} \ old)
  <2>1. now \in SUBSET {j \in Items : switched'[j] > 0}
    BY <1>2, <1>3
  <2>2. (tracked \ old) \cup (old \ tracked) = (tracked' \ now) \cup (now \ tracked')
    BY <1>2
  <2> HIDE DEF now
  <2>3. QED
    BY <2>1, <2>2 DEF KeptOnce
<1>7. KeptOnce \subseteq KeptOnce'
  BY <1>6 DEF KeptOnce
<1>8. \A r \in Requests : Busy(r) => reqs[r].day \in {today' - 1, today'}
  BY <1>2 DEF StockInv, UnderWay, Busy, Idle, Going
<1>9. QED
  BY <1>2, <1>5, <1>7, <1>8, AllStay

LEMMA MidnightKeeps ==
    ASSUME StockInv, Midnight
    PROVE  StockInv'
<1>1. BookInv /\ TypeOK /\ MaxDay \in Nat
  BY StockAssumption DEF StockInv, BookInv
<1>2. /\ UNCHANGED <<onHand, inBatch, ledger, opening, moved, counted, docs, tracked, switched, past, done, reqs>>
      /\ today < MaxDay /\ today' = today + 1
      /\ \A r \in Requests : Busy(r) => reqs[r].day = today
  BY DEF Midnight, NextDay
<1>3. today \in 0..MaxDay
  BY <1>1 DEF TypeOK
<1>4. today' \in 0..MaxDay
  BY <1>1, <1>2, <1>3
<1>5. BookInv'
  BY <1>1, <1>2, <1>4 DEF BookInv, TypeOK, PurchasesKept, Is, Made, OpeningsKept
<1>6. KeptOnce' = KeptOnce
  BY <1>2 DEF KeptOnce
<1>7. \A r \in Requests : Busy(r) => reqs[r].day \in {today' - 1, today'}
  BY <1>2, <1>3
<1>8. QED
  BY <1>2, <1>5, <1>6, <1>7, AllStay

LEMMA StutterKeeps ==
    ASSUME StockInv, UNCHANGED vars
    PROVE  StockInv'
<1>1. UNCHANGED bookVars /\ reqs' = reqs
  BY DEF vars
<1>2. BookInv
  BY DEF StockInv
<1>3. BookInv'
  BY <1>1, <1>2, BooksStay
<1>4. UNCHANGED <<onHand, inBatch, opening, moved, docs, done, reqs, tracked, switched, today>>
  BY <1>1 DEF bookVars
<1>5. KeptOnce' = KeptOnce
  BY <1>4 DEF KeptOnce
<1>6. \A r \in Requests : Busy(r) => reqs[r].day \in {today' - 1, today'}
  BY <1>4 DEF StockInv, UnderWay, Busy, Idle, Going
<1>7. QED
  BY <1>3, <1>4, <1>5, <1>6, AllStay

\* Nothing is in stock at first.
LEMMA BookStarts ==
    ASSUME Init
    PROVE  BookInv
<1>1. MaxDay \in Nat /\ MaxSwitches \in Nat /\ MaxDone \in Nat /\ ItemOf \in [Batches -> Items]
  BY StockAssumption
<1>2. {ItemOf[b] : b \in Batches} \subseteq Items
  BY <1>1
<1>3. tracked \subseteq Items
  BY <1>2 DEF Init
<1>4. \A d \in Documents : docs[d] = NoDocument
  BY DEF Init
<1>5. TypeOK
  <2>1. /\ onHand \in [Branches \X Items -> Int] /\ inBatch \in [Branches \X Batches -> Int]
        /\ ledger \in [Branches \X Items \X Sources -> Int]
        /\ opening \in [Branches \X Items \X Sources -> Nat \cup {NoOpening}]
    BY DEF Init
  <2>2. /\ moved \subseteq Branches \X Items /\ past \subseteq Branches \X Items
        /\ counted \in [Items -> Int] /\ switched \in [Items -> 0..MaxSwitches]
        /\ today \in 0..MaxDay /\ done \in 0..MaxDone
        /\ docs \in [Documents -> Doc \cup {NoDocument}]
    BY <1>1 DEF Init
  <2>3. QED
    BY <1>3, <1>4, <2>1, <2>2 DEF TypeOK
<1>6. PurchasesKept
  BY <1>4 DEF PurchasesKept, Is, Made
<1>7. OpeningsKept
  BY DEF Init, OpeningsKept
<1>8. QED
  BY <1>5, <1>6, <1>7 DEF BookInv

(***************************************************************************)
(* However requests interleave, each moves what it would if it looked at   *)
(* the stock again when it commits, and no two hold locks that conflict.   *)
(***************************************************************************)
THEOREM RequestsStand == StockSpec => []StockInv
<1>1. StockInit => StockInv
  <2>1. SUFFICES ASSUME StockInit
                 PROVE  StockInv
    OBVIOUS
  <2>1a. Init /\ reqs = [r \in Requests |-> Idle]
    BY <2>1 DEF StockInit
  <2>2. BookInv /\ done = 0 /\ MaxDone \in Nat
    <3>1. BookInv
      BY <2>1a, BookStarts
    <3>2. done = 0
      BY <2>1a DEF Init
    <3>3. QED
      BY <3>1, <3>2, StockAssumption
  <2>3. reqs = [r \in Requests |-> reqs[r]] /\ \A r \in Requests : reqs[r] = Idle
    BY <2>1a
  <2>4. \A r, q \in Requests : Apart(reqs[r], reqs[q])
    BY <2>3, IdleApart
  <2>5. BusyOnes = {}
    BY <2>3 DEF BusyOnes, Busy, Idle
  <2>6. Cardinality(BusyOnes) = 0
    BY <2>5, FS_EmptySet
  <2>7. QED
    BY <2>2, <2>3, <2>4, <2>6 DEF StockInv, UnderWay
<1>2. StockInv /\ [StockNext]_vars => StockInv'
  <2>1. SUFFICES ASSUME StockInv, [StockNext]_vars
                 PROVE  StockInv'
    OBVIOUS
  <2>2. CASE UNCHANGED vars
    BY <2>1, <2>2, StutterKeeps
  <2>3. ASSUME NEW r \in Requests, NEW op \in Ops, Begin(r, op)
        PROVE  StockInv'
    BY <2>1, <2>3, BeginKeeps
  <2>4. ASSUME NEW r \in Requests, TakeLock(r)
        PROVE  StockInv'
    BY <2>1, <2>4, TakeLockKeeps
  <2>5. ASSUME NEW r \in Requests, ReadAndCheck(r)
        PROVE  StockInv'
    BY <2>1, <2>5, ReadAndCheckKeeps
  <2>6. ASSUME NEW r \in Requests, CommitRequest(r)
        PROVE  StockInv'
    BY <2>1, <2>6, CommitKeeps
  <2>7. ASSUME NEW r \in Requests, Replay(r) \/ Abort(r) \/ DeadlockVictim(r)
        PROVE  StockInv'
    <3>1. Busy(r) /\ RollBack(r)
      BY <2>7 DEF Replay, Abort, DeadlockVictim, WaitsFor
    <3>2. QED
      BY <2>1, <3>1, RollBackKeeps
  <2>8. ASSUME NEW i \in Items, Switch(i)
        PROVE  StockInv'
    BY <2>1, <2>8, SwitchKeeps
  <2>9. CASE Midnight
    BY <2>1, <2>9, MidnightKeeps
  <2>10. QED
    BY <2>1, <2>2, <2>3, <2>4, <2>5, <2>6, <2>7, <2>8, <2>9 DEF StockNext
<1>3. QED
  BY <1>1, <1>2, PTL DEF StockSpec


\* What a request waits for and what it holds, when it isn't a purchase.
LEMMA WaitsInOrder ==
    ASSUME StockInv, NEW r \in Requests, NEW q \in Requests, WaitsFor(r, q), q # r,
           reqs[r].op.kind # "purchase", reqs[q].op.kind # "purchase", Busy(q)
    PROVE  \E l : /\ l = Step(r) /\ l \in Held(q) /\ l[1] \in {"doc", "stock", "key", "branch"}
                  /\ l \in Steps(reqs[r].op) /\ l \in Steps(reqs[q].op)
                  /\ \A m \in Held(r) : Before(reqs[r].op.kind, m, l)
<1>1. PICK f : f = reqs[r] /\ f.todo # <<>> /\ Going(f) /\ Step(r) = Head(f.todo) /\ Held(r) = f.held
  BY BusyGoes DEF WaitsFor
<1>2. PICK g : g = reqs[q] /\ g.todo # <<>> /\ Going(g) /\ Step(q) = Head(g.todo) /\ Held(q) = g.held
  BY BusyGoes
<1>3. InProgram(f.op, f.todo, f.held) /\ InProgram(g.op, g.todo, g.held)
  BY <1>1, <1>2 DEF Going
<1>4. PICK l : l = Head(f.todo)
  OBVIOUS
<1>5. l = f.todo[1] /\ 1 \in DOMAIN f.todo /\ l \in Steps(f.op)
  BY <1>1, <1>3, <1>4 DEF InProgram
<1>6. \A m \in f.held : Before(f.op.kind, m, l)
  BY <1>3, <1>5 DEF InProgram
<1>7. IsLock(l) /\ \E m \in g.held : Conflict(l, m)
  BY <1>1, <1>2, <1>4 DEF WaitsFor
<1>8. PICK m \in g.held : Conflict(l, m)
  BY <1>7
<1>9. m \in Steps(g.op)
  BY <1>3, <1>8 DEF InProgram
<1>10. l[1] # "item" /\ m[1] # "item"
  BY <1>1, <1>2, <1>5, <1>9 DEF Steps, Read, Commit
<1>11. l = m /\ l[1] # "share"
  BY <1>8, <1>10 DEF Conflict
<1>12. l[1] \in {"doc", "stock", "key", "branch"}
  BY <1>1, <1>5, <1>7, <1>11 DEF Steps, IsLock
<1>13. QED
  BY <1>1, <1>2, <1>4, <1>5, <1>6, <1>8, <1>9, <1>11, <1>12

(***************************************************************************)
(* Two requests wait for each other only if one of them is a purchase.     *)
(***************************************************************************)
THEOREM PurchasesDeadlock == StockSpec => []DeadlocksNeedPurchase
<1>1. StockInv => DeadlocksNeedPurchase
  <2>1. SUFFICES ASSUME StockInv, NEW r \in Requests, NEW q \in Requests, WaitsFor(r, q), WaitsFor(q, r),
                        reqs[r].op.kind # "purchase", reqs[q].op.kind # "purchase"
                 PROVE  FALSE
    BY DEF DeadlocksNeedPurchase
  <2>2. Busy(r) /\ Busy(q) /\ q # r
    BY <2>1 DEF WaitsFor
  <2>3. PICK l : /\ l = Step(r) /\ l \in Held(q) /\ l[1] \in {"doc", "stock", "key", "branch"}
                 /\ l \in Steps(reqs[r].op) /\ l \in Steps(reqs[q].op)
                 /\ \A x \in Held(r) : Before(reqs[r].op.kind, x, l)
    BY <2>1, <2>2, WaitsInOrder
  <2>4. PICK m : /\ m = Step(q) /\ m \in Held(r) /\ m[1] \in {"doc", "stock", "key", "branch"}
                 /\ m \in Steps(reqs[q].op) /\ m \in Steps(reqs[r].op)
                 /\ \A x \in Held(q) : Before(reqs[q].op.kind, x, m)
    BY <2>1, <2>2, WaitsInOrder
  <2>5. PICK a, b : a = reqs[r].op /\ b = reqs[q].op
    OBVIOUS
  <2>6. Before(a.kind, m, l) /\ Before(b.kind, l, m)
    BY <2>3, <2>4, <2>5
  <2>7. l \in Steps(a) /\ l \in Steps(b) /\ m \in Steps(a) /\ m \in Steps(b) /\ a.kind # "purchase" /\ b.kind # "purchase"
    BY <2>1, <2>3, <2>4, <2>5
  <2>8. l[1] = "key" \/ m[1] = "key" => a.kind = "sale" /\ b.kind = "sale"
    BY <2>7 DEF Steps, Read, Commit
  <2>9. CASE l[1] = "stock" /\ m[1] = "stock"
    <3>1. /\ a \in Ops /\ Found(a) /\ TypeOK
      BY <2>1, <2>2, <2>5, BusyGoes DEF Going, InProgram, StockInv, BookInv
    <3>2. MovedItems(a) \subseteq Nat
      BY <3>1, MovedItemsTyped
    <3>3. l[3] \in Nat /\ m[3] \in Nat
      BY <2>7, <2>9, <3>2 DEF Steps, Read, Commit
    <3>4. l[3] < m[3] /\ m[3] < l[3]
      BY <2>6, <2>9 DEF Before, Turn
    <3>5. QED
      BY <3>3, <3>4
  <2>10. CASE ~(l[1] = "stock" /\ m[1] = "stock")
    BY <2>3, <2>4, <2>6, <2>7, <2>8, <2>10 DEF Before, Turn
  <2>11. QED
    BY <2>9, <2>10
<1>2. QED
  BY <1>1, RequestsStand, PTL


\* The commit of a request is an operation of the books.
LEMMA CommitIsDo ==
    ASSUME StockInv, NEW r \in Requests, CommitRequest(r)
    PROVE  \E op \in Ops : Do(op)
<1>1. PICK f : /\ f = reqs[r] /\ f.todo # <<>> /\ Going(f) /\ f.op \in Ops
               /\ Needs(f.op) \subseteq f.held /\ Possible(f.op) /\ done < MaxDone /\ f.day \in Int
               /\ Apply(f.op, f.took, f.day)
               /\ \E kept \in KeptOnce : f.took \in Outcome(f.op, f.day, kept) /\ Fits(f.op, f.took)
  BY CommitsOperation
<1>2. PICK op, took, day : op = f.op /\ took = f.took /\ day = f.day
  OBVIOUS
<1>3. PICK kept \in KeptOnce : took \in Outcome(op, day, kept) /\ Fits(op, took)
  BY <1>1, <1>2
<1>4. TypeOK /\ op \in Ops /\ Possible(op) /\ done < MaxDone /\ day \in Int /\ Apply(op, took, day)
  BY <1>1, <1>2 DEF StockInv, BookInv
<1>5. done' = done + 1
  BY <1>4 DEF Apply
<1>6. day \in {today - 1, today}
  BY <1>1, <1>2 DEF Going
<1>7. ASSUME NEW d \in Documents, docs'[d] # docs[d]
      PROVE  "doc" \in DOMAIN op /\ d = op.doc
  <2>1. ~IsCount(op) /\ d = op.doc
    BY <1>3, <1>4, <1>7, DocsAfter
  <2>2. op \in SaleOps \/ op \in TransferOps \/ op \in PurchaseOps \/ op \in LineOps \/ op \in DocOps
    BY <1>4, <2>1, OpKinds DEF IsCount, Makes
  <2>3. QED
    BY <2>1, <2>2 DEF SaleOps, TransferOps, PurchaseOps, LineOps, DocOps
<1>8. PICK old \in SUBSET {i \in Items : switched[i] > 0} : kept = (tracked \ old) \cup (old \ tracked)
  BY <1>3 DEF KeptOnce
<1>9. Do(op)
  <2>1. \E x \in {today - 1, today}, o \in SUBSET {i \in Items : switched[i] > 0} :
           \E t \in Outcome(op, x, (tracked \ o) \cup (o \ tracked)) : Apply(op, t, x)
    BY <1>3, <1>4, <1>6, <1>8
  <2>2. QED
    BY <1>4, <1>5, <1>7, <2>1, Zenon DEF Do
<1>10. QED
  BY <1>4, <1>9

\* A step of the requests is a step of the books, or leaves them alone.
LEMMA RequestsStepBooks ==
    ASSUME StockInv, [StockNext]_vars
    PROVE  [bookVars' # bookVars /\ Next]_bookVars
<1>1. TypeOK
  BY DEF StockInv, BookInv
<1>2. CASE UNCHANGED vars
  BY <1>2 DEF vars
<1>3. ASSUME NEW r \in Requests, NEW op \in Ops, Begin(r, op)
      PROVE  UNCHANGED bookVars
  BY <1>3 DEF Begin
<1>4. ASSUME NEW r \in Requests, TakeLock(r) \/ Replay(r) \/ ReadAndCheck(r) \/ Abort(r) \/ DeadlockVictim(r)
      PROVE  UNCHANGED bookVars
  BY <1>4 DEF TakeLock, Replay, ReadAndCheck, Abort, DeadlockVictim, RollBack
<1>5. ASSUME NEW r \in Requests, CommitRequest(r)
      PROVE  bookVars' # bookVars /\ Next
  <2>1. PICK op \in Ops : Do(op)
    BY <1>5, CommitIsDo
  <2>2. done' = done + 1 /\ done \in Int
    BY <1>1, <2>1 DEF Do, TypeOK
  <2>3. bookVars' # bookVars
    BY <2>2 DEF bookVars
  <2>4. QED
    BY <2>1, <2>3 DEF Next
<1>6. ASSUME NEW i \in Items, Switch(i)
      PROVE  bookVars' # bookVars /\ Next
  <2>1. SwitchBatches(i) /\ switched \in [Items -> 0..MaxSwitches]
    BY <1>1, <1>6 DEF Switch, TypeOK
  <2>2. switched' # switched
    BY <2>1 DEF SwitchBatches
  <2>3. QED
    BY <2>1, <2>2 DEF Next, bookVars
<1>7. CASE Midnight
  <2>1. NextDay /\ today \in 0..MaxDay
    BY <1>1, <1>7 DEF Midnight, TypeOK
  <2>2. today' # today
    BY <2>1 DEF NextDay
  <2>3. QED
    BY <2>1, <2>2 DEF Next, bookVars
<1>8. QED
  BY <1>2, <1>3, <1>4, <1>5, <1>6, <1>7 DEF StockNext

(***************************************************************************)
(* The transactions implement the books: what requests do, however they    *)
(* interleave, fail and are sent again, is what operations do one by one.  *)
(***************************************************************************)
THEOREM StockImplementsBook == StockSpec => Spec
<1>1. StockInit => Init
  BY DEF StockInit
<1>2. StockInv /\ [StockNext]_vars => [bookVars' # bookVars /\ Next]_bookVars
  BY RequestsStepBooks
<1>3. QED
  BY <1>1, <1>2, RequestsStand, PTL DEF StockSpec, Spec


\* The books the requests write, as an instance, are the books.
LEMMA SumIsSum ==
    ASSUME NEW f
    PROVE  Book!Total(f) = Total(f)
BY Zenon DEF Total, Book!Total, MapThenSumSet, Book!MapThenSumSet, MapThenFoldSet, Book!MapThenFoldSet

LEMMA BookInits == Book!Init <=> Init
BY Zenon DEF Init, Book!Init, NoOpening, Book!NoOpening, Sources, Book!Sources, NoOpening


LEMMA BookSteps == Book!Next <=> Next
BY ZenonT(60) DEF Sources, Book!Sources, bookVars, Book!bookVars, NoOpening, Book!NoOpening, Nothing, Book!Nothing, Least, Book!Least, AtLeast0, Book!AtLeast0, SourcesOf, Book!SourcesOf, Expired, Book!Expired, Sooner, Book!Sooner, PickedBefore, Book!PickedBefore, Lots, Book!Lots, Pick, Book!Pick, TakeFromBatches, Book!TakeFromBatches, SplitOverShares, Book!SplitOverShares, PutBack, Book!PutBack, Made, Book!Made, Is, Book!Is, ItemsOf, Book!ItemsOf, Wanted, Book!Wanted, Whole, Book!Whole, Into, Book!Into, BatchGiven, Book!BatchGiven, TakenOf, Book!TakenOf, TakenOut, Book!TakenOut, Openings, Book!Openings, AdjustedOut, Book!AdjustedOut, CameInto, Book!CameInto, SentBack, Book!SentBack, Bought, Book!Bought, Outcome, Book!Outcome, Place, Book!Place, ItemsMoved, Book!ItemsMoved, Sign, Book!Sign, Moves, Book!Moves, RecordStock, Book!RecordStock, CorrectOpening, Book!CorrectOpening, Added, Book!Added, Document, Book!Document, SoldPast, Book!SoldPast, Apply, Book!Apply, Possible, Book!Possible, Do, Book!Do, SwitchBatches, Book!SwitchBatches, NextDay, Book!NextDay, Next, Book!Next, Total, Book!Total, MapThenSumSet, Book!MapThenSumSet, MapThenFoldSet, Book!MapThenFoldSet


(***************************************************************************)
(* However requests interleave, fail and are sent again, the stock moves   *)
(* as if each ran alone.                                                   *)
(***************************************************************************)
THEOREM StockAsIfAlone == StockSpec => AsIfAlone
<1>1. Init => Book!Init
  BY BookInits
<1>2. bookVars = Book!bookVars /\ bookVars' = Book!bookVars'
  BY DEF bookVars, Book!bookVars
<1>3. [bookVars' # bookVars /\ Next]_bookVars => [Book!bookVars' # Book!bookVars /\ Book!Next]_(Book!bookVars)
  BY <1>2, BookSteps
<1>4. Spec => Book!Spec
  BY <1>1, <1>3, PTL DEF Spec, Book!Spec
<1>5. QED
  BY <1>4, StockImplementsBook, PTL DEF AsIfAlone
=============================================================================
