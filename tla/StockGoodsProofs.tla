-------------------------- MODULE StockGoodsProofs --------------------------
(***************************************************************************)
(* What the books of StockBook say of the goods, and with StockProofs what *)
(* the transactions of Stock do to them.                                   *)
(*                                                                         *)
(* First the picking and splitting of goods over batches.  Sources are in  *)
(* a line, and each holds the units from where those before it end, so     *)
(* what is drawn from them up to some unit is the sum of what each gives   *)
(* (a sum that telescopes along the line).  So an operation moves, line by *)
(* line, what it is of, and no more of a batch than there was.             *)
(*                                                                         *)
(* Then two invariants of the books.  GoodsInv: on-hand stock is the sum   *)
(* of the ledger, every document's lines went out whole and came back no   *)
(* more than that, and each item is accounted for (a sum over branches and *)
(* one over documents, each changed at one place).  ShortInv: no batch is  *)
(* ever short; an item never switched to or from batches has all its goods *)
(* in them, or none; what is out of an item was there.                     *)
(***************************************************************************)
EXTENDS StockProofs

(***************************************************************************)
(* Sums in an order, and sums of sums.                                     *)
(***************************************************************************)

\* The sum over part of a function's arguments.
Part(f, T) == [t \in T |-> f[t]]

LEMMA PartSum ==
    ASSUME NEW S, IsFiniteSet(S), NEW f \in [S -> Int], NEW g, Sums(g, f, S), NEW T \in SUBSET S
    PROVE  Total(Part(f, T)) = g[T] /\ Part(f, T) \in [T -> Int] /\ IsFiniteSet(T)
<1>1. Part(f, T) \in [T -> Int] /\ DOMAIN Part(f, T) = T /\ \A t \in T : Part(f, T)[t] = f[t]
  BY DEF Part
<1>2. IsFiniteSet(T)
  BY FS_Subset
<1>3. PICK h : Sums(h, Part(f, T), T) /\ Total(Part(f, T)) = h[T]
  BY <1>1, <1>2, TotalSums
<1>4. h[T] = g[T]
  <2>1. T \in SUBSET T
    OBVIOUS
  <2>2. QED
    BY <1>1, <1>2, <1>3, <2>1, SumsAgree
<1>5. QED
  BY <1>1, <1>2, <1>3, <1>4

LEMMA PartTaken ==
    ASSUME NEW S, IsFiniteSet(S), NEW f \in [S -> Int], NEW T \in SUBSET S, NEW x \in T
    PROVE  Total(Part(f, T)) = f[x] + Total(Part(f, T \ {x})) /\ Total(Part(f, T)) \in Int /\ Total(Part(f, T \ {x})) \in Int
<1>1. PICK g : Sums(g, f, S) /\ Total(f) = g[S]
  BY TotalSums
<1>2. T \ {x} \in SUBSET S
  OBVIOUS
<1>3. Total(Part(f, T)) = g[T] /\ Total(Part(f, T \ {x})) = g[T \ {x}]
  BY <1>1, <1>2, PartSum
<1>4. g[T] = f[x] + g[T \ {x}] /\ g[T] \in Int /\ g[T \ {x}] \in Int
  <2>1. g[T] = f[x] + g[T \ {x}]
    BY <1>1, SumsTakeOut
  <2>2. g[T] \in Int
    BY <1>1, SumsTyped
  <2>3. g[T \ {x}] \in Int
    BY <1>1, <1>2, SumsTyped
  <2>4. QED
    BY <2>1, <2>2, <2>3
<1>5. QED
  BY <1>3, <1>4

LEMMA PartOfNone ==
    ASSUME NEW f
    PROVE  Total(Part(f, {})) = 0
<1>1. Part(f, {}) \in [{} -> Int] /\ IsFiniteSet({})
  BY FS_EmptySet DEF Part
<1>2. QED
  BY <1>1, TotalOfNone

LEMMA PartOfAll ==
    ASSUME NEW S, NEW f \in [S -> Int]
    PROVE  Part(f, S) = f
BY DEF Part

\* The sum of a function's other terms is the same when those terms are.
LEMMA TotalOfSame ==
    ASSUME NEW S, NEW e \in [S -> Int], NEW f \in [S -> Int], \A x \in S : e[x] = f[x]
    PROVE  Total(e) = Total(f)
<1>1. e = f
  OBVIOUS
<1>2. QED
  BY <1>1

\* The terms of S in a line: below[s] is those before s.
Line(S, below) ==
    /\ below \in [S -> SUBSET S]
    /\ \A s \in S : s \notin below[s]
    /\ \A s, t \in S : s = t \/ s \in below[t] \/ t \in below[s]
    /\ \A s, t \in S : s \in below[t] => below[s] \subseteq below[t]

\* A part of the line that leaves nothing out before its last.
Stretch(D, below) == \A s \in D : below[s] \subseteq D

LEMMA LastInLine ==
    ASSUME NEW S, IsFiniteSet(S), NEW below, Line(S, below), NEW D \in SUBSET S, D # {}, Stretch(D, below)
    PROVE  \E m \in D : below[m] = D \ {m} /\ Stretch(below[m], below)
<1> DEFINE C == {D \ below[s] : s \in D}
<1>1. C \in SUBSET (SUBSET S) /\ C # {}
  OBVIOUS
<1>2. PICK A \in C : \A t \in SUBSET A : t # A => t \notin C
  <2> HIDE DEF C
  <2>1. QED
    BY <1>1, SmallestSet
<1>3. PICK m \in D : A = D \ below[m]
  OBVIOUS
<1>4. m \in S /\ below[m] \in SUBSET S /\ m \notin below[m]
  BY <1>3 DEF Line
<1>5. ASSUME NEW t \in D \ below[m], t # m
      PROVE  FALSE
  <2>1. t \in S /\ m \in below[t] /\ below[m] \subseteq below[t]
    BY <1>4, <1>5 DEF Line
  <2>2. D \ below[t] \in C /\ D \ below[t] \in SUBSET A /\ D \ below[t] # A
    BY <1>3, <1>4, <1>5, <2>1
  <2>3. QED
    BY <1>2, <2>2
<1>6. below[m] = D \ {m}
  BY <1>4, <1>5 DEF Stretch
<1>7. Stretch(below[m], below)
  BY <1>4, <1>6 DEF Stretch, Line
<1>8. QED
  BY <1>6, <1>7

\* What comes before s in the line.
SumBefore(f, below, s) == Total(Part(f, below[s]))

\* Terms that are each what a running total gains make what it gains in all.
Gains(e, f, G, below, S) ==
    \A s \in S : e[s] = G[SumBefore(f, below, s) + f[s]] - G[SumBefore(f, below, s)]

LEMMA Telescopes ==
    ASSUME NEW S, IsFiniteSet(S), NEW below, Line(S, below), NEW e \in [S -> Int], NEW f \in [S -> Int],
           NEW G \in [Int -> Int], Gains(e, f, G, below, S)
    PROVE  Total(e) = G[Total(f)] - G[0]
<1> DEFINE Wrong == {D \in SUBSET S : Stretch(D, below) /\ Total(Part(e, D)) # G[Total(Part(f, D))] - G[0]}
<1>1. SUFFICES ASSUME Wrong # {} PROVE FALSE
  <2>1. Stretch(S, below)
    BY DEF Stretch, Line
  <2>2. Part(e, S) = e /\ Part(f, S) = f
    BY PartOfAll
  <2>3. Wrong = {} => ~(S \in Wrong)
    OBVIOUS
  <2>4. QED
    BY <2>1, <2>2, <2>3
<1>2. PICK D \in Wrong : \A u \in SUBSET D : u # D => u \notin Wrong
  <2>1. Wrong \in SUBSET (SUBSET S)
    OBVIOUS
  <2> HIDE DEF Wrong
  <2>2. QED
    BY <1>1, <2>1, SmallestSet
<1>3. /\ D \in SUBSET S /\ Stretch(D, below) /\ Total(Part(e, D)) # G[Total(Part(f, D))] - G[0]
      /\ \A u \in SUBSET D : u # D /\ Stretch(u, below) => Total(Part(e, u)) = G[Total(Part(f, u))] - G[0]
  BY <1>2
<1> HIDE DEF Wrong
<1>4. CASE D = {}
  <2>1. Total(Part(e, D)) = 0 /\ Total(Part(f, D)) = 0
    BY <1>4, PartOfNone
  <2>2. G[0] \in Int
    OBVIOUS
  <2>3. QED
    BY <1>3, <2>1, <2>2
<1>5. CASE D # {}
  <2>1. PICK m \in D : below[m] = D \ {m} /\ Stretch(below[m], below)
    BY <1>3, <1>5, LastInLine
  <2> DEFINE rest == D \ {m}
  <2>2. Total(Part(e, D)) = e[m] + Total(Part(e, rest)) /\ Total(Part(e, rest)) \in Int
    BY <1>3, PartTaken
  <2>3. /\ Total(Part(f, D)) = f[m] + Total(Part(f, rest)) /\ Total(Part(f, rest)) \in Int
        /\ Total(Part(f, D)) \in Int
    BY <1>3, PartTaken
  <2>4. rest \in SUBSET D /\ rest # D /\ rest = below[m] /\ m \in S
    BY <1>3, <2>1
  <2>5. Total(Part(e, rest)) = G[Total(Part(f, rest))] - G[0]
    BY <1>3, <2>1, <2>4
  <2>6. e[m] = G[Total(Part(f, rest)) + f[m]] - G[Total(Part(f, rest))]
    BY <2>4 DEF Gains, SumBefore
  <2> HIDE DEF rest
  <2>7. f[m] \in Int /\ Total(Part(f, rest)) + f[m] = Total(Part(f, D))
    BY <2>3, <2>4
  <2>8. G[Total(Part(f, rest))] \in Int /\ G[Total(Part(f, D))] \in Int /\ G[0] \in Int
    BY <2>3
  <2>9. QED
    BY <1>3, <2>2, <2>5, <2>6, <2>7, <2>8
<1>6. QED
  BY <1>4, <1>5

\* The numbers of a table, row by row and column by column.
Column(table, A, b) == [a \in A |-> table[a][b]]

RowSums(rows, table, A) == \A a \in A : rows[a] = Total(table[a])
ColumnSums(cols, table, A, B) == \A b \in B : cols[b] = Total(Column(table, A, b))

LEMMA RowsAndColumns ==
    ASSUME NEW A, IsFiniteSet(A), NEW B, IsFiniteSet(B), NEW table \in [A -> [B -> Int]],
           NEW rows \in [A -> Int], RowSums(rows, table, A), NEW cols \in [B -> Int], ColumnSums(cols, table, A, B)
    PROVE  Total(rows) = Total(cols)
<1> DEFINE ColumnsOf(T) == [b \in B |-> Total(Part(Column(table, A, b), T))]
           Wrong == {T \in SUBSET A : Total(Part(rows, T)) # Total(ColumnsOf(T))}
<1>1. \A b \in B : Column(table, A, b) \in [A -> Int] /\ \A a \in A : Column(table, A, b)[a] = table[a][b]
  BY DEF Column
<1>2. SUFFICES ASSUME Wrong # {} PROVE FALSE
  <2>1. Part(rows, A) = rows
    BY PartOfAll
  <2>2. \A b \in B : Part(Column(table, A, b), A) = Column(table, A, b)
    BY <1>1, PartOfAll
  <2>3. ColumnsOf(A) = cols
    BY <2>2 DEF ColumnSums
  <2>4. Wrong = {} => ~(A \in Wrong)
    OBVIOUS
  <2> HIDE DEF ColumnsOf
  <2>5. QED
    BY <2>1, <2>3, <2>4
<1>3. PICK T \in Wrong : \A u \in SUBSET T : u # T => u \notin Wrong
  <2>1. Wrong \in SUBSET (SUBSET A)
    OBVIOUS
  <2> HIDE DEF Wrong
  <2>2. QED
    BY <1>2, <2>1, SmallestSet
<1>4. /\ T \in SUBSET A /\ Total(Part(rows, T)) # Total(ColumnsOf(T))
      /\ \A u \in SUBSET T : u # T => Total(Part(rows, u)) = Total(ColumnsOf(u))
  BY <1>3
<1> HIDE DEF Wrong
<1>5. CASE T = {}
  <2>1. Total(Part(rows, T)) = 0
    BY <1>5, PartOfNone
  <2>2. ColumnsOf(T) \in [B -> Int] /\ \A b \in B : ColumnsOf(T)[b] = 0
    BY <1>5, PartOfNone
  <2> HIDE DEF ColumnsOf
  <2>3. Total(ColumnsOf(T)) = 0
    BY <2>2, TotalOfNone
  <2>4. QED
    BY <1>4, <2>1, <2>3
<1>6. CASE T # {}
  <2>1. PICK c \in T : TRUE
    BY <1>6
  <2> DEFINE rest == T \ {c}
  <2>2. c \in A /\ rest \in SUBSET T /\ rest # T /\ rest \in SUBSET A
    BY <1>4, <2>1
  <2>3. Total(Part(rows, T)) = rows[c] + Total(Part(rows, rest))
    BY <1>4, <2>1, PartTaken
  <2>4. Total(Part(rows, rest)) = Total(ColumnsOf(rest))
    BY <1>4, <2>2
  <2>5. \A b \in B : /\ Total(Part(Column(table, A, b), T)) = table[c][b] + Total(Part(Column(table, A, b), rest))
                     /\ Total(Part(Column(table, A, b), T)) \in Int
                     /\ Total(Part(Column(table, A, b), rest)) \in Int
    <3>1. SUFFICES ASSUME NEW b \in B
                   PROVE  /\ Total(Part(Column(table, A, b), T)) = table[c][b] + Total(Part(Column(table, A, b), rest))
                          /\ Total(Part(Column(table, A, b), T)) \in Int
                          /\ Total(Part(Column(table, A, b), rest)) \in Int
      OBVIOUS
    <3>2. PICK col : col = Column(table, A, b)
      OBVIOUS
    <3>3. col \in [A -> Int] /\ col[c] = table[c][b]
      BY <1>1, <2>2, <3>2
    <3>4. /\ Total(Part(col, T)) = col[c] + Total(Part(col, T \ {c}))
          /\ Total(Part(col, T)) \in Int /\ Total(Part(col, T \ {c})) \in Int
      <4>1. IsFiniteSet(A) /\ col \in [A -> Int] /\ T \in SUBSET A /\ c \in T
        BY <1>4, <2>1, <3>3
      <4>2. Total(Part(col, T)) = col[c] + Total(Part(col, T \ {c}))
        BY ONLY <4>1, PartTaken
      <4>3. Total(Part(col, T)) \in Int
        BY ONLY <4>1, PartTaken
      <4>4. Total(Part(col, T \ {c})) \in Int
        BY ONLY <4>1, PartTaken
      <4>5. QED
        BY <4>2, <4>3, <4>4
    <3>5. QED
      BY <3>2, <3>3, <3>4
  <2>6. /\ ColumnsOf(T) \in [B -> Int] /\ ColumnsOf(rest) \in [B -> Int]
        /\ \A b \in B : ColumnsOf(T)[b] = table[c][b] + ColumnsOf(rest)[b]
    BY <2>5
  <2> HIDE DEF ColumnsOf
  <2>7. Total(ColumnsOf(T)) = Total(table[c]) + Total(ColumnsOf(rest))
    <3>1. table[c] \in [B -> Int]
      BY <2>2
    <3>2. PICK d, e, f : d = ColumnsOf(T) /\ e = table[c] /\ f = ColumnsOf(rest)
      OBVIOUS
    <3>3. d \in [B -> Int] /\ e \in [B -> Int] /\ f \in [B -> Int] /\ \A b \in B : d[b] = e[b] + f[b]
      BY <2>6, <3>1, <3>2
    <3>4. Total(d) = Total(e) + Total(f)
      BY <3>3, TotalPlus
    <3>5. QED
      BY <3>2, <3>4
  <2>8. rows[c] = Total(table[c])
    BY <2>2 DEF RowSums
  <2>9. QED
    BY <1>4, <2>3, <2>4, <2>7, <2>8
<1>7. QED
  BY <1>5, <1>6


(***************************************************************************)
(* Goods drawn from sources in their order.                                *)
(***************************************************************************)

\* Each gives what those before it leave wanting.
Drawn(e, f, qty, below, S) == \A s \in S : e[s] = Least(f[s], AtLeast0(qty - SumBefore(f, below, s)))

LEMMA BeforeTyped ==
    ASSUME NEW S, IsFiniteSet(S), NEW below \in [S -> SUBSET S], NEW f \in [S -> Int], NEW s \in S
    PROVE  /\ SumBefore(f, below, s) \in Int
           /\ (\A t \in S : f[t] >= 0) => SumBefore(f, below, s) >= 0
<1>1. below[s] \in SUBSET S
  OBVIOUS
<1>2. PICK g : Sums(g, f, S) /\ Total(f) = g[S]
  BY TotalSums
<1>3. SumBefore(f, below, s) = g[below[s]]
  BY <1>1, <1>2, PartSum DEF SumBefore
<1>4. QED
  BY <1>1, <1>2, <1>3, SumsTyped

LEMMA DrawnSum ==
    ASSUME NEW S, IsFiniteSet(S), NEW below, Line(S, below), NEW e \in [S -> Int], NEW f \in [S -> Int],
           \A s \in S : f[s] >= 0, NEW qty \in Nat, Drawn(e, f, qty, below, S)
    PROVE  Total(e) = Least(Total(f), qty) /\ \A s \in S : 0 <= e[s] /\ e[s] <= f[s]
<1> DEFINE G == [x \in Int |-> Least(x, qty)]
<1>1. G \in [Int -> Int]
  BY DEF Least
<1>2. below \in [S -> SUBSET S]
  BY DEF Line
<1>3. ASSUME NEW s \in S
      PROVE  e[s] = G[SumBefore(f, below, s) + f[s]] - G[SumBefore(f, below, s)] /\ 0 <= e[s] /\ e[s] <= f[s]
  <2>1. PICK b : b = SumBefore(f, below, s)
    OBVIOUS
  <2>2. b \in Int /\ b >= 0 /\ f[s] \in Int /\ f[s] >= 0
    BY <1>2, <2>1, BeforeTyped
  <2>3. e[s] = Least(f[s], AtLeast0(qty - b))
    BY <2>1 DEF Drawn
  <2>4. e[s] = Least(b + f[s], qty) - Least(b, qty) /\ 0 <= e[s] /\ e[s] <= f[s]
    BY <2>2, <2>3 DEF Least, AtLeast0
  <2>5. QED
    BY <2>1, <2>2, <2>4
<1>4. Gains(e, f, G, below, S)
  BY <1>3 DEF Gains
<1> HIDE DEF G
<1>5. Total(e) = G[Total(f)] - G[0]
  BY <1>1, <1>4, Telescopes
<1>6. Total(f) \in Int /\ Total(f) >= 0
  BY TotalType
<1>7. G[Total(f)] = Least(Total(f), qty) /\ G[0] = 0
  BY <1>6 DEF G, Least
<1>8. QED
  BY <1>3, <1>5, <1>6, <1>7 DEF Least

\* Sources in the order goods are picked from them, and put back into them.
PickedFirst(i, day) == [s \in SourcesOf(i) |-> {u \in SourcesOf(i) : PickedBefore(u, s, day)}]
SoonerOnes == [s \in Sources |-> {u \in Sources : Sooner(u, s)}]

LEMMA SourcesInLine ==
    /\ Line(Sources, SoonerOnes)
    /\ \A i, day : day \in Int => Line(SourcesOf(i), PickedFirst(i, day))
<1>1. /\ NoBatch \notin Batches /\ Expiry \in [Batches -> Nat]
      /\ \A a, b \in Batches : Expiry[a] = Expiry[b] => a = b
  BY StockAssumption
<1>2. \A s, t, u \in Sources : /\ ~Sooner(s, s) /\ (s = t \/ Sooner(s, t) \/ Sooner(t, s))
                               /\ Sooner(s, t) /\ Sooner(u, s) => Sooner(u, t)
  BY <1>1 DEF Sources, Sooner
<1>3. Line(Sources, SoonerOnes)
  <2>1. SoonerOnes \in [Sources -> SUBSET Sources]
    BY DEF SoonerOnes
  <2>2. \A s, t \in Sources : s \in SoonerOnes[t] <=> Sooner(s, t)
    BY DEF SoonerOnes
  <2>3. \A s, t \in Sources : s \in SoonerOnes[t] => SoonerOnes[s] \subseteq SoonerOnes[t]
    BY <1>2, <2>1, <2>2
  <2>4. QED
    BY <1>2, <2>1, <2>2, <2>3 DEF Line
<1>4. ASSUME NEW i, NEW day \in Int
      PROVE  Line(SourcesOf(i), PickedFirst(i, day))
  <2>1. SourcesOf(i) \subseteq Sources
    BY SourcesFinite
  <2>2. \A s, t, u \in Sources : /\ ~PickedBefore(s, s, day) /\ (s = t \/ PickedBefore(s, t, day) \/ PickedBefore(t, s, day))
                                 /\ PickedBefore(s, t, day) /\ PickedBefore(u, s, day) => PickedBefore(u, t, day)
    BY <1>1 DEF Sources, Sooner, PickedBefore, Expired
  <2>3. PickedFirst(i, day) \in [SourcesOf(i) -> SUBSET SourcesOf(i)]
    BY DEF PickedFirst
  <2>4. \A s, t \in SourcesOf(i) : s \in PickedFirst(i, day)[t] <=> PickedBefore(s, t, day)
    BY DEF PickedFirst
  <2>5. \A s, t \in SourcesOf(i) : s \in PickedFirst(i, day)[t] => PickedFirst(i, day)[s] \subseteq PickedFirst(i, day)[t]
    BY <2>1, <2>2, <2>3, <2>4
  <2>6. QED
    BY <2>1, <2>2, <2>3, <2>4, <2>5 DEF Line
<1>5. QED
  BY <1>3, <1>4

\* What each source has to give.
There(lots, day, includeExpired) ==
    [s \in DOMAIN lots |-> IF Expired(s, day) /\ ~includeExpired THEN 0 ELSE AtLeast0(lots[s])]

\* pickBatches: no more than a source has, and in all what is wanted or what there is.
LEMMA PickDraws ==
    ASSUME NEW i, NEW lots \in [SourcesOf(i) -> Int], NEW qty \in Nat, NEW day \in Int, NEW all
    PROVE  LET pick == Pick(lots, qty, day, all)
               there == There(lots, day, all)
           IN  /\ pick \in Quantities /\ there \in [SourcesOf(i) -> Int]
               /\ Total(pick) = Least(Total(there), qty)
               /\ Total(there) \in Int /\ Total(there) >= 0
               /\ \A s \in SourcesOf(i) : 0 <= pick[s] /\ pick[s] <= there[s]
               /\ \A s \in Sources : s \notin SourcesOf(i) => pick[s] = 0
<1>1. PICK pick : pick = Pick(lots, qty, day, all)
  OBVIOUS
<1>2. PICK there : there = There(lots, day, all)
  OBVIOUS
<1>3. DOMAIN lots = SourcesOf(i) /\ SourcesOf(i) \in SUBSET Sources /\ IsFiniteSet(SourcesOf(i)) /\ IsFiniteSet(Sources)
  BY SourcesFinite
<1>4. there \in [SourcesOf(i) -> Int] /\ \A s \in SourcesOf(i) : there[s] >= 0
  BY <1>2, <1>3 DEF There, AtLeast0
<1>5. pick \in Quantities
  BY <1>1, PickTyped
<1>6. Line(SourcesOf(i), PickedFirst(i, day))
  BY SourcesInLine
<1>7. ASSUME NEW s \in SourcesOf(i)
      PROVE  pick[s] = Least(there[s], AtLeast0(qty - SumBefore(there, PickedFirst(i, day), s)))
  <2>1. PickedFirst(i, day)[s] = {u \in DOMAIN lots : PickedBefore(u, s, day)}
    BY <1>3 DEF PickedFirst
  <2>2. Part(there, PickedFirst(i, day)[s])
          = [t \in {u \in DOMAIN lots : PickedBefore(u, s, day)} |->
               IF Expired(t, day) /\ ~all THEN 0 ELSE AtLeast0(lots[t])]
    BY <1>2, <2>1 DEF Part, There
  <2>3. there[s] = IF Expired(s, day) /\ ~all THEN 0 ELSE AtLeast0(lots[s])
    BY <1>2, <1>3 DEF There
  <2>4. s \in Sources
    BY <1>3
  <2>5. pick[s] = Least(IF Expired(s, day) /\ ~all THEN 0 ELSE AtLeast0(lots[s]),
                        AtLeast0(qty - Total([t \in {u \in DOMAIN lots : PickedBefore(u, s, day)} |->
                                                IF Expired(t, day) /\ ~all THEN 0 ELSE AtLeast0(lots[t])])))
    BY <1>1, <1>3, <2>4 DEF Pick
  <2>6. SumBefore(there, PickedFirst(i, day), s) = Total(Part(there, PickedFirst(i, day)[s]))
    BY DEF SumBefore
  <2>7. QED
    BY <2>2, <2>3, <2>5, <2>6
<1>8. \A s \in Sources : s \notin SourcesOf(i) => pick[s] = 0
  BY <1>1, <1>3 DEF Pick
<1>9. PICK e : e = Part(pick, SourcesOf(i))
  OBVIOUS
<1>10. e \in [SourcesOf(i) -> Int] /\ \A s \in SourcesOf(i) : e[s] = pick[s]
  BY <1>3, <1>5, <1>9 DEF Part, Quantities
<1>11. Drawn(e, there, qty, PickedFirst(i, day), SourcesOf(i))
  BY <1>7, <1>10 DEF Drawn
<1>12. Total(e) = Least(Total(there), qty) /\ \A s \in SourcesOf(i) : 0 <= e[s] /\ e[s] <= there[s]
  BY <1>3, <1>4, <1>6, <1>10, <1>11, DrawnSum
<1>13. Total(e) = Total(pick)
  <2>1. \A s \in Sources : pick[s] = IF s \in SourcesOf(i) THEN e[s] ELSE 0
    BY <1>8, <1>10
  <2>2. QED
    BY <1>3, <1>5, <1>10, <2>1, TotalRestricted DEF Quantities
<1>14. Total(there) \in Int /\ Total(there) >= 0
  BY <1>3, <1>4, TotalType
<1>15. QED
  BY <1>1, <1>2, <1>4, <1>5, <1>8, <1>10, <1>12, <1>13, <1>14

\* putBack: what came back, no more into a batch than left it and hasn't come back.
LEMMA PutBackDraws ==
    ASSUME NEW out \in Quantities, NEW back \in Quantities, NEW qty \in Nat
    PROVE  LET put == PutBack(out, back, qty)
           IN  /\ Total(put) = qty
               /\ \A s \in Sources : put[s] >= 0
               /\ \A s \in Batches : put[s] <= AtLeast0(out[s] - back[s])
<1>1. PICK put : put = PutBack(out, back, qty)
  OBVIOUS
<1>2. PICK room : room = [s \in Sources |-> AtLeast0(out[s] - back[s])]
  OBVIOUS
<1>3. room \in [Sources -> Int] /\ \A s \in Sources : room[s] >= 0 /\ room[s] = AtLeast0(out[s] - back[s])
  BY <1>2 DEF AtLeast0, Quantities
<1>4. IsFiniteSet(Sources) /\ NoBatch \in Sources /\ NoBatch \notin Batches
  BY SourcesFinite, StockAssumption
<1>5. PICK into : into = [s \in Sources |-> Least(room[s], AtLeast0(qty - SumBefore(room, SoonerOnes, s)))]
  OBVIOUS
<1>6. Line(Sources, SoonerOnes)
  BY SourcesInLine
<1>7. into \in [Sources -> Int]
  <2>1. \A s \in Sources : SumBefore(room, SoonerOnes, s) \in Int
    BY <1>3, <1>4, <1>6, BeforeTyped DEF Line
  <2>2. QED
    BY <1>3, <1>5, <2>1 DEF Least, AtLeast0
<1>8. Drawn(into, room, qty, SoonerOnes, Sources)
  BY <1>5 DEF Drawn
<1>9. Total(into) = Least(Total(room), qty) /\ \A s \in Sources : 0 <= into[s] /\ into[s] <= room[s]
  BY <1>3, <1>4, <1>6, <1>7, <1>8, DrawnSum
<1>10. Total(room) \in Int /\ Total(into) \in Int
  BY <1>3, <1>4, <1>7, TotalType
<1>11. \A s \in Sources : SumBefore(room, SoonerOnes, s) = Total([t \in {u \in Sources : Sooner(u, s)} |-> AtLeast0(out[t] - back[t])])
  <2>1. ASSUME NEW s \in Sources
        PROVE  SumBefore(room, SoonerOnes, s) = Total([t \in {u \in Sources : Sooner(u, s)} |-> AtLeast0(out[t] - back[t])])
    <3>1. SoonerOnes[s] = {u \in Sources : Sooner(u, s)}
      BY DEF SoonerOnes
    <3>2. Part(room, SoonerOnes[s]) = [t \in {u \in Sources : Sooner(u, s)} |-> AtLeast0(out[t] - back[t])]
      BY <1>3, <3>1 DEF Part
    <3>3. QED
      BY <3>2 DEF SumBefore
  <2>2. QED
    BY <2>1
<1>12. put = [into EXCEPT ![NoBatch] = @ + qty - Total(into)]
  <2>1. into = [s \in Sources |-> Least(AtLeast0(out[s] - back[s]),
                  AtLeast0(qty - Total([t \in {u \in Sources : Sooner(u, s)} |-> AtLeast0(out[t] - back[t])])))]
    BY <1>3, <1>5, <1>11
  <2>2. QED
    BY <1>1, <2>1, Zenon DEF PutBack
<1>13. put \in [Sources -> Int] /\ put[NoBatch] = into[NoBatch] + qty - Total(into)
       /\ \A s \in Sources \ {NoBatch} : put[s] = into[s]
  BY <1>4, <1>7, <1>10, <1>12
<1>14. Total(put) = Total(into) - into[NoBatch] + put[NoBatch]
  BY <1>4, <1>7, <1>13, TotalChanged
<1>15. into[NoBatch] \in Int
  BY <1>4, <1>7
<1>16. Total(put) = qty
  BY <1>10, <1>13, <1>14, <1>15
<1>17. \A s \in Sources : put[s] >= 0
  BY <1>9, <1>10, <1>13, <1>15, <1>4 DEF Least
<1>18. \A s \in Batches : put[s] <= AtLeast0(out[s] - back[s])
  BY <1>3, <1>4, <1>9, <1>13 DEF Sources
<1>19. QED
  BY <1>1, <1>16, <1>17, <1>18


(***************************************************************************)
(* The shares of the lines of an item (splitOverShares).                   *)
(***************************************************************************)

\* The lines of an item, and what each of them wants.
LinesOf(lines, i) == {n \in DOMAIN lines : lines[n].item = i}
WantedBy(lines, i) == [n \in LinesOf(lines, i) |-> lines[n].qty]
Earlier(lines, i) == [n \in LinesOf(lines, i) |-> {k \in 1..(n-1) : lines[k].item = i}]

LEMMA LinesInLine ==
    ASSUME NEW lines \in Seq(Goods), NEW i
    PROVE  /\ IsFiniteSet(LinesOf(lines, i)) /\ LinesOf(lines, i) \subseteq DOMAIN lines
           /\ Line(LinesOf(lines, i), Earlier(lines, i))
           /\ WantedBy(lines, i) \in [LinesOf(lines, i) -> Int]
           /\ \A n \in LinesOf(lines, i) : WantedBy(lines, i)[n] > 0
           /\ Wanted(lines, i) = Total(WantedBy(lines, i))
           /\ Wanted(lines, i) \in Nat
<1>1. Len(lines) \in Nat /\ DOMAIN lines = 1..Len(lines) /\ \A n \in DOMAIN lines : lines[n].qty \in Positive
  BY LinesMoved
<1>2. IsFiniteSet(DOMAIN lines)
  <2>1. 1 \in Int /\ Len(lines) \in Int
    BY <1>1
  <2>2. IsFiniteSet(1..Len(lines))
    BY ONLY <2>1, FS_Interval
  <2>3. QED
    BY <1>1, <2>2
<1>3. IsFiniteSet(LinesOf(lines, i)) /\ LinesOf(lines, i) \subseteq DOMAIN lines
  BY <1>2, FS_Subset DEF LinesOf
<1>4. Line(LinesOf(lines, i), Earlier(lines, i))
  <2>1. \A n \in LinesOf(lines, i) : n \in Int /\ n >= 1 /\ n <= Len(lines)
    BY <1>1, <1>3
  <2>2. \A n \in LinesOf(lines, i) : Earlier(lines, i)[n] = {k \in LinesOf(lines, i) : k < n}
    BY <1>1, <2>1 DEF Earlier, LinesOf
  <2>3. Earlier(lines, i) \in [LinesOf(lines, i) -> SUBSET LinesOf(lines, i)]
    BY <2>2 DEF Earlier
  <2>4. \A m, n \in LinesOf(lines, i) : m \in Earlier(lines, i)[n] <=> m < n
    BY <2>2
  <2>5. \A m, n \in LinesOf(lines, i) : m \in Earlier(lines, i)[n] => Earlier(lines, i)[m] \subseteq Earlier(lines, i)[n]
    BY <2>1, <2>2
  <2>6. QED
    BY <2>1, <2>3, <2>4, <2>5 DEF Line
<1>5. WantedBy(lines, i) \in [LinesOf(lines, i) -> Int] /\ \A n \in LinesOf(lines, i) : WantedBy(lines, i)[n] > 0
  BY <1>1, <1>3 DEF WantedBy, Positive
<1>6. Wanted(lines, i) = Total(WantedBy(lines, i))
  BY DEF Wanted, WantedBy, LinesOf
<1>7. Wanted(lines, i) \in Int /\ Wanted(lines, i) >= 0
  BY <1>3, <1>5, <1>6, TotalType
<1>8. QED
  BY <1>3, <1>4, <1>5, <1>6, <1>7

\* Where in an item's units a line starts, and a source's share of them.
From(lines, n) == SumBefore(WantedBy(lines, lines[n].item), Earlier(lines, lines[n].item), n)
Start(pick, i, s, day) == SumBefore(Part(pick, SourcesOf(i)), PickedFirst(i, day), s)
\* The units a line gets of a source's share.
Common(from, upto, start, end) == AtLeast0(Least(upto, end) - (IF from > start THEN from ELSE start))
Shares(lines, n, pick, day) ==
    [s \in Sources |->
        IF s \in SourcesOf(lines[n].item)
        THEN Common(From(lines, n), From(lines, n) + lines[n].qty,
                    Start(pick, lines[n].item, s, day), Start(pick, lines[n].item, s, day) + pick[s])
        ELSE 0]

\* What is of one item is of its sources.
LEMMA TotalOverItem ==
    ASSUME NEW f \in Quantities, NEW i, \A s \in Sources : s \notin SourcesOf(i) => f[s] = 0
    PROVE  Total(Part(f, SourcesOf(i))) = Total(f) /\ Part(f, SourcesOf(i)) \in [SourcesOf(i) -> Int]
<1>1. SourcesOf(i) \in SUBSET Sources /\ IsFiniteSet(Sources)
  BY SourcesFinite
<1>2. PICK e : e = Part(f, SourcesOf(i))
  OBVIOUS
<1>3. e \in [SourcesOf(i) -> Int] /\ \A s \in Sources : f[s] = IF s \in SourcesOf(i) THEN e[s] ELSE 0
  BY <1>1, <1>2 DEF Part, Quantities
<1>4. Total(e) = Total(f)
  BY <1>1, <1>3, TotalRestricted DEF Quantities
<1>5. QED
  BY <1>2, <1>3, <1>4

\* What an operation picked of item i.
Picked(pick, i) ==
    /\ pick \in Quantities /\ \A s \in Sources : pick[s] >= 0
    /\ \A s \in Sources : s \notin SourcesOf(i) => pick[s] = 0

LEMMA StartsTyped ==
    ASSUME NEW i, NEW pick, Picked(pick, i), NEW day \in Int
    PROVE  /\ \A s \in SourcesOf(i) : Start(pick, i, s, day) \in Nat
           /\ Part(pick, SourcesOf(i)) \in [SourcesOf(i) -> Int]
           /\ Total(Part(pick, SourcesOf(i))) = Total(pick) /\ Total(pick) \in Nat
<1>1. SourcesOf(i) \in SUBSET Sources /\ IsFiniteSet(SourcesOf(i)) /\ IsFiniteSet(Sources)
  BY SourcesFinite
<1>2. PICK e : e = Part(pick, SourcesOf(i))
  OBVIOUS
<1>3. /\ e \in [SourcesOf(i) -> Int] /\ \A s \in SourcesOf(i) : e[s] >= 0
      /\ \A s \in Sources : pick[s] = IF s \in SourcesOf(i) THEN e[s] ELSE 0
  BY <1>1, <1>2 DEF Part, Picked, Quantities
<1>4. PickedFirst(i, day) \in [SourcesOf(i) -> SUBSET SourcesOf(i)]
  BY SourcesInLine DEF Line
<1>5. \A s \in SourcesOf(i) : SumBefore(e, PickedFirst(i, day), s) \in Int /\ SumBefore(e, PickedFirst(i, day), s) >= 0
  BY <1>1, <1>3, <1>4, BeforeTyped
<1>6. Total(e) = Total(pick)
  BY <1>1, <1>3, TotalRestricted DEF Picked, Quantities
<1>7. Total(pick) \in Int /\ Total(pick) >= 0
  BY <1>1, TotalType DEF Picked, Quantities
<1>8. QED
  BY <1>2, <1>3, <1>5, <1>6, <1>7 DEF Start

LEMMA FromTyped ==
    ASSUME NEW lines \in Seq(Goods), NEW n \in DOMAIN lines
    PROVE  /\ From(lines, n) \in Nat /\ lines[n].qty \in Nat /\ lines[n].qty > 0
           /\ n \in LinesOf(lines, lines[n].item)
<1>1. PICK i : i = lines[n].item
  OBVIOUS
<1>2. n \in LinesOf(lines, i)
  BY <1>1 DEF LinesOf
<1>3. /\ IsFiniteSet(LinesOf(lines, i)) /\ Earlier(lines, i) \in [LinesOf(lines, i) -> SUBSET LinesOf(lines, i)]
      /\ WantedBy(lines, i) \in [LinesOf(lines, i) -> Int] /\ \A m \in LinesOf(lines, i) : WantedBy(lines, i)[m] > 0
  BY LinesInLine DEF Line
<1>4. SumBefore(WantedBy(lines, i), Earlier(lines, i), n) \in Int
      /\ SumBefore(WantedBy(lines, i), Earlier(lines, i), n) >= 0
  BY <1>2, <1>3, BeforeTyped
<1>5. lines[n].qty \in Nat /\ lines[n].qty > 0
  <2>1. lines[n] \in Goods
    OBVIOUS
  <2>2. QED
    BY <2>1 DEF Goods, Positive
<1>6. QED
  BY <1>1, <1>2, <1>4, <1>5 DEF From

\* splitOverShares: a line's shares, and what they leave of it without a batch.
LEMMA SplitShares ==
    ASSUME NEW lines \in Seq(Goods), NEW n \in DOMAIN lines, NEW pick, Picked(pick, lines[n].item), NEW day \in Int
    PROVE  LET shares == Shares(lines, n, pick, day) IN
           /\ shares \in Quantities
           /\ SplitOverShares(lines, n, pick, day)
                = [s \in Sources |-> shares[s] + (IF s = NoBatch THEN lines[n].qty - Total(shares) ELSE 0)]
<1>1. PICK item : item = lines[n].item
  OBVIOUS
<1>2. PICK shares : shares = Shares(lines, n, pick, day)
  OBVIOUS
<1>3. PICK from : from = From(lines, n)
  OBVIOUS
<1>4. from \in Nat /\ lines[n].qty \in Nat /\ \A s \in SourcesOf(item) : Start(pick, item, s, day) \in Nat
  BY <1>1, <1>3, FromTyped, StartsTyped
<1>5. SourcesOf(item) \in SUBSET Sources /\ IsFiniteSet(SourcesOf(item)) /\ IsFiniteSet(Sources)
  BY SourcesFinite
<1>6. shares \in [Sources -> Int]
  <2>1. \A s \in SourcesOf(item) : pick[s] \in Int
    BY <1>5 DEF Picked, Quantities
  <2>2. QED
    BY <1>1, <1>2, <1>3, <1>4, <2>1 DEF Shares, Common, AtLeast0, Least
<1>7. from = Total([m \in {k \in 1..(n-1) : lines[k].item = item} |-> lines[m].qty])
  <2>1. n \in LinesOf(lines, item) /\ DOMAIN lines = 1..Len(lines) /\ Len(lines) \in Nat
    BY <1>1, FromTyped, LinesMoved
  <2>2. Earlier(lines, item)[n] = {k \in 1..(n-1) : lines[k].item = item}
    BY <2>1 DEF Earlier
  <2>3. \A k \in 1..(n-1) : k \in DOMAIN lines
    BY <2>1
  <2>4. Part(WantedBy(lines, item), Earlier(lines, item)[n]) = [m \in {k \in 1..(n-1) : lines[k].item = item} |-> lines[m].qty]
    BY <2>2, <2>3 DEF Part, WantedBy, LinesOf
  <2>5. QED
    BY <1>1, <1>3, <2>4 DEF From, SumBefore
<1>8. \A s \in SourcesOf(item) : Start(pick, item, s, day) = Total([t \in {u \in SourcesOf(item) : PickedBefore(u, s, day)} |-> pick[t]])
  <2>1. SUFFICES ASSUME NEW s \in SourcesOf(item)
                 PROVE  Start(pick, item, s, day) = Total([t \in {u \in SourcesOf(item) : PickedBefore(u, s, day)} |-> pick[t]])
    OBVIOUS
  <2>2. PickedFirst(item, day)[s] = {u \in SourcesOf(item) : PickedBefore(u, s, day)}
    BY DEF PickedFirst
  <2>3. Part(Part(pick, SourcesOf(item)), PickedFirst(item, day)[s])
           = [t \in {u \in SourcesOf(item) : PickedBefore(u, s, day)} |-> pick[t]]
    BY <2>2 DEF Part
  <2>4. QED
    BY <2>3 DEF Start, SumBefore
<1>10. \A s \in Sources : s \notin SourcesOf(item) => shares[s] = 0
  BY <1>1, <1>2 DEF Shares
<1>12. Total(Part(shares, SourcesOf(item))) = Total(shares)
  BY <1>6, <1>10, TotalOverItem DEF Quantities
<1> DEFINE start(s) == Total([t \in {u \in SourcesOf(item) : PickedBefore(u, s, day)} |-> pick[t]])
           part(s) == AtLeast0(Least(from + lines[n].qty, start(s) + pick[s]) - (IF from > start(s) THEN from ELSE start(s)))
<1>9. \A s \in SourcesOf(item) : shares[s] = part(s)
  BY <1>1, <1>2, <1>3, <1>5, <1>8 DEF Shares, Common
<1> HIDE DEF start
<1>11. [s \in SourcesOf(item) |-> part(s)] = Part(shares, SourcesOf(item))
  BY <1>9 DEF Part
<1>13. SplitOverShares(lines, n, pick, day)
         = [s \in Sources |-> (IF s \in SourcesOf(item) THEN part(s) ELSE 0)
                                + (IF s = NoBatch THEN lines[n].qty - Total([t \in SourcesOf(item) |-> part(t)]) ELSE 0)]
  BY <1>1, <1>7, Zenon DEF SplitOverShares, start
<1> HIDE DEF part
<1>14. \A s \in Sources : (IF s \in SourcesOf(item) THEN part(s) ELSE 0) = shares[s]
  BY <1>9, <1>10
<1>15. Total([t \in SourcesOf(item) |-> part(t)]) = Total(shares)
  BY <1>11, <1>12
<1>16. QED
  BY <1>1, <1>2, <1>6, <1>13, <1>14, <1>15 DEF Quantities


Clamp(x, low, high) == IF x < low THEN low ELSE IF x > high THEN high ELSE x

LEMMA PartClamps ==
    ASSUME NEW from \in Int, NEW upto \in Int, NEW start \in Int, NEW end \in Int, from <= upto, start <= end
    PROVE  /\ Common(from, upto, start, end) = Clamp(end, from, upto) - Clamp(start, from, upto)
           /\ Common(from, upto, start, end) = Clamp(upto, start, end) - Clamp(from, start, end)
           /\ Common(from, upto, start, end) \in Nat
           /\ start = end => Common(from, upto, start, end) = 0
BY DEF Common, Clamp, AtLeast0, Least

\* The shares of a line cover it as far as what was picked goes.
LEMMA SharesCover ==
    ASSUME NEW lines \in Seq(Goods), NEW n \in DOMAIN lines, NEW pick, Picked(pick, lines[n].item), NEW day \in Int
    PROVE  LET shares == Shares(lines, n, pick, day)
               from == From(lines, n)
           IN  /\ Total(shares) = Clamp(Total(pick), from, from + lines[n].qty) - from
               /\ \A s \in Sources : shares[s] \in Nat
               /\ \A s \in Sources : s \notin SourcesOf(lines[n].item) => shares[s] = 0
               /\ \A s \in Sources : pick[s] = 0 => shares[s] = 0
<1>1. PICK item : item = lines[n].item
  OBVIOUS
<1>2. PICK shares : shares = Shares(lines, n, pick, day)
  OBVIOUS
<1>3. PICK from, upto : from = From(lines, n) /\ upto = from + lines[n].qty
  OBVIOUS
<1>4. from \in Nat /\ upto \in Nat /\ from <= upto
  BY <1>3, FromTyped
<1>5. SourcesOf(item) \in SUBSET Sources /\ IsFiniteSet(SourcesOf(item))
  BY SourcesFinite
<1>6. PICK f : f = Part(pick, SourcesOf(item))
  OBVIOUS
<1>7. /\ f \in [SourcesOf(item) -> Int] /\ Total(f) = Total(pick) /\ Total(pick) \in Nat
      /\ \A s \in SourcesOf(item) : Start(pick, item, s, day) \in Nat
  BY <1>1, <1>6, StartsTyped
<1>8. \A s \in SourcesOf(item) : f[s] = pick[s] /\ pick[s] \in Int /\ pick[s] >= 0
  BY <1>5, <1>6 DEF Part, Picked, Quantities
<1>9. \A s \in SourcesOf(item) :
         shares[s] = Common(from, upto, Start(pick, item, s, day), Start(pick, item, s, day) + pick[s])
  BY <1>1, <1>2, <1>3, <1>5 DEF Shares
<1>10. \A s \in Sources : s \notin SourcesOf(item) => shares[s] = 0
  BY <1>1, <1>2 DEF Shares
<1>11. ASSUME NEW s \in SourcesOf(item)
       PROVE  /\ shares[s] = Clamp(Start(pick, item, s, day) + pick[s], from, upto) - Clamp(Start(pick, item, s, day), from, upto)
              /\ shares[s] \in Nat /\ (pick[s] = 0 => shares[s] = 0)
  <2>1. PICK start : start = Start(pick, item, s, day)
    OBVIOUS
  <2>2. start \in Int /\ start + pick[s] \in Int /\ start <= start + pick[s] /\ (pick[s] = 0 => start = start + pick[s])
    BY <1>7, <1>8, <2>1
  <2>3. PICK end : end = start + pick[s]
    OBVIOUS
  <2>4. /\ Common(from, upto, start, end) = Clamp(end, from, upto) - Clamp(start, from, upto)
        /\ Common(from, upto, start, end) \in Nat /\ (start = end => Common(from, upto, start, end) = 0)
    <3>1. from \in Int /\ upto \in Int /\ start \in Int /\ end \in Int /\ from <= upto /\ start <= end
      BY <1>4, <2>2, <2>3
    <3>2. Common(from, upto, start, end) = Clamp(end, from, upto) - Clamp(start, from, upto)
      BY <3>1, PartClamps
    <3>3. Common(from, upto, start, end) \in Nat
      BY <3>1, PartClamps
    <3>4. start = end => Common(from, upto, start, end) = 0
      BY <3>1, PartClamps
    <3>5. QED
      BY <3>2, <3>3, <3>4
  <2>5. shares[s] = Common(from, upto, start, end)
    BY <1>9, <2>1, <2>3
  <2>6. QED
    BY <2>1, <2>2, <2>3, <2>4, <2>5
<1>12. shares \in Quantities
  BY <1>2, SplitShares
<1>13. PICK e : e = Part(shares, SourcesOf(item))
  OBVIOUS
<1>14. e \in [SourcesOf(item) -> Int] /\ Total(e) = Total(shares) /\ \A s \in SourcesOf(item) : e[s] = shares[s]
  <2>1. Total(Part(shares, SourcesOf(item))) = Total(shares) /\ Part(shares, SourcesOf(item)) \in [SourcesOf(item) -> Int]
    BY <1>10, <1>12, TotalOverItem
  <2>2. \A s \in SourcesOf(item) : Part(shares, SourcesOf(item))[s] = shares[s]
    BY DEF Part
  <2>3. QED
    BY <1>13, <2>1, <2>2
<1>15. PICK G : G = [x \in Int |-> Clamp(x, from, upto)]
  OBVIOUS
<1>16. G \in [Int -> Int] /\ \A x \in Int : G[x] = Clamp(x, from, upto)
  BY <1>4, <1>15 DEF Clamp
<1>17. Gains(e, f, G, PickedFirst(item, day), SourcesOf(item))
  <2>1. SUFFICES ASSUME NEW s \in SourcesOf(item)
                 PROVE  e[s] = G[SumBefore(f, PickedFirst(item, day), s) + f[s]] - G[SumBefore(f, PickedFirst(item, day), s)]
    BY DEF Gains
  <2>2. PICK start : start = Start(pick, item, s, day)
    OBVIOUS
  <2>3. SumBefore(f, PickedFirst(item, day), s) = start /\ start \in Int /\ start + pick[s] \in Int /\ f[s] = pick[s]
    BY <1>6, <1>7, <1>8, <2>2 DEF Start
  <2>4. e[s] = Clamp(start + pick[s], from, upto) - Clamp(start, from, upto)
    BY <1>11, <1>14, <2>2
  <2>5. QED
    BY <1>16, <2>3, <2>4
<1>18. Line(SourcesOf(item), PickedFirst(item, day))
  BY SourcesInLine
<1>19. Total(e) = G[Total(f)] - G[0]
  BY <1>5, <1>7, <1>14, <1>16, <1>17, <1>18, Telescopes
<1>20. G[Total(f)] = Clamp(Total(pick), from, upto) /\ G[0] = from
  <2>1. Total(pick) \in Int /\ 0 \in Int
    BY <1>7
  <2>2. Clamp(0, from, upto) = from
    BY <1>4 DEF Clamp
  <2>3. QED
    BY <1>7, <1>16, <2>1, <2>2
<1>21. Total(shares) = Clamp(Total(pick), from, upto) - from
  BY <1>14, <1>19, <1>20
<1>22. \A s \in Sources : shares[s] \in Nat /\ (pick[s] = 0 => shares[s] = 0)
  BY <1>10, <1>11
<1>23. QED
  BY <1>1, <1>2, <1>3, <1>10, <1>21, <1>22

\* splitOverShares: what a line takes in all, and from where.
LEMMA SplitDraws ==
    ASSUME NEW lines \in Seq(Goods), NEW n \in DOMAIN lines, NEW pick, Picked(pick, lines[n].item), NEW day \in Int
    PROVE  LET split == SplitOverShares(lines, n, pick, day)
               shares == Shares(lines, n, pick, day)
           IN  /\ Picked(split, lines[n].item)
               /\ Total(split) = lines[n].qty
               /\ \A s \in Batches : split[s] = shares[s] /\ (pick[s] = 0 => split[s] = 0)
               /\ Total(pick) >= From(lines, n) + lines[n].qty => split = shares
<1>1. PICK shares, split : shares = Shares(lines, n, pick, day) /\ split = SplitOverShares(lines, n, pick, day)
  OBVIOUS
<1>2. PICK from, qty : from = From(lines, n) /\ qty = lines[n].qty
  OBVIOUS
<1>3. from \in Nat /\ qty \in Nat
  BY <1>2, FromTyped
<1>4. /\ Total(shares) = Clamp(Total(pick), from, from + qty) - from
      /\ \A s \in Sources : shares[s] \in Nat /\ (s \notin SourcesOf(lines[n].item) => shares[s] = 0)
                            /\ (pick[s] = 0 => shares[s] = 0)
  BY <1>1, <1>2, SharesCover
<1>5. Total(pick) \in Nat
  BY StartsTyped
<1>6. /\ Total(shares) \in Int /\ Total(shares) <= qty
      /\ Total(pick) >= from + qty => Total(shares) = qty
  BY <1>3, <1>4, <1>5 DEF Clamp
<1>7. /\ shares \in [Sources -> Int]
      /\ split = [s \in Sources |-> shares[s] + (IF s = NoBatch THEN qty - Total(shares) ELSE 0)]
  <2>1. Shares(lines, n, pick, day) \in Quantities
    BY SplitShares
  <2>2. SplitOverShares(lines, n, pick, day)
          = [s \in Sources |-> Shares(lines, n, pick, day)[s]
                                 + (IF s = NoBatch THEN lines[n].qty - Total(Shares(lines, n, pick, day)) ELSE 0)]
    BY ONLY SplitShares, lines \in Seq(Goods), n \in DOMAIN lines, Picked(pick, lines[n].item), day \in Int
  <2>3. shares \in [Sources -> Int]
    BY <1>1, <2>1 DEF Quantities
  <2>4. QED
    BY <1>1, <1>2, <2>2, <2>3
<1>8. IsFiniteSet(Sources) /\ NoBatch \in Sources /\ NoBatch \in SourcesOf(lines[n].item) /\ NoBatch \notin Batches /\ Batches \subseteq Sources
  BY SourcesFinite, StockAssumption DEF Sources, SourcesOf
<1>9. PICK more : more = qty - Total(shares)
  OBVIOUS
<1>10. more \in Int /\ more >= 0 /\ (Total(pick) >= from + qty => more = 0)
  BY <1>3, <1>6, <1>9
<1>11. /\ split \in [Sources -> Int] /\ split[NoBatch] = shares[NoBatch] + more
       /\ \A s \in Sources \ {NoBatch} : shares[s] = split[s]
  BY <1>7, <1>8, <1>9, <1>10
<1>12. Total(split) = Total(shares) - shares[NoBatch] + split[NoBatch]
  BY <1>7, <1>8, <1>11, TotalChanged
<1>13. shares[NoBatch] \in Nat
  BY <1>4, <1>8
<1>14. Total(split) = qty
  BY <1>3, <1>6, <1>9, <1>11, <1>12, <1>13
<1>15. \A s \in Sources : split[s] >= 0 /\ (s \notin SourcesOf(lines[n].item) => split[s] = 0)
  BY <1>4, <1>8, <1>10, <1>11, <1>13
<1>16. \A s \in Batches : split[s] = shares[s] /\ (pick[s] = 0 => split[s] = 0)
  BY <1>4, <1>8, <1>11
<1>17. Total(pick) >= from + qty => split = shares
  <2>1. SUFFICES ASSUME Total(pick) >= from + qty
                 PROVE  split = shares
    OBVIOUS
  <2>2. \A s \in Sources : split[s] = shares[s]
    BY <1>10, <1>11, <1>13, <2>1
  <2>3. QED
    BY <1>7, <1>11, <2>2
<1>18. QED
  BY <1>1, <1>2, <1>11, <1>14, <1>15, <1>16, <1>17 DEF Picked, Quantities

\* What all lines of an item get of a source is no more than was picked from it.
LEMMA SharesInAll ==
    ASSUME NEW lines \in Seq(Goods), NEW i, NEW pick, Picked(pick, i), NEW day \in Int, NEW s \in SourcesOf(i),
           NEW e \in [LinesOf(lines, i) -> Int], \A n \in LinesOf(lines, i) : e[n] = Shares(lines, n, pick, day)[s]
    PROVE  Total(e) <= pick[s]
<1>1. PICK start : start = Start(pick, i, s, day)
  OBVIOUS
<1>2. s \in Sources /\ pick[s] \in Nat /\ start \in Nat
  <2>1. s \in Sources
    BY SourcesFinite
  <2>2. pick[s] \in Nat
    BY <2>1 DEF Picked, Quantities
  <2>3. start \in Nat
    BY <1>1, StartsTyped
  <2>4. QED
    BY <2>1, <2>2, <2>3
<1>3. PICK end : end = start + pick[s]
  OBVIOUS
<1>4. end \in Nat /\ start <= end
  BY <1>2, <1>3
<1>5. PICK N, f, below : N = LinesOf(lines, i) /\ f = WantedBy(lines, i) /\ below = Earlier(lines, i)
  OBVIOUS
<1>6. IsFiniteSet(N) /\ Line(N, below) /\ f \in [N -> Int] /\ \A n \in N : f[n] > 0
  BY <1>5, LinesInLine
<1>7. PICK G : G = [x \in Int |-> Clamp(x, start, end)]
  OBVIOUS
<1>8. G \in [Int -> Int] /\ \A x \in Int : G[x] = Clamp(x, start, end)
  BY <1>2, <1>4, <1>7 DEF Clamp
<1>9. Gains(e, f, G, below, N)
  <2>1. SUFFICES ASSUME NEW n \in N
                 PROVE  e[n] = G[SumBefore(f, below, n) + f[n]] - G[SumBefore(f, below, n)]
    BY DEF Gains
  <2>2. n \in DOMAIN lines /\ lines[n].item = i /\ f[n] = lines[n].qty
    BY <1>5 DEF LinesOf, WantedBy
  <2>3. PICK from : from = From(lines, n)
    OBVIOUS
  <2>4. from = SumBefore(f, below, n) /\ from \in Nat /\ f[n] \in Nat
    BY <1>5, <2>2, <2>3, FromTyped DEF From
  <2>5. PICK upto : upto = from + f[n]
    OBVIOUS
  <2>6. upto \in Int /\ from <= upto
    BY <2>4, <2>5
  <2>7. Shares(lines, n, pick, day)[s] = Common(from, upto, start, end)
    BY <1>1, <1>2, <1>3, <2>2, <2>3, <2>5 DEF Shares
  <2>8. Common(from, upto, start, end) = Clamp(upto, start, end) - Clamp(from, start, end)
    BY <1>2, <1>4, <2>4, <2>6, PartClamps
  <2>9. G[upto] = Clamp(upto, start, end) /\ G[from] = Clamp(from, start, end)
    BY <1>8, <2>4, <2>6
  <2>10. e[n] = Shares(lines, n, pick, day)[s]
    BY <1>5
  <2>11. QED
    BY <2>4, <2>5, <2>7, <2>8, <2>9, <2>10
<1>10. Total(e) = G[Total(f)] - G[0]
  BY <1>5, <1>6, <1>8, <1>9, Telescopes
<1>11. Total(f) \in Int
  BY <1>6, TotalType
<1>12. G[Total(f)] <= end /\ G[0] = start /\ G[Total(f)] \in Int
  <2>1. G[Total(f)] = Clamp(Total(f), start, end) /\ G[0] = Clamp(0, start, end)
    BY <1>8, <1>11
  <2>2. QED
    BY <1>2, <1>4, <1>11, <2>1 DEF Clamp
<1>13. QED
  BY <1>2, <1>3, <1>10, <1>12


(***************************************************************************)
(* What operations move, line by line.                                     *)
(***************************************************************************)

LEMMA WholeSum ==
    ASSUME NEW qty \in Nat, NEW s \in Sources
    PROVE  /\ Whole(qty, s) \in Quantities /\ Total(Whole(qty, s)) = qty
           /\ \A t \in Sources : Whole(qty, s)[t] = IF t = s THEN qty ELSE 0
<1>1. Whole(qty, s) \in Quantities
  BY WholeTyped
<1>2. \A t \in Sources : Whole(qty, s)[t] = IF t = s THEN qty ELSE 0
  BY DEF Whole, Nothing
<1>3. Nothing \in [Sources -> Int] /\ \A t \in Sources : Nothing[t] = 0
  BY DEF Nothing
<1>4. Total(Nothing) = 0
  BY <1>3, SourcesFinite, TotalOfNone
<1>5. Total(Whole(qty, s)) = Total(Nothing) - Nothing[s] + Whole(qty, s)[s]
  <2>1. PICK w : w = Whole(qty, s)
    OBVIOUS
  <2>2. w \in [Sources -> Int] /\ \A t \in Sources \ {s} : Nothing[t] = w[t]
    BY <1>1, <1>2, <1>3, <2>1 DEF Quantities
  <2>3. Total(w) = Total(Nothing) - Nothing[s] + w[s]
    BY <1>3, <2>2, SourcesFinite, TotalChanged
  <2>4. QED
    BY <2>1, <2>3
<1>6. QED
  BY <1>1, <1>2, <1>3, <1>4, <1>5

\* Stock there is of each source, and not short.
AllThere(lots, i) == \A s \in SourcesOf(i) : lots[s] >= 0

\* takeFromBatches: what it takes, it takes from what is there; all that is wanted, unless selling past the count.
LEMMA TakeDraws ==
    ASSUME TypeOK, NEW b \in Branches, NEW i \in Items, NEW qty \in Nat, NEW day \in Int, NEW short, NEW all,
           NEW pick \in TakeFromBatches(b, i, qty, day, short, all)
    PROVE  /\ Picked(pick, i) /\ Total(pick) \in Nat /\ Total(pick) <= qty
           /\ ~short => Total(pick) = qty
           /\ \A s \in SourcesOf(i) : pick[s] <= AtLeast0(Lots(b, i)[s])
           /\ ~all => \A s \in Sources : Expired(s, day) => pick[s] = 0
           /\ ~all /\ AllThere(Lots(b, i), i) /\ qty <= Total(Lots(b, i)) => Total(pick) = qty
<1>1. PICK lots : lots = Lots(b, i)
  OBVIOUS
<1>2. lots \in [SourcesOf(i) -> Int] /\ DOMAIN lots = SourcesOf(i)
  BY <1>1, LotsTyped
<1>3. SourcesOf(i) \in SUBSET Sources /\ IsFiniteSet(SourcesOf(i)) /\ IsFiniteSet(Sources)
  BY SourcesFinite
<1>4. PICK expired : expired = IF all THEN 0 ELSE Total([s \in {t \in DOMAIN lots : Expired(t, day)} |-> AtLeast0(lots[s])])
  OBVIOUS
<1>5. /\ pick = Pick(lots, qty, day, all)
      /\ qty - Total(pick) > 0 => short /\ ~(expired > 0 /\ qty - Total(pick) <= expired)
  BY <1>1, <1>4 DEF TakeFromBatches
<1>6. PICK there : there = There(lots, day, all)
  OBVIOUS
<1>7. /\ pick \in Quantities /\ there \in [SourcesOf(i) -> Int]
      /\ Total(pick) = Least(Total(there), qty)
      /\ Total(there) \in Int /\ Total(there) >= 0
      /\ \A s \in SourcesOf(i) : 0 <= pick[s] /\ pick[s] <= there[s]
      /\ \A s \in Sources : s \notin SourcesOf(i) => pick[s] = 0
  BY <1>2, <1>5, <1>6, PickDraws
<1>8. \A s \in SourcesOf(i) : there[s] = IF Expired(s, day) /\ ~all THEN 0 ELSE AtLeast0(lots[s])
  BY <1>2, <1>6 DEF There
<1>9. \A s \in SourcesOf(i) : pick[s] \in Int /\ lots[s] \in Int
  BY <1>2, <1>3, <1>7 DEF Quantities
<1>10. Picked(pick, i)
  BY <1>7 DEF Picked
<1>11. Total(pick) \in Nat /\ Total(pick) <= qty /\ (~short => Total(pick) = qty)
  BY <1>5, <1>7 DEF Least
<1>12. \A s \in SourcesOf(i) : pick[s] <= AtLeast0(lots[s])
  BY <1>7, <1>8, <1>9 DEF AtLeast0
<1>13. ~all => \A s \in Sources : Expired(s, day) => pick[s] = 0
  BY <1>7, <1>8, <1>9
<1>14. ASSUME ~all, AllThere(lots, i), qty <= Total(lots)
       PROVE  Total(pick) = qty
  <2>1. PICK T, f, e : /\ T = {t \in SourcesOf(i) : Expired(t, day)} /\ f = [s \in T |-> AtLeast0(lots[s])]
                       /\ e = [s \in SourcesOf(i) |-> IF Expired(s, day) THEN AtLeast0(lots[s]) ELSE 0]
    OBVIOUS
  <2>2. T \in SUBSET SourcesOf(i) /\ f \in [T -> Int] /\ e \in [SourcesOf(i) -> Int]
    BY <1>9, <2>1 DEF AtLeast0
  <2>3. \A s \in SourcesOf(i) : e[s] = IF s \in T THEN f[s] ELSE 0
    BY <2>1
  <2>4. Total(f) = Total(e)
    BY <1>3, <2>2, <2>3, TotalRestricted
  <2>5. expired = Total(e)
    BY <1>2, <1>4, <1>14, <2>1, <2>4
  <2>6. \A s \in SourcesOf(i) : lots[s] = there[s] + e[s]
    BY <1>8, <1>9, <1>14, <2>1 DEF AllThere, AtLeast0
  <2>7. Total(lots) = Total(there) + Total(e)
    BY <1>2, <1>3, <1>7, <2>2, <2>6, TotalPlus
  <2>8. Total(e) \in Int
    BY <1>3, <2>2, TotalType
  <2>9. Total(lots) \in Int
    BY <1>2, <1>3, TotalType
  <2>10. QED
    BY <1>5, <1>7, <1>14, <2>5, <2>7, <2>8, <2>9 DEF Least
<1>15. QED
  BY <1>1, <1>10, <1>11, <1>12, <1>13, <1>14

\* Nothing of it is out of date.
NoneExpired(pick, day) == \A s \in Batches : Expired(s, day) => pick[s] = 0

\* What a sale or a transfer takes of an item.
LEMMA TakenOfDraws ==
    ASSUME TypeOK, NEW op, op \in SaleOps \/ op \in TransferOps, NEW i \in Items, NEW day \in Int, NEW kept, NEW short,
           NEW pick \in TakenOf(op, i, day, kept, short)
    PROVE  /\ Picked(pick, i)
           /\ NoneExpired(pick, day)
           /\ i \notin kept => pick = Whole(Wanted(op.lines, i), NoBatch)
           /\ i \in kept => pick \in TakeFromBatches(op.branch, i, Wanted(op.lines, i), day, short, FALSE)
           /\ ~short => onHand[<<op.branch, i>>] >= Wanted(op.lines, i) /\ Total(pick) = Wanted(op.lines, i)
<1>1. op.lines \in Seq(Goods) /\ op.branch \in Branches
  BY DEF SaleOps, TransferOps
<1>2. PICK want : want = Wanted(op.lines, i)
  OBVIOUS
<1>3. want \in Nat
  BY <1>1, <1>2, LinesInLine
<1>4. onHand[<<op.branch, i>>] \in Int
  BY <1>1 DEF TypeOK
<1>5. ~short => onHand[<<op.branch, i>>] >= want
  <2>1. ~short /\ onHand[<<op.branch, i>>] < want => TakenOf(op, i, day, kept, short) = {}
    BY <1>2 DEF TakenOf
  <2>2. QED
    BY <1>3, <1>4, <2>1
<1>6. NoBatch \in Sources /\ NoBatch \in SourcesOf(i) /\ NoBatch \notin Batches /\ Batches \subseteq Sources
  BY StockAssumption DEF Sources, SourcesOf
<1>7. CASE i \in kept
  <2>1. pick \in TakeFromBatches(op.branch, i, want, day, short, FALSE)
    BY <1>2, <1>7 DEF TakenOf
  <2>2. /\ Picked(pick, i) /\ (~short => Total(pick) = want)
        /\ \A s \in Sources : Expired(s, day) => pick[s] = 0
    <3>1. PICK all : all = FALSE
      OBVIOUS
    <3>2. pick \in TakeFromBatches(op.branch, i, want, day, short, all)
      BY <2>1, <3>1
    <3>3. Picked(pick, i)
      BY <1>1, <1>3, <3>2, TakeDraws
    <3>4. ~short => Total(pick) = want
      BY <1>1, <1>3, <3>2, TakeDraws
    <3>5. ~all => \A s \in Sources : Expired(s, day) => pick[s] = 0
      BY <1>1, <1>3, <3>2, TakeDraws
    <3>6. QED
      BY <3>1, <3>3, <3>4, <3>5
  <2>3. QED
    BY <1>2, <1>5, <1>6, <1>7, <2>1, <2>2 DEF NoneExpired
<1>8. CASE i \notin kept
  <2>1. pick = Whole(want, NoBatch)
    BY <1>2, <1>8 DEF TakenOf
  <2>2. /\ pick \in Quantities /\ Total(pick) = want
        /\ \A t \in Sources : pick[t] = IF t = NoBatch THEN want ELSE 0
    BY <1>3, <1>6, <2>1, WholeSum
  <2>3. Picked(pick, i)
    BY <1>3, <1>6, <2>2 DEF Picked
  <2>4. QED
    BY <1>2, <1>5, <1>6, <1>8, <2>1, <2>2, <2>3 DEF NoneExpired
<1>9. QED
  BY <1>7, <1>8


(***************************************************************************)
(* What an operation moves is what was asked for, of its items.            *)
(***************************************************************************)

\* One source of an item.
LEMMA WholePicked ==
    ASSUME NEW qty \in Nat, NEW i, NEW s \in SourcesOf(i)
    PROVE  Picked(Whole(qty, s), i) /\ Total(Whole(qty, s)) = qty
<1>1. s \in Sources
  BY SourcesFinite
<1>2. PICK w : w = Whole(qty, s)
  OBVIOUS
<1>3. w \in Quantities /\ Total(w) = qty /\ \A t \in Sources : w[t] = IF t = s THEN qty ELSE 0
  BY <1>1, <1>2, WholeSum
<1>4. Picked(w, i)
  BY <1>3 DEF Picked
<1>5. QED
  BY <1>2, <1>3, <1>4

\* A sale or a transfer picks goods of each of its items, and splits them over its lines.
LEMMA TakenOutPicks ==
    ASSUME NEW op, op \in SaleOps \/ op \in TransferOps, NEW day, NEW kept, NEW short,
           NEW took \in TakenOut(op, day, kept, short)
    PROVE  \E picks : \A n \in DOMAIN op.lines :
              /\ picks[op.lines[n].item] \in TakenOf(op, op.lines[n].item, day, kept, short)
              /\ took[n] = SplitOverShares(op.lines, n, picks[op.lines[n].item], day)
<1> DEFINE all == [i \in ItemsOf(op.lines) |-> TakenOf(op, i, day, kept, short)]
<1>1. PICK take \in {all} :
         /\ \A i \in DOMAIN take : take[i] # {}
         /\ took = [n \in DOMAIN op.lines |->
                      SplitOverShares(op.lines, n, CHOOSE pick \in take[op.lines[n].item] : TRUE, day)]
  BY DEF TakenOut
<1> DEFINE picks == [i \in ItemsOf(op.lines) |-> CHOOSE p \in take[i] : TRUE]
<1>2. ASSUME NEW n \in DOMAIN op.lines
      PROVE  /\ picks[op.lines[n].item] \in TakenOf(op, op.lines[n].item, day, kept, short)
             /\ picks[op.lines[n].item] = CHOOSE p \in take[op.lines[n].item] : TRUE
  <2>1. op.lines[n].item \in ItemsOf(op.lines)
    BY DEF ItemsOf
  <2>2. take[op.lines[n].item] # {} /\ take[op.lines[n].item] = TakenOf(op, op.lines[n].item, day, kept, short)
    BY <1>1, <2>1
  <2>3. picks[op.lines[n].item] = CHOOSE p \in take[op.lines[n].item] : TRUE
    BY <2>1
  <2> HIDE DEF picks
  <2>4. QED
    BY <2>2, <2>3
<1> HIDE DEF all, picks
<1>3. ASSUME NEW n \in DOMAIN op.lines
      PROVE  took[n] = SplitOverShares(op.lines, n, picks[op.lines[n].item], day)
  BY <1>1, <1>2
<1>4. QED
  BY <1>2, <1>3

LEMMA SplitSound ==
    ASSUME NEW lines \in Seq(Goods), NEW n \in DOMAIN lines, NEW pick, Picked(pick, lines[n].item), NEW day \in Int,
           NoneExpired(pick, day), NEW split, split = SplitOverShares(lines, n, pick, day)
    PROVE  Picked(split, lines[n].item) /\ Total(split) = lines[n].qty /\ NoneExpired(split, day)
<1>1. Picked(split, lines[n].item)
  BY SplitDraws
<1>2. Total(split) = lines[n].qty
  BY SplitDraws
<1>3. \A s \in Batches : pick[s] = 0 => split[s] = 0
  BY SplitDraws
<1>4. QED
  BY <1>1, <1>2, <1>3 DEF NoneExpired

LEMMA TakenOutDraws ==
    ASSUME TypeOK, NEW op, op \in SaleOps \/ op \in TransferOps, NEW day \in Int, NEW kept, NEW short,
           NEW took \in TakenOut(op, day, kept, short), NEW n \in DOMAIN op.lines
    PROVE  Picked(took[n], op.lines[n].item) /\ Total(took[n]) = op.lines[n].qty
           /\ NoneExpired(took[n], day)
<1>1. op.lines \in Seq(Goods)
  BY DEF SaleOps, TransferOps
<1>2. op.lines[n].item \in Items
  BY <1>1, LinesMoved
<1>3. PICK picks : \A m \in DOMAIN op.lines :
              /\ picks[op.lines[m].item] \in TakenOf(op, op.lines[m].item, day, kept, short)
              /\ took[m] = SplitOverShares(op.lines, m, picks[op.lines[m].item], day)
  BY TakenOutPicks
<1>4. PICK pick : pick = picks[op.lines[n].item]
  OBVIOUS
<1>5. pick \in TakenOf(op, op.lines[n].item, day, kept, short) /\ took[n] = SplitOverShares(op.lines, n, pick, day)
  BY <1>3, <1>4
<1>6. Picked(pick, op.lines[n].item) /\ NoneExpired(pick, day)
  BY <1>2, <1>5, TakenOfDraws
<1>7. Picked(took[n], op.lines[n].item) /\ Total(took[n]) = op.lines[n].qty /\ NoneExpired(took[n], day)
  BY <1>1, <1>5, <1>6, SplitSound
<1>8. QED
  BY <1>7

\* A line of a document: what it sent out or took in, and what came back of it.
LineKept(x, n) ==
    /\ Picked(x.out[n], x.lines[n].item) /\ Total(x.out[n]) = x.lines[n].qty
    /\ Picked(x.back[n], x.lines[n].item) /\ Total(x.back[n]) <= x.lines[n].qty
    /\ \A s \in Batches : x.back[n][s] <= x.out[n][s]
    /\ x.state \in {"draft", "open"} => x.back[n] = Nothing
    /\ x.kind \in {"sale", "transfer"} => \A s \in Batches : x.out[n][s] > 0 => Expiry[s] >= x.day
DocsKept == \A d \in Documents : Made(d) => \A n \in DOMAIN docs[d].lines : LineKept(docs[d], n)

\* What an operation is of, line by line.
LineQty(op, n) ==
    IF op.kind \in {"opening", "reopening", "adjustIn", "adjustOut", "return", "sendBack"} THEN op.qty
    ELSE IF op.kind \in {"sale", "transfer", "purchase"} THEN op.lines[n].qty
    ELSE docs[op.doc].lines[n].qty
\* It moves that much, of the item's stock.
Sound(op, took) ==
    /\ Fits(op, took)
    /\ \A n \in DOMAIN took : Picked(took[n], ItemsMoved(op)[n]) /\ Total(took[n]) = LineQty(op, n)

LEMMA CountSound ==
    ASSUME BookInv, NEW op \in Ops, IsCount(op), NEW day \in Int, NEW kept, NEW took \in Outcome(op, day, kept)
    PROVE  \E q : took = <<q>> /\ Picked(q, op.item) /\ Total(q) = op.qty
<1>1. op \in CountOps
  BY OpKinds DEF IsCount
<1>2. op.qty \in Nat /\ op.item \in Items /\ op.branch \in Branches /\ NoBatch \in SourcesOf(op.item) /\ op.batch \in SourcesOf(op.item)
  BY <1>1 DEF CountOps, Positive, SourcesOf, BatchFits, Sources
<1>3. ASSUME NEW s \in SourcesOf(op.item), took = <<Whole(op.qty, s)>>
      PROVE  \E q : took = <<q>> /\ Picked(q, op.item) /\ Total(q) = op.qty
  BY <1>2, <1>3, WholePicked
<1>4. CASE op.kind \in {"opening", "adjustIn"}
  <2>1. took = <<Whole(op.qty, Into(op, kept))>>
    BY <1>4 DEF Outcome
  <2>2. Into(op, kept) \in SourcesOf(op.item)
    BY <1>1, IntoTyped
  <2>3. QED
    BY <1>3, <2>1, <2>2
<1>5. CASE op.kind = "reopening"
  <2>1. PICK s \in Openings(op, kept) : took = <<Whole(op.qty, s)>>
    BY <1>5 DEF Outcome
  <2>2. s \in SourcesOf(op.item)
    BY <1>2, <2>1 DEF Openings, BookInv, OpeningsKept
  <2>3. QED
    BY <1>3, <2>1, <2>2
<1>6. CASE op.kind = "adjustOut"
  <2>1. took \in AdjustedOut(op, day, kept)
    BY <1>6 DEF Outcome
  <2>2. CASE took = <<Whole(op.qty, NoBatch)>> \/ took = <<Whole(op.qty, op.batch)>>
    BY <1>2, <1>3, <2>2
  <2>3. CASE \E pick \in TakeFromBatches(op.branch, op.item, op.qty, day, FALSE, TRUE) : took = <<pick>>
    <3>1. PICK pick \in TakeFromBatches(op.branch, op.item, op.qty, day, FALSE, TRUE) : took = <<pick>>
      BY <2>3
    <3>2. PICK short, all : short = FALSE /\ all = TRUE
      OBVIOUS
    <3>3. pick \in TakeFromBatches(op.branch, op.item, op.qty, day, short, all)
      BY <3>1, <3>2
    <3>4. Picked(pick, op.item) /\ (~short => Total(pick) = op.qty)
      BY <1>2, <3>3, TakeDraws DEF BookInv
    <3>5. QED
      BY <3>1, <3>2, <3>4
  <2>4. QED
    BY <2>1, <2>2, <2>3 DEF AdjustedOut
<1>7. QED
  BY <1>1, <1>4, <1>5, <1>6 DEF CountOps

LEMMA OutcomeSound ==
    ASSUME BookInv, DocsKept, NEW op \in Ops, Possible(op), NEW day \in Int, NEW kept, NEW took \in Outcome(op, day, kept)
    PROVE  Sound(op, took)
<1>0. TypeOK /\ Found(op) /\ Fits(op, took)
  BY OutcomeFitsOp DEF BookInv, Found
<1>1. DOMAIN took = DOMAIN ItemsMoved(op)
  BY <1>0 DEF Fits
<1>2. CASE IsCount(op)
  <2>1. PICK q : took = <<q>> /\ Picked(q, op.item) /\ Total(q) = op.qty
    BY <1>2, CountSound
  <2>2. ItemsMoved(op) = <<op.item>> /\ \A n : LineQty(op, n) = op.qty
    BY <1>2 DEF ItemsMoved, IsCount, LineQty
  <2>3. QED
    BY <1>0, <2>1, <2>2 DEF Sound
<1>3. CASE op.kind \in {"sale", "transfer"}
  <2>1. op \in SaleOps \/ op \in TransferOps
    BY <1>3, OpKinds
  <2>2. PICK short : took \in TakenOut(op, day, kept, short)
    BY <1>3 DEF Outcome
  <2>3. DOMAIN took = DOMAIN op.lines /\ \A n \in DOMAIN op.lines : ItemsMoved(op)[n] = op.lines[n].item /\ LineQty(op, n) = op.lines[n].qty
    BY <1>1, <1>3 DEF ItemsMoved, LineQty
  <2>4. \A n \in DOMAIN op.lines : Picked(took[n], op.lines[n].item) /\ Total(took[n]) = op.lines[n].qty
    BY <1>0, <2>1, <2>2, TakenOutDraws
  <2>5. QED
    BY <1>0, <2>3, <2>4 DEF Sound
<1>4. CASE op.kind = "purchase"
  <2>1. took \in Bought(op, kept) /\ op \in PurchaseOps
    BY <1>4, OpKinds DEF Outcome
  <2>2. took = [n \in DOMAIN op.lines |-> Whole(op.lines[n].qty, Into(op.lines[n], kept))]
    BY <2>1, BoughtTyped
  <2>3. op.lines \in Seq(GoodsIn)
    BY <2>1 DEF PurchaseOps
  <2>4. \A n \in DOMAIN op.lines : op.lines[n] \in GoodsIn
    BY <2>3
  <2>5. \A n \in DOMAIN op.lines : op.lines[n].qty \in Nat /\ Into(op.lines[n], kept) \in SourcesOf(op.lines[n].item)
    BY <2>4, IntoTyped DEF GoodsIn, Positive
  <2>6. \A n \in DOMAIN op.lines : Picked(took[n], op.lines[n].item) /\ Total(took[n]) = op.lines[n].qty
    BY <2>2, <2>5, WholePicked
  <2>7. \A n \in DOMAIN op.lines : ItemsMoved(op)[n] = op.lines[n].item /\ LineQty(op, n) = op.lines[n].qty
    BY <1>4 DEF ItemsMoved, LineQty
  <2>8. QED
    BY <1>0, <2>2, <2>6, <2>7 DEF Sound
<1>5. CASE op.kind = "sendBack"
  <2>1. took \in SentBack(op) /\ op \in LineOps
    BY <1>5, OpKinds DEF Outcome
  <2>2. took = <<Whole(op.qty, CameInto(docs[op.doc], op.line))>>
    BY <2>1 DEF SentBack
  <2>3. CameInto(docs[op.doc], op.line) \in SourcesOf(docs[op.doc].lines[op.line].item) /\ op.qty \in Nat
    BY <1>0, <1>5, <2>1, SentFrom DEF LineOps, Positive, BookInv
  <2>4. ItemsMoved(op) = <<docs[op.doc].lines[op.line].item>> /\ \A n : LineQty(op, n) = op.qty
    BY <1>5 DEF ItemsMoved, LineQty
  <2>5. PICK q : q = Whole(op.qty, CameInto(docs[op.doc], op.line))
    OBVIOUS
  <2>6. Picked(q, docs[op.doc].lines[op.line].item) /\ Total(q) = op.qty
    BY <2>3, <2>5, WholePicked
  <2>7. QED
    BY <1>0, <2>2, <2>4, <2>5, <2>6 DEF Sound
<1>6. CASE op.kind = "return"
  <2>1. PICK out, back, q : /\ out = docs[op.doc].out[op.line] /\ back = docs[op.doc].back[op.line]
                            /\ q = PutBack(out, back, op.qty)
    OBVIOUS
  <2>2. took = <<q>> /\ op.qty \in Nat
    BY <1>6, <2>1, OpKinds DEF Outcome, LineOps, Positive
  <2>3. Is(op.doc, "sale") /\ op.line \in DOMAIN docs[op.doc].lines /\ op.doc \in Documents
    BY <1>0, <1>6, FoundDoc DEF OnDocument, Possible
  <2>4. LineKept(docs[op.doc], op.line)
    BY <2>3 DEF DocsKept, Is
  <2>5. PICK i : i = docs[op.doc].lines[op.line].item
    OBVIOUS
  <2>6. Picked(out, i) /\ Picked(back, i)
    BY <2>1, <2>4, <2>5 DEF LineKept
  <2>7. out \in Quantities /\ back \in Quantities
    BY <2>6 DEF Picked
  <2>8. /\ Total(q) = op.qty /\ \A s \in Sources : q[s] >= 0
        /\ \A s \in Batches : q[s] <= AtLeast0(out[s] - back[s])
    BY <2>1, <2>2, <2>7, PutBackDraws
  <2>9. q \in Quantities
    <3>1. op.qty \in Int
      BY <2>2
    <3>2. QED
      BY <2>1, <2>7, <3>1, PutBackTyped
  <2>10. \A s \in Sources : s \notin SourcesOf(i) => s \in Batches /\ out[s] = 0 /\ back[s] = 0
    BY <2>6 DEF Picked, SourcesOf, Sources
  <2>11. \A s \in Sources : s \notin SourcesOf(i) => q[s] = 0
    <3>1. \A s \in Sources : q[s] \in Int
      BY <2>9 DEF Quantities
    <3>2. QED
      BY <2>8, <2>10, <3>1 DEF AtLeast0
  <2>12. Picked(q, i)
    BY <2>8, <2>9, <2>11 DEF Picked
  <2>13. ItemsMoved(op) = <<i>> /\ \A n : LineQty(op, n) = op.qty
    BY <1>6, <2>5 DEF ItemsMoved, LineQty
  <2>14. QED
    BY <1>0, <2>2, <2>8, <2>12, <2>13 DEF Sound
<1>7. CASE op.kind \in {"cancel", "receive", "callBack"}
  <2>1. took = docs[op.doc].out
    BY <1>7 DEF Outcome
  <2>2. op.doc \in Documents /\ Made(op.doc)
    BY <1>0, <1>7, FoundDoc DEF OnDocument
  <2>3. DOMAIN took = DOMAIN docs[op.doc].lines
    BY <1>0, <2>1, <2>2 DEF TypeOK, Made
  <2>4. \A n \in DOMAIN took : ItemsMoved(op)[n] = docs[op.doc].lines[n].item /\ LineQty(op, n) = docs[op.doc].lines[n].qty
    BY <1>7, <2>3 DEF ItemsMoved, LineQty
  <2>5. \A n \in DOMAIN took : LineKept(docs[op.doc], n)
    BY <2>2, <2>3 DEF DocsKept
  <2>6. QED
    BY <1>0, <2>1, <2>4, <2>5 DEF Sound, LineKept
<1>8. QED
  BY <1>0, <1>2, <1>3, <1>4, <1>5, <1>6, <1>7, OpKinds DEF Makes, IsCount


(***************************************************************************)
(* Documents account for what they moved.                                  *)
(***************************************************************************)

LEMMA NothingPicked ==
    ASSUME NEW i
    PROVE  Picked(Nothing, i) /\ Total(Nothing) = 0 /\ \A s \in Sources : Nothing[s] = 0
<1>1. Nothing \in [Sources -> Int] /\ \A s \in Sources : Nothing[s] = 0
  BY DEF Nothing
<1>2. Total(Nothing) = 0
  BY <1>1, SourcesFinite, TotalOfNone
<1>3. QED
  BY <1>1, <1>2 DEF Picked, Quantities

\* What a sale or a transfer takes is in date.
LEMMA TakenInDate ==
    ASSUME TypeOK, NEW op \in Ops, op.kind \in {"sale", "transfer"}, NEW day \in Int, NEW kept,
           NEW took \in Outcome(op, day, kept), NEW n \in DOMAIN op.lines
    PROVE  NoneExpired(took[n], day)
<1>1. op \in SaleOps \/ op \in TransferOps
  BY OpKinds
<1>2. PICK short : took \in TakenOut(op, day, kept, short)
  BY DEF Outcome
<1>3. QED
  BY <1>1, <1>2, TakenOutDraws

LEMMA MadeKept ==
    ASSUME TypeOK, NEW op \in Ops, Makes(op), NEW day \in Int, NEW kept, NEW took \in Outcome(op, day, kept),
           Sound(op, took), NEW x, IsMade(x, op, took, day), NEW n \in DOMAIN x.lines
    PROVE  LineKept(x, n)
<1>1. x.kind = op.kind /\ x.lines = op.lines /\ x.out = took /\ x.day = day /\ x.back[n] = Nothing
  BY DEF IsMade
<1>2. DOMAIN took = DOMAIN op.lines /\ ItemsMoved(op)[n] = op.lines[n].item /\ LineQty(op, n) = op.lines[n].qty
  BY <1>1 DEF Makes, ItemsMoved, LineQty, IsMade
<1>3. Picked(took[n], op.lines[n].item) /\ Total(took[n]) = op.lines[n].qty
  BY <1>1, <1>2 DEF Sound
<1>4. op.lines[n].qty \in Positive
  <2>1. op.lines \in Seq(Goods) \/ op.lines \in Seq(GoodsIn)
    BY OpKinds DEF Makes, SaleOps, TransferOps, PurchaseOps
  <2>2. n \in DOMAIN op.lines
    BY <1>1
  <2>3. QED
    BY <2>1, <2>2, LinesMoved
<1>5. Picked(Nothing, op.lines[n].item) /\ Total(Nothing) = 0 /\ \A s \in Sources : Nothing[s] = 0
  BY NothingPicked
<1>6. \A s \in Batches : s \in Sources /\ Expiry[s] \in Nat /\ s # NoBatch
  BY StockAssumption DEF Sources
<1>7. \A s \in Batches : Nothing[s] <= took[n][s] /\ took[n][s] \in Int
  BY <1>3, <1>5, <1>6 DEF Picked, Quantities
<1>8. op.kind \in {"sale", "transfer"} => \A s \in Batches : took[n][s] > 0 => Expiry[s] >= day
  <2>1. SUFFICES ASSUME op.kind \in {"sale", "transfer"} PROVE \A s \in Batches : took[n][s] > 0 => Expiry[s] >= day
    OBVIOUS
  <2>2. NoneExpired(took[n], day)
    BY <1>1, <2>1, TakenInDate
  <2>3. QED
    BY <1>6, <1>7, <2>2 DEF NoneExpired, Expired
<1>9. QED
  BY <1>1, <1>3, <1>4, <1>5, <1>7, <1>8 DEF LineKept, Positive

\* Goods that come back of a line, or go back to the supplier: not more than went.
LEMMA ComesBack ==
    ASSUME BookInv, DocsKept, NEW op \in Ops, op.kind \in {"return", "sendBack"}, Possible(op), NEW day \in Int, NEW kept,
           NEW took \in Outcome(op, day, kept)
    PROVE  LET x == docs[op.doc]
               back == x.back[op.line]
           IN  /\ took = <<took[1]>> /\ Picked(took[1], x.lines[op.line].item) /\ Total(took[1]) = op.qty
               /\ Total(back) + op.qty <= x.lines[op.line].qty
               /\ \A s \in Batches : back[s] + took[1][s] <= x.out[op.line][s]
               /\ op.kind = "return" => x.state \notin {"cancelled", "cancelledReturned"}
<1> DEFINE x == docs[op.doc]
           back == x.back[op.line]
           out == x.out[op.line]
           i == x.lines[op.line].item
           qty == x.lines[op.line].qty
<1>1. TypeOK /\ Found(op) /\ OnDocument(op) /\ Sound(op, took) /\ op \in LineOps
  BY OutcomeSound, OpKinds DEF BookInv, Found, OnDocument
<1>2. /\ op.doc \in Documents /\ Made(op.doc) /\ op.line \in DOMAIN x.lines
  BY <1>1, FoundDoc
<1>3. LineKept(x, op.line)
  BY <1>2 DEF DocsKept
<1>4. ItemsMoved(op) = <<i>> /\ \A n : LineQty(op, n) = op.qty
  BY DEF ItemsMoved, LineQty
<1>5. /\ DOMAIN took = DOMAIN <<i>> /\ took \in Seq(Quantities)
      /\ \A n \in DOMAIN took : Picked(took[n], (<<i>>)[n]) /\ Total(took[n]) = op.qty
  BY <1>1, <1>4 DEF Sound, Fits
<1> HIDE DEF x, i
<1>6. took = <<took[1]>> /\ Picked(took[1], i) /\ Total(took[1]) = op.qty
  <2>1. DOMAIN took = 1..1 /\ 1 \in DOMAIN took /\ (<<i>>)[1] = i
    BY <1>5
  <2>2. Len(took) = 1
    BY <1>5, <2>1, LenProperties
  <2>3. took = <<took[1]>>
    BY <1>5, <2>1, <2>2
  <2>4. QED
    BY <1>5, <2>1, <2>3
<1> USE DEF x, i
<1>7. Total(back) + op.qty <= qty
  <2>1. Total(back) + op.qty > qty => Outcome(op, day, kept) = {}
    <3>1. CASE op.kind = "return"
      BY <3>1 DEF Outcome
    <3>2. CASE op.kind = "sendBack"
      BY <3>2 DEF Outcome, SentBack
    <3>3. QED
      BY <3>1, <3>2
  <2>2. Total(back) \in Int /\ op.qty \in Int /\ qty \in Int
    <3>1. back \in [Sources -> Int]
      BY <1>3 DEF LineKept, Picked, Quantities
    <3>2. qty \in Positive
      BY <1>1, <1>2, LinesMoved, FoundDoc, DocParts
    <3> HIDE DEF back, qty
    <3>3. QED
      BY <1>1, <3>1, <3>2, SourcesFinite, TotalType DEF LineOps, Positive
  <2> HIDE DEF back, qty
  <2>3. QED
    BY <2>1, <2>2
<1>8. op.kind = "return" => x.state \notin {"cancelled", "cancelledReturned"}
  BY DEF Outcome
<1>9. /\ out \in Quantities /\ back \in Quantities
      /\ \A s \in Sources : out[s] >= 0 /\ back[s] >= 0
      /\ \A s \in Batches : back[s] <= out[s] /\ s \in Sources
  BY <1>3 DEF LineKept, Picked, Sources
<1>10. \A s \in Batches : back[s] + took[1][s] <= out[s]
  <2>1. CASE op.kind = "return"
    <3>1. took[1] = PutBack(out, back, op.qty)
      BY <2>1 DEF Outcome
    <3>2. op.qty \in Nat
      BY <1>1 DEF LineOps, Positive
    <3>3. \A s \in Batches : out[s] \in Int /\ back[s] \in Int /\ back[s] <= out[s]
      BY <1>9 DEF Quantities
    <3>5. \A s \in Batches : took[1][s] \in Int
      BY <1>6, <1>9 DEF Picked, Quantities
    <3>6. out \in Quantities /\ back \in Quantities
      BY <1>9
    <3> HIDE DEF out, back
    <3>4. \A s \in Batches : took[1][s] <= AtLeast0(out[s] - back[s])
      BY <3>1, <3>2, <3>6, PutBackDraws
    <3>7. QED
      BY <3>3, <3>4, <3>5 DEF AtLeast0
  <2>2. CASE op.kind = "sendBack"
    <3>1. took[1] = Whole(op.qty, CameInto(x, op.line)) /\ Is(op.doc, "purchase")
      BY <2>2 DEF Outcome, SentBack, Possible
    <3>2. PICK s \in SourcesOf(i) : out = Whole(qty, s)
      BY <1>2, <3>1 DEF BookInv, PurchasesKept
    <3>3. s \in Sources /\ op.qty \in Nat
      BY <1>1, SourcesFinite DEF LineOps, Positive
    <3>4. qty \in Positive
      BY <1>1, <1>2, LinesMoved, FoundDoc, DocParts
    <3>5. \A t \in Sources : out[t] = IF t = s THEN qty ELSE 0
      <4> HIDE DEF out, qty
      <4>1. QED
        BY <3>2, <3>3 DEF Whole, Nothing
    <3>6. CameInto(x, op.line) = s
      <4>1. \A t \in Sources : x.out[op.line][t] > 0 <=> t = s
        BY <3>4, <3>5 DEF Positive
      <4>2. QED
        BY <3>3, <4>1 DEF CameInto
    <3>7. \A t \in Sources : took[1][t] = IF t = s THEN op.qty ELSE 0
      BY <3>1, <3>3, <3>6 DEF Whole, Nothing
    <3>8. back[s] <= Total(back)
      <4>1. back \in [Sources -> Int] /\ \A t \in Sources : back[t] >= 0
        BY <1>9 DEF Quantities
      <4> HIDE DEF back
      <4>2. PICK one : one = [t \in Sources |-> IF t = s THEN back[s] ELSE 0]
        OBVIOUS
      <4>3. one \in [Sources -> Int] /\ \A t \in Sources : one[t] <= back[t] /\ (t # s => one[t] = 0)
        BY <3>3, <4>1, <4>2
      <4>4. Total(one) <= Total(back)
        BY <4>1, <4>3, SourcesFinite, TotalAtMost
      <4>5. Nothing \in [Sources -> Int] /\ \A t \in Sources \ {s} : Nothing[t] = one[t]
        BY <4>3 DEF Nothing
      <4>6. Total(one) = Total(Nothing) - Nothing[s] + one[s]
        BY <3>3, <4>3, <4>5, SourcesFinite, TotalChanged
      <4>7. Total(Nothing) = 0 /\ Nothing[s] = 0 /\ one[s] = back[s] /\ back[s] \in Int
        BY <3>3, <4>1, <4>2, NothingPicked
      <4>8. Total(one) = back[s]
        BY <4>6, <4>7
      <4>9. QED
        BY <4>4, <4>8
    <3>9. back[s] \in Int /\ Total(back) \in Int /\ qty \in Int /\ op.qty \in Int
      <4>1. back \in [Sources -> Int]
        BY <1>9 DEF Quantities
      <4> HIDE DEF back
      <4>2. QED
        BY <3>3, <3>4, <4>1, SourcesFinite, TotalType DEF Positive
    <3>10. \A t \in Batches : t \in Sources /\ back[t] \in Int /\ out[t] \in Int /\ back[t] <= out[t]
      BY <1>9 DEF Quantities
    <3> HIDE DEF back, out, qty
    <3>11. back[s] + op.qty <= qty
      BY <1>7, <3>8, <3>9
    <3>12. QED
      BY <3>5, <3>7, <3>9, <3>10, <3>11
  <2>3. QED
    BY <2>1, <2>2
<1>11. QED
  BY <1>6, <1>7, <1>8, <1>10


\* What came back of a line of a document, one more time.
LEMMA AddedUp ==
    ASSUME NEW f \in Quantities, NEW g \in Quantities
    PROVE  /\ Added(f, g) \in Quantities /\ Total(Added(f, g)) = Total(f) + Total(g)
           /\ \A s \in Sources : Added(f, g)[s] = f[s] + g[s]
<1>1. PICK h : h = Added(f, g)
  OBVIOUS
<1>2. h \in [Sources -> Int] /\ \A s \in Sources : h[s] = f[s] + g[s]
  BY <1>1 DEF Added, Quantities
<1>3. Total(h) = Total(f) + Total(g)
  BY <1>2, SourcesFinite, TotalPlus DEF Quantities
<1>4. QED
  BY <1>1, <1>2, <1>3 DEF Quantities

LEMMA ChangedKept ==
    ASSUME BookInv, DocsKept, NEW op \in Ops, OnDocument(op), Possible(op), NEW day \in Int, NEW kept,
           NEW took \in Outcome(op, day, kept), NEW y, y = Document(op, took, day), NEW n \in DOMAIN y.lines
    PROVE  LineKept(y, n)
<1>1. PICK x : x = docs[op.doc]
  OBVIOUS
<1>2. TypeOK /\ Found(op) /\ Sound(op, took) /\ op.doc \in Documents /\ Made(op.doc)
  BY OutcomeSound, FoundDoc DEF BookInv, Found
<1>3. took \in Seq(Quantities) /\ DOMAIN took = DOMAIN ItemsMoved(op)
  BY <1>2 DEF Sound, Fits
<1>4. /\ SameGoods(x, y) /\ y.day = x.day /\ y.state = StateAfter(op, x)
      /\ y.back = IF op.kind \in {"return", "sendBack"} THEN [x.back EXCEPT ![op.line] = Added(@, took[1])] ELSE x.back
  BY <1>1, <1>2, <1>3, DocumentChanged
<1>5. x.lines = y.lines /\ x.out = y.out /\ x.kind = y.kind /\ n \in DOMAIN x.lines
  BY <1>4 DEF SameGoods
<1>6. LineKept(x, n)
  BY <1>1, <1>2, <1>5 DEF DocsKept
<1>7. y.state \notin {"draft", "open"}
  BY <1>4 DEF StateAfter
<1>8. CASE y.back[n] = x.back[n]
  BY <1>4, <1>5, <1>6, <1>7, <1>8 DEF LineKept
<1>9. CASE y.back[n] # x.back[n]
  <2>1. op.kind \in {"return", "sendBack"} /\ n = op.line
    BY <1>4, <1>9
  <2>2. /\ Picked(took[1], x.lines[n].item) /\ Total(took[1]) = op.qty
        /\ Total(x.back[n]) + op.qty <= x.lines[n].qty
        /\ \A s \in Batches : x.back[n][s] + took[1][s] <= x.out[n][s]
    BY <1>1, <2>1, ComesBack
  <2>3. op.line \in DOMAIN x.back
    BY <1>1, <1>2, <1>5, <2>1 DEF TypeOK, Made
  <2>4. y.back[n] = Added(x.back[n], took[1])
    BY <1>4, <2>1, <2>3
  <2>5. PICK f, g, h : f = x.back[n] /\ g = took[1] /\ h = y.back[n]
    OBVIOUS
  <2>6. f \in Quantities /\ g \in Quantities /\ h = Added(f, g)
    BY <1>6, <2>2, <2>4, <2>5 DEF LineKept, Picked
  <2>7. h \in Quantities /\ Total(h) = Total(f) + Total(g) /\ \A s \in Sources : h[s] = f[s] + g[s]
    BY <2>6, AddedUp
  <2>8. \A s \in Sources : f[s] \in Int /\ g[s] \in Int /\ f[s] >= 0 /\ g[s] >= 0
    BY <1>6, <2>2, <2>5, <2>6 DEF LineKept, Picked, Quantities
  <2>9. Picked(h, x.lines[n].item)
    BY <1>6, <2>2, <2>5, <2>7, <2>8 DEF LineKept, Picked
  <2>10. Total(h) <= x.lines[n].qty /\ \A s \in Batches : h[s] <= x.out[n][s]
    BY <2>2, <2>5, <2>7 DEF Sources
  <2>11. QED
    BY <1>4, <1>5, <1>6, <1>7, <2>5, <2>9, <2>10 DEF LineKept
<1>10. QED
  BY <1>8, <1>9

\* Operations keep the documents so.
LEMMA DocsStayKept ==
    ASSUME BookInv, DocsKept, NEW op \in Ops, Possible(op), NEW day \in Int, NEW kept,
           NEW took \in Outcome(op, day, kept), Apply(op, took, day)
    PROVE  DocsKept'
<1>1. TypeOK /\ Sound(op, took) /\ Fits(op, took)
  BY OutcomeSound DEF BookInv, Sound
<1>2. /\ ~IsCount(op) => op.doc \in Documents /\ docs' = [docs EXCEPT ![op.doc] = Document(op, took, day)]
      /\ \A d \in Documents : docs'[d] # docs[d] => ~IsCount(op) /\ d = op.doc
  BY <1>1, DocsAfter
<1>3. SUFFICES ASSUME NEW d \in Documents, Made(d)', NEW n \in DOMAIN docs'[d].lines
               PROVE  LineKept(docs'[d], n)
  BY DEF DocsKept
<1>4. CASE docs'[d] = docs[d]
  BY <1>3, <1>4 DEF DocsKept, Made
<1>5. CASE docs'[d] # docs[d]
  <2>1. ~IsCount(op) /\ d = op.doc
    BY <1>2, <1>5
  <2>2. docs \in [Documents -> Doc \cup {NoDocument}]
    BY <1>1 DEF TypeOK
  <2>3. docs'[d] = Document(op, took, day)
    BY <1>2, <2>1, <2>2
  <2>4. PICK y : y = Document(op, took, day)
    OBVIOUS
  <2>5. Makes(op) \/ OnDocument(op)
    BY <2>1, DocOf
  <2>6. CASE Makes(op)
    <3>1. took \in Seq(Quantities) /\ DOMAIN took = DOMAIN op.lines
      BY <1>1, <2>6 DEF Fits, ItemsMoved, Makes
    <3>2. IsMade(y, op, took, day)
      BY <2>4, <2>6, <3>1, DocumentMade
    <3>3. QED
      BY <1>1, <1>3, <2>3, <2>4, <2>6, <3>2, MadeKept
  <2>7. CASE OnDocument(op)
    BY <1>3, <2>3, <2>4, <2>7, ChangedKept
  <2>8. QED
    BY <2>5, <2>6, <2>7
<1>6. QED
  BY <1>4, <1>5


(***************************************************************************)
(* What is recorded, item by item and line by line.                        *)
(***************************************************************************)

\* A sum with every sign changed, or none.
LEMMA TotalSigned ==
    ASSUME NEW S, IsFiniteSet(S), NEW f \in [S -> Int], NEW sign \in {-1, 1}, NEW e \in [S -> Int],
           \A x \in S : e[x] = sign * f[x]
    PROVE  Total(e) = sign * Total(f) /\ Total(f) \in Int
<1>1. Total(e) \in Int /\ Total(f) \in Int
  BY TotalType
<1>2. CASE sign = 1
  <2>1. \A x \in S : e[x] = f[x]
    BY <1>2
  <2>2. Total(e) = Total(f)
    BY <2>1, TotalOfSame
  <2>3. QED
    BY <1>1, <1>2, <2>2
<1>3. CASE sign = -1
  <2>1. PICK z : z = [x \in S |-> 0]
    OBVIOUS
  <2>2. z \in [S -> Int] /\ (\A x \in S : z[x] = 0) /\ \A x \in S : z[x] = e[x] + f[x]
    BY <1>3, <2>1
  <2>3. Total(z) = 0
    BY <2>2, TotalOfNone
  <2>4. Total(z) = Total(e) + Total(f)
    BY <2>2, TotalPlus
  <2>5. QED
    BY <1>1, <1>3, <2>3, <2>4
<1>4. QED
  BY <1>2, <1>3

\* What the lines of an item move of it, in all.
MovedOf(items, took, i) == Total([s \in Sources |-> Moves(items, took, i, s)])
LinesAt(items, i) == {m \in DOMAIN items : items[m] = i}

LEMMA LinesAtFinite ==
    ASSUME NEW items \in Seq(Items), NEW i
    PROVE  IsFiniteSet(LinesAt(items, i)) /\ LinesAt(items, i) \in SUBSET DOMAIN items
<1>1. Len(items) \in Nat /\ DOMAIN items = 1..Len(items)
  BY LenProperties
<1>2. 1 \in Int /\ Len(items) \in Int
  BY <1>1
<1>3. IsFiniteSet(1..Len(items))
  BY ONLY <1>2, FS_Interval
<1>4. LinesAt(items, i) \subseteq 1..Len(items)
  BY <1>1 DEF LinesAt
<1>5. QED
  BY <1>1, <1>3, <1>4, FS_Subset

\* By source or by line, it is the same.
LEMMA MovedByLine ==
    ASSUME NEW items, items \in Seq(Items), NEW took, took \in Seq(Quantities), DOMAIN took = DOMAIN items, NEW i
    PROVE  /\ MovedOf(items, took, i) = Total([n \in LinesAt(items, i) |-> Total(took[n])])
           /\ MovedOf(items, took, i) \in Int
           /\ [s \in Sources |-> Moves(items, took, i, s)] \in [Sources -> Int]
<1>1. PICK A, table, rows, cols :
        /\ A = LinesAt(items, i) /\ table = [n \in A |-> took[n]] /\ rows = [n \in A |-> Total(took[n])]
        /\ cols = [s \in Sources |-> Moves(items, took, i, s)]
  OBVIOUS
<1>2. IsFiniteSet(A) /\ A \in SUBSET DOMAIN items
  BY <1>1, LinesAtFinite
<1>3. \A n \in DOMAIN took : took[n] \in [Sources -> Int]
  BY DEF Quantities
<1>4. table \in [A -> [Sources -> Int]] /\ \A n \in A : table[n] = took[n]
  BY <1>1, <1>2, <1>3
<1>5. \A n \in A : Total(took[n]) \in Int
  BY <1>2, <1>3, SourcesFinite, TotalType
<1>6. rows \in [A -> Int] /\ \A n \in A : rows[n] = Total(table[n])
  BY <1>1, <1>4, <1>5
<1>7. cols \in [Sources -> Int]
  BY <1>1, MovesTyped
<1>8. \A s \in Sources : cols[s] = Total(Column(table, A, s))
  <2>1. SUFFICES ASSUME NEW s \in Sources PROVE cols[s] = Total(Column(table, A, s))
    OBVIOUS
  <2>2. Column(table, A, s) = [n \in A |-> took[n][s]]
    BY <1>4 DEF Column
  <2>3. A = {m \in DOMAIN took : items[m] = i}
    BY <1>1 DEF LinesAt
  <2>4. QED
    BY <1>1, <2>2, <2>3 DEF Moves
<1>9. Total(rows) = Total(cols)
  <2>1. IsFiniteSet(A) /\ IsFiniteSet(Sources) /\ table \in [A -> [Sources -> Int]]
    BY <1>2, <1>4, SourcesFinite
  <2>2. RowSums(rows, table, A) /\ ColumnSums(cols, table, A, Sources)
    BY <1>6, <1>8 DEF RowSums, ColumnSums
  <2>3. QED
    BY ONLY <2>1, <2>2, <1>6, <1>7, RowsAndColumns
<1>10. Total(cols) \in Int
  BY <1>7, SourcesFinite, TotalType
<1>11. QED
  BY <1>1, <1>7, <1>9, <1>10 DEF MovedOf

\* recordStock, row by row.
LEMMA RecordedEach ==
    ASSUME TypeOK, NEW B, NEW items, NEW took, NEW sign, RecordStock(B, items, took, sign), NEW b \in Branches
    PROVE  /\ \A i \in Items : onHand'[<<b, i>>] = onHand[<<b, i>>] + IF b = B THEN sign * MovedOf(items, took, i) ELSE 0
           /\ \A i \in Items, s \in Sources :
                 ledger'[<<b, i, s>>] = ledger[<<b, i, s>>] + IF b = B THEN sign * Moves(items, took, i, s) ELSE 0
           /\ \A s \in Batches :
                 inBatch'[<<b, s>>] = inBatch[<<b, s>>] + IF b = B THEN sign * Moves(items, took, ItemOf[s], s) ELSE 0
<1>1. /\ DOMAIN onHand = Branches \X Items /\ DOMAIN inBatch = Branches \X Batches
      /\ DOMAIN ledger = Branches \X Items \X Sources
  BY DEF TypeOK
<1> DEFINE all(i) == Total([s \in Sources |-> Moves(items, took, i, s)])
<1>2. /\ ledger' = [p \in DOMAIN ledger |-> ledger[p] + IF p[1] = B THEN sign * Moves(items, took, p[2], p[3]) ELSE 0]
      /\ onHand' = [p \in DOMAIN onHand |-> onHand[p] + IF p[1] = B THEN sign * all(p[2]) ELSE 0]
      /\ inBatch' = [p \in DOMAIN inBatch |->
            inBatch[p] + IF p[1] = B THEN sign * Moves(items, took, ItemOf[p[2]], p[2]) ELSE 0]
  BY Zenon DEF RecordStock
<1>3. \A i : all(i) = MovedOf(items, took, i)
  BY DEF MovedOf
<1> HIDE DEF all
<1>4. \A i \in Items : onHand'[<<b, i>>] = onHand[<<b, i>>] + IF b = B THEN sign * all(i) ELSE 0
  BY <1>1, <1>2
<1>5. \A i \in Items, s \in Sources :
         ledger'[<<b, i, s>>] = ledger[<<b, i, s>>] + IF b = B THEN sign * Moves(items, took, i, s) ELSE 0
  BY <1>1, <1>2
<1>6. \A s \in Batches :
         inBatch'[<<b, s>>] = inBatch[<<b, s>>] + IF b = B THEN sign * Moves(items, took, ItemOf[s], s) ELSE 0
  BY <1>1, <1>2
<1>7. QED
  BY <1>3, <1>4, <1>5, <1>6

\* The sums are those of the ledger.
LedgerKept ==
    /\ \A b \in Branches, i \in Items : onHand[<<b, i>>] = Total([s \in Sources |-> ledger[<<b, i, s>>]])
    /\ \A b \in Branches, s \in Batches : inBatch[<<b, s>>] = ledger[<<b, ItemOf[s], s>>]

LEMMA RecordedKept ==
    ASSUME TypeOK, LedgerKept, NEW B, NEW items, items \in Seq(Items), NEW took, took \in Seq(Quantities), DOMAIN took = DOMAIN items,
           NEW sign \in {-1, 1}, RecordStock(B, items, took, sign)
    PROVE  LedgerKept'
<1>1. ASSUME NEW b \in Branches, NEW i \in Items
      PROVE  onHand'[<<b, i>>] = Total([s \in Sources |-> ledger'[<<b, i, s>>]])
  <2>1. PICK before, moves, change, after :
          /\ before = [s \in Sources |-> ledger[<<b, i, s>>]]
          /\ moves = [s \in Sources |-> Moves(items, took, i, s)]
          /\ change = [s \in Sources |-> IF b = B THEN sign * Moves(items, took, i, s) ELSE 0]
          /\ after = [s \in Sources |-> ledger'[<<b, i, s>>]]
    OBVIOUS
  <2>2. before \in [Sources -> Int] /\ moves \in [Sources -> Int]
    <3>1. before \in [Sources -> Int]
      BY <2>1 DEF TypeOK
    <3>2. [s \in Sources |-> Moves(items, took, i, s)] \in [Sources -> Int]
      BY MovedByLine
    <3>3. QED
      BY <2>1, <3>1, <3>2
  <2>3. \A s \in Sources : moves[s] = Moves(items, took, i, s) /\ moves[s] \in Int
    BY <2>1, <2>2
  <2>4. change \in [Sources -> Int] /\ \A s \in Sources : change[s] = IF b = B THEN sign * moves[s] ELSE 0
    BY <2>1, <2>3
  <2>5. \A s \in Sources : ledger'[<<b, i, s>>] = ledger[<<b, i, s>>] + IF b = B THEN sign * Moves(items, took, i, s) ELSE 0
    BY RecordedEach
  <2>6. after \in [Sources -> Int] /\ \A s \in Sources : after[s] = before[s] + change[s]
    <3>1. \A s \in Sources : after[s] = before[s] + change[s] /\ before[s] \in Int /\ change[s] \in Int
      BY <2>1, <2>2, <2>3, <2>4, <2>5
    <3>2. QED
      BY <2>1, <3>1
  <2>f. IsFiniteSet(Sources)
    BY SourcesFinite
  <2>7. Total(after) = Total(before) + Total(change)
    BY ONLY <2>2, <2>4, <2>6, <2>f, TotalPlus
  <2>8. Total(change) = IF b = B THEN sign * Total(moves) ELSE 0
    <3>1. CASE b = B
      <4>1. sign \in {-1, 1} /\ \A s \in Sources : change[s] = sign * moves[s]
        BY <2>4, <3>1
      <4>2. Total(change) = sign * Total(moves)
        BY ONLY <2>2, <2>4, <2>f, <4>1, TotalSigned
      <4>3. QED
        BY <3>1, <4>2
    <3>2. CASE b # B
      BY <2>4, <3>2, SourcesFinite, TotalOfNone
    <3>3. QED
      BY <3>1, <3>2
  <2>9. onHand'[<<b, i>>] = onHand[<<b, i>>] + IF b = B THEN sign * MovedOf(items, took, i) ELSE 0
    BY RecordedEach
  <2>10. onHand[<<b, i>>] = Total(before) /\ MovedOf(items, took, i) = Total(moves)
    BY <2>1 DEF LedgerKept, MovedOf
  <2>11. QED
    BY <2>1, <2>7, <2>8, <2>9, <2>10
<1>2. ASSUME NEW b \in Branches, NEW s \in Batches
      PROVE  inBatch'[<<b, s>>] = ledger'[<<b, ItemOf[s], s>>]
  <2>1. ItemOf[s] \in Items /\ s \in Sources
    BY StockAssumption DEF Sources
  <2>2. ledger'[<<b, ItemOf[s], s>>]
          = ledger[<<b, ItemOf[s], s>>] + IF b = B THEN sign * Moves(items, took, ItemOf[s], s) ELSE 0
    BY <2>1, RecordedEach
  <2>3. inBatch'[<<b, s>>] = inBatch[<<b, s>>] + IF b = B THEN sign * Moves(items, took, ItemOf[s], s) ELSE 0
    BY RecordedEach
  <2>4. QED
    BY <2>2, <2>3 DEF LedgerKept
<1>3. QED
  BY <1>1, <1>2 DEF LedgerKept


\* updateStockOpening, row by row.
LEMMA CorrectedEach ==
    ASSUME TypeOK, NEW op \in CountOps, NEW s \in SourcesOf(op.item), opening[<<op.branch, op.item, s>>] # NoOpening,
           CorrectOpening(op, s), NEW change, change = op.qty - opening[<<op.branch, op.item, s>>]
    PROVE  /\ change \in Int
           /\ \A b \in Branches, i \in Items :
                 onHand'[<<b, i>>] = onHand[<<b, i>>] + IF b = op.branch /\ i = op.item THEN change ELSE 0
           /\ \A b \in Branches, i \in Items, t \in Sources :
                 ledger'[<<b, i, t>>] = ledger[<<b, i, t>>] + IF b = op.branch /\ i = op.item /\ t = s THEN change ELSE 0
           /\ \A b \in Branches, t \in Batches :
                 inBatch'[<<b, t>>] = inBatch[<<b, t>>] + IF b = op.branch /\ t = s THEN change ELSE 0
           /\ \A i \in Items : counted'[i] = counted[i] + IF i = op.item THEN change ELSE 0
<1>1. op.branch \in Branches /\ op.item \in Items /\ op.qty \in Int /\ s \in Sources
  BY SourcesFinite DEF CountOps, Positive
<1>2. opening[<<op.branch, op.item, s>>] \in Int
  <2>1. opening \in [Branches \X Items \X Sources -> Nat \cup {NoOpening}] /\ NoOpening \in Int
    BY DEF TypeOK, NoOpening
  <2>2. QED
    BY <1>1, <2>1
<1>3. change \in Int
  BY <1>1, <1>2
<1>4. /\ onHand \in [Branches \X Items -> Int] /\ inBatch \in [Branches \X Batches -> Int]
      /\ ledger \in [Branches \X Items \X Sources -> Int] /\ counted \in [Items -> Int]
  BY DEF TypeOK
<1>5. /\ ledger' = [ledger EXCEPT ![<<op.branch, op.item, s>>] = @ + change]
      /\ onHand' = [onHand EXCEPT ![<<op.branch, op.item>>] = @ + change]
      /\ inBatch' = IF s = NoBatch THEN inBatch ELSE [inBatch EXCEPT ![<<op.branch, s>>] = @ + change]
      /\ counted' = [counted EXCEPT ![op.item] = @ + change]
  BY DEF CorrectOpening
<1>6. \A b \in Branches, i \in Items :
         onHand'[<<b, i>>] = onHand[<<b, i>>] + IF b = op.branch /\ i = op.item THEN change ELSE 0
  BY <1>1, <1>3, <1>4, <1>5
<1>7. \A b \in Branches, i \in Items, t \in Sources :
         ledger'[<<b, i, t>>] = ledger[<<b, i, t>>] + IF b = op.branch /\ i = op.item /\ t = s THEN change ELSE 0
  BY <1>1, <1>3, <1>4, <1>5
<1>8. \A b \in Branches, t \in Batches :
         inBatch'[<<b, t>>] = inBatch[<<b, t>>] + IF b = op.branch /\ t = s THEN change ELSE 0
  <2>1. s # NoBatch => s \in Batches
    BY <1>1 DEF Sources
  <2>2. NoBatch \notin Batches
    BY StockAssumption
  <2>3. CASE s = NoBatch
    BY <1>4, <1>5, <2>2, <2>3
  <2>4. CASE s # NoBatch
    <3>1. s \in Batches /\ inBatch' = [inBatch EXCEPT ![<<op.branch, s>>] = @ + change]
      BY <1>5, <2>1, <2>4
    <3>2. QED
      BY <1>1, <1>3, <1>4, <3>1
  <2>5. QED
    BY <2>3, <2>4
<1>9. \A i \in Items : counted'[i] = counted[i] + IF i = op.item THEN change ELSE 0
  BY <1>1, <1>3, <1>4, <1>5
<1>10. QED
  BY <1>3, <1>6, <1>7, <1>8, <1>9

LEMMA CorrectedKept ==
    ASSUME TypeOK, LedgerKept, NEW op \in CountOps, NEW s \in SourcesOf(op.item),
           opening[<<op.branch, op.item, s>>] # NoOpening, CorrectOpening(op, s)
    PROVE  LedgerKept'
<1>1. PICK change : change = op.qty - opening[<<op.branch, op.item, s>>]
  OBVIOUS
<1>2. /\ change \in Int /\ s \in Sources
      /\ \A b \in Branches, i \in Items :
            onHand'[<<b, i>>] = onHand[<<b, i>>] + IF b = op.branch /\ i = op.item THEN change ELSE 0
      /\ \A b \in Branches, i \in Items, t \in Sources :
            ledger'[<<b, i, t>>] = ledger[<<b, i, t>>] + IF b = op.branch /\ i = op.item /\ t = s THEN change ELSE 0
      /\ \A b \in Branches, t \in Batches :
            inBatch'[<<b, t>>] = inBatch[<<b, t>>] + IF b = op.branch /\ t = s THEN change ELSE 0
  BY <1>1, CorrectedEach, SourcesFinite
<1>3. ASSUME NEW b \in Branches, NEW i \in Items
      PROVE  onHand'[<<b, i>>] = Total([t \in Sources |-> ledger'[<<b, i, t>>]])
  <2>1. PICK before, after : /\ before = [t \in Sources |-> ledger[<<b, i, t>>]]
                             /\ after = [t \in Sources |-> ledger'[<<b, i, t>>]]
    OBVIOUS
  <2>2. before \in [Sources -> Int]
    BY <2>1 DEF TypeOK
  <2>3. \A t \in Sources : after[t] = before[t] + IF b = op.branch /\ i = op.item /\ t = s THEN change ELSE 0
    BY <1>2, <2>1
  <2>4. after \in [Sources -> Int]
    BY <1>2, <2>1, <2>2, <2>3
  <2>5. \A t \in Sources \ {s} : before[t] = after[t]
    BY <2>2, <2>3
  <2>6. Total(after) = Total(before) - before[s] + after[s]
    BY <1>2, <2>2, <2>4, <2>5, SourcesFinite, TotalChanged
  <2>7. Total(before) \in Int /\ before[s] \in Int
    BY <1>2, <2>2, SourcesFinite, TotalType
  <2>8. onHand[<<b, i>>] = Total(before)
    BY <2>1 DEF LedgerKept
  <2>9. QED
    BY <1>2, <2>1, <2>3, <2>6, <2>7, <2>8
<1>4. ASSUME NEW b \in Branches, NEW t \in Batches
      PROVE  inBatch'[<<b, t>>] = ledger'[<<b, ItemOf[t], t>>]
  <2>1. ItemOf[t] \in Items /\ t \in Sources /\ (t = s => ItemOf[t] = op.item)
    BY StockAssumption DEF Sources, SourcesOf
  <2>2. ledger'[<<b, ItemOf[t], t>>]
          = ledger[<<b, ItemOf[t], t>>] + IF b = op.branch /\ ItemOf[t] = op.item /\ t = s THEN change ELSE 0
    BY <1>2, <2>1
  <2>3. QED
    BY <1>2, <2>1, <2>2 DEF LedgerKept
<1>5. QED
  BY <1>3, <1>4 DEF LedgerKept

\* What an operation records: goods moved, or a count corrected.
LEMMA AppliedAs ==
    ASSUME BookInv, NEW op \in Ops, Possible(op), NEW day, NEW took, Fits(op, took), Apply(op, took, day)
    PROVE  /\ Place(op) \in Branches /\ ItemsMoved(op) \in Seq(Items) /\ Sign(op) \in {-1, 1}
           /\ op.kind # "reopening" => RecordStock(Place(op), ItemsMoved(op), took, Sign(op))
           /\ op.kind = "reopening" => op \in CountOps /\ \E s \in SourcesOf(op.item) :
                 took = <<Whole(op.qty, s)>> /\ opening[<<op.branch, op.item, s>>] # NoOpening /\ CorrectOpening(op, s)
<1>1. TypeOK /\ Found(op)
  BY DEF BookInv, Found
<1>2. Place(op) \in Branches /\ ItemsMoved(op) \in Seq(Items) /\ Sign(op) \in {-1, 1}
  BY <1>1, PlaceTyped, MovedItemsTyped, SignTyped
<1>3. op.kind # "reopening" => RecordStock(Place(op), ItemsMoved(op), took, Sign(op))
  BY DEF Apply
<1>4. ASSUME op.kind = "reopening"
      PROVE  op \in CountOps /\ \E s \in SourcesOf(op.item) :
                took = <<Whole(op.qty, s)>> /\ opening[<<op.branch, op.item, s>>] # NoOpening /\ CorrectOpening(op, s)
  <2>1. PICK s \in Sources : took[1] = Whole(op.qty, s) /\ CorrectOpening(op, s)
    BY <1>4 DEF Apply
  <2>2. op \in CountOps /\ op.qty \in Positive
    BY <1>4, OpKinds DEF CountOps
  <2>3. PICK t \in SourcesOf(op.item) : took = <<Whole(op.qty, t)>> /\ opening[<<op.branch, op.item, t>>] # NoOpening
    BY <1>4 DEF Fits
  <2>4. took[1] = Whole(op.qty, t)
    BY <2>3
  <2>5. s = t
    BY <2>1, <2>2, <2>4, WholeOf, SourcesFinite
  <2>6. QED
    BY <2>1, <2>2, <2>3, <2>5
<1>5. QED
  BY <1>2, <1>3, <1>4

LEMMA LedgerStays ==
    ASSUME BookInv, LedgerKept, NEW op \in Ops, Possible(op), NEW day, NEW took, Fits(op, took), Apply(op, took, day)
    PROVE  LedgerKept'
<1>1. TypeOK /\ took \in Seq(Quantities) /\ DOMAIN took = DOMAIN ItemsMoved(op)
  BY DEF BookInv, Fits
<1>2. CASE op.kind # "reopening"
  <2>1. PICK B, items, sign : B = Place(op) /\ items = ItemsMoved(op) /\ sign = Sign(op)
    OBVIOUS
  <2>2. RecordStock(B, items, took, sign) /\ items \in Seq(Items) /\ DOMAIN took = DOMAIN items /\ sign \in {-1, 1}
    BY <1>1, <1>2, <2>1, AppliedAs
  <2>3. QED
    BY <1>1, <2>2, RecordedKept
<1>3. CASE op.kind = "reopening"
  <2>1. PICK s \in SourcesOf(op.item) :
           opening[<<op.branch, op.item, s>>] # NoOpening /\ CorrectOpening(op, s)
    BY <1>3, AppliedAs
  <2>2. op \in CountOps
    BY <1>3, AppliedAs
  <2>3. QED
    BY <1>1, <2>1, <2>2, CorrectedKept
<1>4. QED
  BY <1>2, <1>3


(***************************************************************************)
(* What documents have to account for.                                     *)
(***************************************************************************)

\* Of item i, what a document moved less what came back, and what that makes on the way.
DocLines(x, i) == {m \in DOMAIN x.lines : x.lines[m].item = i}
GoneBy(x, i) == [n \in DocLines(x, i) |-> x.lines[n].qty - Total(x.back[n])]
Gone(x, i) == Total(GoneBy(x, i))
\* What came back of it.
CameBy(x, i) == [n \in DocLines(x, i) |-> Total(x.back[n])]
Came(x, i) == Total(CameBy(x, i))
\* What a sale accounts for; cancelled after goods worth nothing came back, it put them back twice.
OfSale(x, i) ==
    IF x.state = "cancelled" THEN 0
    ELSE IF x.state = "cancelledReturned" THEN Came(x, i)
    ELSE -Gone(x, i)
OfDoc(x, i) ==
    IF x = NoDocument THEN 0
    ELSE IF x.kind = "purchase" THEN Gone(x, i)
    ELSE IF x.kind = "sale" THEN OfSale(x, i)
    ELSE IF x.state = "open" THEN -Gone(x, i) ELSE 0

LEMMA OnTheWayIs ==
    ASSUME TypeOK, NEW d \in Documents, NEW i
    PROVE  (IF Made(d) THEN OnTheWay(d, i) ELSE 0) = OfDoc(docs[d], i)
<1>1. CASE ~Made(d)
  BY <1>1 DEF Made, OfDoc
<1>2. CASE Made(d)
  <2>1. docs[d] \in Doc /\ docs[d] # NoDocument
    BY <1>2 DEF TypeOK, Made
  <2>2. docs[d].kind \in {"sale", "purchase", "transfer"}
    BY <2>1, DocParts
  <2>3. Gone(docs[d], i) = Total([n \in {m \in DOMAIN docs[d].lines : docs[d].lines[m].item = i} |->
                                    docs[d].lines[n].qty - Total(docs[d].back[n])])
    BY DEF Gone, GoneBy, DocLines
  <2>4. Came(docs[d], i) = Total([n \in {m \in DOMAIN docs[d].lines : docs[d].lines[m].item = i} |->
                                    Total(docs[d].back[n])])
    BY DEF Came, CameBy, DocLines
  <2>5. PICK gone, came : gone = Gone(docs[d], i) /\ came = Came(docs[d], i)
    OBVIOUS
  <2>6. OnTheWay(d, i) = CASE docs[d].kind = "purchase" -> gone
                           [] docs[d].kind = "sale" ->
                                 IF docs[d].state = "cancelled" THEN 0
                                 ELSE IF docs[d].state = "cancelledReturned" THEN came
                                 ELSE -gone
                           [] docs[d].kind = "transfer" -> IF docs[d].state = "open" THEN -gone ELSE 0
    BY <2>3, <2>4, <2>5, Zenon DEF OnTheWay
  <2>7. OfDoc(docs[d], i) = IF docs[d].kind = "purchase" THEN gone
                            ELSE IF docs[d].kind = "sale"
                            THEN IF docs[d].state = "cancelled" THEN 0
                                 ELSE IF docs[d].state = "cancelledReturned" THEN came
                                 ELSE -gone
                            ELSE IF docs[d].state = "open" THEN -gone ELSE 0
    BY <2>1, <2>5 DEF OfDoc, OfSale
  <2>8. QED
    BY <1>2, <2>2, <2>6, <2>7
<1>3. QED
  BY <1>1, <1>2

LEMMA GoneTyped ==
    ASSUME NEW x \in Doc, DOMAIN x.back = DOMAIN x.lines, NEW i
    PROVE  /\ IsFiniteSet(DocLines(x, i)) /\ DocLines(x, i) \in SUBSET DOMAIN x.lines
           /\ \A n \in DOMAIN x.lines : x.lines[n].qty \in Positive /\ Total(x.back[n]) \in Int /\ x.back[n] \in Quantities
           /\ GoneBy(x, i) \in [DocLines(x, i) -> Int] /\ Gone(x, i) \in Int
           /\ CameBy(x, i) \in [DocLines(x, i) -> Int] /\ Came(x, i) \in Int
<1>1. x.lines \in Seq(Goods \cup GoodsIn) /\ x.back \in Seq(Quantities)
  BY DocParts
<1>2. Len(x.lines) \in Nat /\ DOMAIN x.lines = 1..Len(x.lines) /\ \A n \in DOMAIN x.lines : x.lines[n].qty \in Positive
  BY <1>1, LinesMoved
<1>3. 1 \in Int /\ Len(x.lines) \in Int
  BY <1>2
<1>4. IsFiniteSet(1..Len(x.lines))
  BY ONLY <1>3, FS_Interval
<1>5. DocLines(x, i) \subseteq 1..Len(x.lines)
  BY <1>2 DEF DocLines
<1>6. IsFiniteSet(DocLines(x, i)) /\ DocLines(x, i) \in SUBSET DOMAIN x.lines
  BY <1>2, <1>4, <1>5, FS_Subset
<1>7. \A n \in DOMAIN x.lines : x.back[n] \in Quantities
  BY <1>1
<1>8. ASSUME NEW n \in DOMAIN x.lines PROVE Total(x.back[n]) \in Int
  <2>1. x.back[n] \in [Sources -> Int]
    BY <1>7 DEF Quantities
  <2>2. QED
    BY <2>1, SourcesFinite, TotalType
<1>9. GoneBy(x, i) \in [DocLines(x, i) -> Int]
  BY <1>2, <1>6, <1>8 DEF GoneBy, Positive
<1>10. Gone(x, i) \in Int
  BY <1>6, <1>9, TotalType DEF Gone
<1>11. CameBy(x, i) \in [DocLines(x, i) -> Int]
  BY <1>6, <1>8 DEF CameBy
<1>12. Came(x, i) \in Int
  BY <1>6, <1>11, TotalType DEF Came
<1>13. QED
  BY <1>2, <1>6, <1>7, <1>8, <1>9, <1>10, <1>11, <1>12

\* What an operation was asked to move of an item.
AskedBy(op, i) == [n \in LinesAt(ItemsMoved(op), i) |-> LineQty(op, n)]
Asked(op, i) == Total(AskedBy(op, i))

LEMMA AskedMoved ==
    ASSUME NEW op, NEW took, Sound(op, took), ItemsMoved(op) \in Seq(Items), NEW i
    PROVE  MovedOf(ItemsMoved(op), took, i) = Asked(op, i) /\ Asked(op, i) \in Int
<1>1. PICK items : items = ItemsMoved(op)
  OBVIOUS
<1>2. items \in Seq(Items) /\ took \in Seq(Quantities) /\ DOMAIN took = DOMAIN items
  BY <1>1 DEF Sound, Fits
<1>3. MovedOf(items, took, i) = Total([n \in LinesAt(items, i) |-> Total(took[n])]) /\ MovedOf(items, took, i) \in Int
  BY <1>2, MovedByLine
<1>4. \A n \in LinesAt(items, i) : Total(took[n]) = LineQty(op, n)
  BY <1>2 DEF Sound, LinesAt
<1>5. [n \in LinesAt(items, i) |-> Total(took[n])] = AskedBy(op, i)
  BY <1>1, <1>4 DEF AskedBy
<1>6. QED
  BY <1>1, <1>3, <1>5 DEF Asked

\* Of one line.
LEMMA AskedOne ==
    ASSUME NEW op, NEW j, ItemsMoved(op) = <<j>>, NEW qty \in Int, \A n : LineQty(op, n) = qty, NEW i
    PROVE  Asked(op, i) = IF i = j THEN qty ELSE 0
<1>1. LinesAt(<<j>>, i) = IF i = j THEN {1} ELSE {}
  BY DEF LinesAt
<1>2. PICK e, f, S : e = AskedBy(op, i) /\ f = [n \in S |-> 0] /\ S = LinesAt(<<j>>, i)
  OBVIOUS
<1>3. e = [n \in S |-> qty]
  BY <1>2 DEF AskedBy
<1>4. e \in [S -> Int] /\ f \in [S -> Int] /\ (\A n \in S : f[n] = 0 /\ e[n] = qty)
  BY <1>2, <1>3
<1>5. IsFiniteSet(S)
  BY <1>1, <1>2, FS_EmptySet, FS_Singleton
<1>6. Total(f) = 0
  BY <1>4, <1>5, TotalOfNone
<1>7. CASE i = j
  <2>1. S = {1}
    BY <1>1, <1>2, <1>7
  <2>2. Total(e) = Total(f) - f[1] + e[1]
    <3>1. 1 \in S /\ \A n \in S \ {1} : f[n] = e[n]
      BY <2>1
    <3>2. QED
      BY <1>4, <1>5, <3>1, TotalChanged
  <2>3. f[1] = 0 /\ e[1] = qty
    BY <1>4, <2>1
  <2>4. QED
    BY <1>2, <1>6, <1>7, <2>2, <2>3 DEF Asked
<1>8. CASE i # j
  <2>1. S = {}
    BY <1>1, <1>2, <1>8
  <2>2. Total(e) = 0
    BY <1>4, <1>5, <2>1, TotalOfNone
  <2>3. QED
    BY <1>2, <1>8, <2>2 DEF Asked
<1>9. QED
  BY <1>7, <1>8


\* Nothing came back of it yet.
AllOut(x) == \A n \in DOMAIN x.lines : x.back[n] = Nothing

LEMMA GoneWhole ==
    ASSUME NEW x \in Doc, DOMAIN x.back = DOMAIN x.lines, AllOut(x), NEW op, NEW i,
           ItemsMoved(op) = [n \in DOMAIN x.lines |-> x.lines[n].item],
           \A n \in DOMAIN x.lines : LineQty(op, n) = x.lines[n].qty
    PROVE  Gone(x, i) = Asked(op, i)
<1>1. LinesAt(ItemsMoved(op), i) = DocLines(x, i)
  BY DEF LinesAt, DocLines
<1>2. \A n \in DocLines(x, i) : n \in DOMAIN x.lines /\ x.lines[n].qty \in Positive
  BY GoneTyped DEF DocLines
<1>3. Total(Nothing) = 0
  BY NothingPicked
<1>4. \A n \in DocLines(x, i) : x.lines[n].qty - Total(x.back[n]) = LineQty(op, n)
  BY <1>2, <1>3 DEF AllOut, Positive
<1>5. GoneBy(x, i) = AskedBy(op, i)
  BY <1>1, <1>4 DEF GoneBy, AskedBy
<1>6. QED
  BY <1>5 DEF Gone, Asked

\* What is gone and what came back is all of it.
LEMMA GoneAndCame ==
    ASSUME NEW x \in Doc, DOMAIN x.back = DOMAIN x.lines, NEW op, NEW i,
           ItemsMoved(op) = [n \in DOMAIN x.lines |-> x.lines[n].item],
           \A n \in DOMAIN x.lines : LineQty(op, n) = x.lines[n].qty
    PROVE  Gone(x, i) + Came(x, i) = Asked(op, i) /\ Asked(op, i) \in Int
<1>1. LinesAt(ItemsMoved(op), i) = DocLines(x, i)
  BY DEF LinesAt, DocLines
<1>2. PICK S, e, f, h : S = DocLines(x, i) /\ e = GoneBy(x, i) /\ f = CameBy(x, i) /\ h = AskedBy(op, i)
  OBVIOUS
<1>3. /\ IsFiniteSet(S) /\ e \in [S -> Int] /\ f \in [S -> Int]
      /\ \A n \in S : n \in DOMAIN x.lines /\ x.lines[n].qty \in Int /\ Total(x.back[n]) \in Int
  <2>1. /\ IsFiniteSet(S) /\ e \in [S -> Int] /\ f \in [S -> Int]
        /\ S \in SUBSET DOMAIN x.lines
        /\ \A n \in DOMAIN x.lines : x.lines[n].qty \in Positive /\ Total(x.back[n]) \in Int
    BY <1>2, GoneTyped
  <2>2. QED
    BY <2>1 DEF Positive
<1>4. \A n \in S : e[n] = x.lines[n].qty - Total(x.back[n]) /\ f[n] = Total(x.back[n])
  BY <1>2 DEF GoneBy, CameBy
<1>5. h = [n \in S |-> x.lines[n].qty]
  BY <1>1, <1>2, <1>3 DEF AskedBy
<1>6. h \in [S -> Int] /\ \A n \in S : h[n] = e[n] + f[n]
  BY <1>3, <1>4, <1>5
<1>7. Total(h) = Total(e) + Total(f) /\ Total(h) \in Int
  BY <1>3, <1>6, TotalPlus, TotalType
<1>8. QED
  BY <1>2, <1>7 DEF Gone, Came, Asked

\* More came back of one line.
LEMMA GoneLess ==
    ASSUME NEW x \in Doc, NEW y \in Doc, DOMAIN x.back = DOMAIN x.lines, SameGoods(x, y), NEW m \in DOMAIN x.lines,
           NEW q \in Quantities, y.back = [x.back EXCEPT ![m] = Added(@, q)], NEW i
    PROVE  Gone(y, i) = Gone(x, i) - (IF i = x.lines[m].item THEN Total(q) ELSE 0) /\ Gone(x, i) \in Int /\ Total(q) \in Int
<1>1. x.lines = y.lines /\ DOMAIN y.back = DOMAIN y.lines
  BY DEF SameGoods
<1>2. PICK S, e, f : S = DocLines(x, i) /\ e = GoneBy(x, i) /\ f = GoneBy(y, i)
  OBVIOUS
<1>3. S = DocLines(y, i)
  BY <1>1, <1>2 DEF DocLines
<1>4. /\ IsFiniteSet(S) /\ S \in SUBSET DOMAIN x.lines /\ e \in [S -> Int] /\ f \in [S -> Int]
      /\ \A n \in DOMAIN x.lines : x.lines[n].qty \in Positive /\ Total(x.back[n]) \in Int /\ x.back[n] \in Quantities
  BY <1>1, <1>2, <1>3, GoneTyped
<1>5. Total(Added(x.back[m], q)) = Total(x.back[m]) + Total(q)
  BY <1>4, AddedUp
<1>6. Total(q) \in Int
  <2>1. q \in [Sources -> Int]
    BY DEF Quantities
  <2>2. QED
    BY <2>1, SourcesFinite, TotalType
<1>7. \A n \in S : e[n] = x.lines[n].qty - Total(x.back[n]) /\ f[n] = x.lines[n].qty - Total(y.back[n])
  BY <1>1, <1>2, <1>3 DEF GoneBy
<1>8. \A n \in DOMAIN x.lines : y.back[n] = IF n = m THEN Added(x.back[m], q) ELSE x.back[n]
  OBVIOUS
<1>9. \A n \in S \ {m} : e[n] = f[n]
  BY <1>4, <1>7, <1>8
<1>10. m \in S => f[m] = e[m] - Total(q)
  <2>1. m \in S => f[m] = x.lines[m].qty - Total(Added(x.back[m], q)) /\ e[m] = x.lines[m].qty - Total(x.back[m])
    BY <1>7, <1>8
  <2>2. x.lines[m].qty \in Int /\ Total(x.back[m]) \in Int
    BY <1>4 DEF Positive
  <2>3. QED
    BY <1>5, <1>6, <2>1, <2>2
<1>11. Total(e) \in Int
  BY <1>4, TotalType
<1>12. m \in S <=> i = x.lines[m].item
  BY <1>2 DEF DocLines
<1>13. Total(f) = Total(e) - (IF m \in S THEN Total(q) ELSE 0)
  <2>1. CASE m \in S
    <3>1. Total(f) = Total(e) - e[m] + f[m]
      BY <1>4, <1>9, <2>1, TotalChanged
    <3>2. e[m] \in Int
      BY <1>4, <2>1
    <3>3. QED
      BY <1>6, <1>10, <1>11, <2>1, <3>1, <3>2
  <2>2. CASE m \notin S
    <3>1. \A n \in S : e[n] = f[n]
      BY <1>9, <2>2
    <3>2. Total(f) = Total(e)
      BY <1>4, <3>1, TotalOfSame
    <3>3. QED
      BY <1>11, <2>2, <3>2
  <2>3. QED
    BY <2>1, <2>2
<1>14. QED
  BY <1>2, <1>6, <1>11, <1>12, <1>13 DEF Gone

\* What a document accounts for changes by what the operation moves.
LEMMA AccountedMade ==
    ASSUME TypeOK, NEW op \in Ops, Makes(op), NEW day, NEW took, NEW y, IsMade(y, op, took, day), NEW i
    PROVE  OfDoc(y, i) = Sign(op) * Asked(op, i)
<1>1. /\ y \in Doc /\ DOMAIN y.back = DOMAIN y.lines /\ y.kind = op.kind /\ y.lines = op.lines
      /\ y.back = [n \in DOMAIN op.lines |-> Nothing]
      /\ y.state = IF op.kind = "sale" THEN IF op.paid THEN "settled" ELSE "draft"
                   ELSE IF op.kind = "transfer" THEN "open" ELSE "settled"
  BY DEF IsMade
<1>2. AllOut(y)
  BY <1>1 DEF AllOut
<1>3. ItemsMoved(op) = [n \in DOMAIN y.lines |-> y.lines[n].item] /\ \A n \in DOMAIN y.lines : LineQty(op, n) = y.lines[n].qty
  BY <1>1 DEF Makes, ItemsMoved, LineQty
<1>4. Gone(y, i) = Asked(op, i) /\ Gone(y, i) \in Int
  BY <1>1, <1>2, <1>3, GoneWhole, GoneTyped
<1>5. y # NoDocument
  BY <1>1, StockAssumption
<1>6. QED
  BY <1>1, <1>4, <1>5 DEF OfDoc, OfSale, Sign, Makes

LEMMA AccountedChanged ==
    ASSUME BookInv, DocsKept, NEW op \in Ops, OnDocument(op), Possible(op), NEW day \in Int, NEW kept,
           NEW took \in Outcome(op, day, kept), NEW y, y = Document(op, took, day), NEW i
    PROVE  OfDoc(y, i) = OfDoc(docs[op.doc], i) + Sign(op) * Asked(op, i) /\ OfDoc(docs[op.doc], i) \in Int
<1>1. PICK x : x = docs[op.doc]
  OBVIOUS
<1>2. TypeOK /\ Found(op) /\ Sound(op, took) /\ op.doc \in Documents /\ Made(op.doc) /\ x \in Doc
  BY <1>1, OutcomeSound, FoundDoc DEF BookInv, Found
<1>3. took \in Seq(Quantities) /\ DOMAIN took = DOMAIN ItemsMoved(op)
  BY <1>2 DEF Sound, Fits
<1>4. /\ y \in Doc /\ SameGoods(x, y) /\ y.state = StateAfter(op, x) /\ DOMAIN y.back = DOMAIN y.lines
      /\ y.back = IF op.kind \in {"return", "sendBack"} THEN [x.back EXCEPT ![op.line] = Added(@, took[1])] ELSE x.back
  BY <1>1, <1>2, <1>3, DocumentChanged
<1>5. DOMAIN x.back = DOMAIN x.lines /\ x # NoDocument /\ y # NoDocument /\ y.kind = x.kind
  BY <1>1, <1>2, <1>4, StockAssumption DEF TypeOK, Made, SameGoods
<1>6. Gone(x, i) \in Int
  BY <1>2, <1>5, GoneTyped
<1>7. CASE op.kind \in {"return", "sendBack"}
  <2>1. op.line \in DOMAIN x.lines /\ op.qty \in Int
    BY <1>1, <1>2, <1>7, FoundDoc, OpKinds DEF LineOps, Positive
  <2>2. ItemsMoved(op) = <<x.lines[op.line].item>> /\ \A n : LineQty(op, n) = op.qty
    BY <1>1, <1>7 DEF ItemsMoved, LineQty
  <2>3. Asked(op, i) = IF i = x.lines[op.line].item THEN op.qty ELSE 0
    BY <2>1, <2>2, AskedOne
  <2>4. PICK q : q = took[1]
    OBVIOUS
  <2>5. Picked(q, x.lines[op.line].item) /\ Total(q) = op.qty /\ (op.kind = "return" => x.state \notin {"cancelled", "cancelledReturned"})
    BY <1>1, <1>7, <2>4, ComesBack
  <2>6. Gone(y, i) = Gone(x, i) - Asked(op, i)
    <3>1. q \in Quantities
      BY <2>5 DEF Picked
    <3>2. y.back = [x.back EXCEPT ![op.line] = Added(@, q)]
      BY <1>4, <1>7, <2>4
    <3>3. Gone(y, i) = Gone(x, i) - (IF i = x.lines[op.line].item THEN Total(q) ELSE 0)
      BY <1>2, <1>4, <1>5, <2>1, <3>1, <3>2, GoneLess
    <3>4. QED
      BY <2>3, <2>5, <3>3
  <2>7. y.state \in {"draftReturned", "settled"} /\ Asked(op, i) \in Int
    BY <1>4, <1>7, <2>1, <2>3 DEF StateAfter
  <2>8. CASE op.kind = "return"
    <3>1. x.kind = "sale"
      BY <1>1, <2>8 DEF Possible, Is
    <3>2. OfDoc(x, i) = -Gone(x, i) /\ OfDoc(y, i) = -Gone(y, i)
      BY <1>5, <2>5, <2>7, <2>8, <3>1 DEF OfDoc, OfSale
    <3>3. Sign(op) = 1
      BY <2>8 DEF Sign
    <3>4. QED
      BY <1>1, <1>6, <2>6, <2>7, <3>2, <3>3
  <2>9. CASE op.kind = "sendBack"
    <3>1. x.kind = "purchase"
      BY <1>1, <2>9 DEF Possible, Is
    <3>2. OfDoc(x, i) = Gone(x, i) /\ OfDoc(y, i) = Gone(y, i)
      BY <1>5, <3>1 DEF OfDoc
    <3>3. Sign(op) = -1
      BY <2>9 DEF Sign
    <3>4. QED
      BY <1>1, <1>6, <2>6, <2>7, <3>2, <3>3
  <2>10. QED
    BY <1>7, <2>8, <2>9
<1>8. CASE op.kind \in {"cancel", "receive", "callBack"}
  <2>1. ItemsMoved(op) = [n \in DOMAIN x.lines |-> x.lines[n].item] /\ \A n \in DOMAIN x.lines : LineQty(op, n) = x.lines[n].qty
    BY <1>1, <1>8 DEF ItemsMoved, LineQty
  <2>2. /\ op.kind = "cancel" => x.state \in {"draft", "draftReturned"}
        /\ op.kind # "cancel" => x.state = "open"
    BY <1>1, <1>8 DEF Outcome
  <2>3. Sign(op) = 1
    BY <1>8 DEF Sign
  <2>4. Gone(x, i) + Came(x, i) = Asked(op, i) /\ Asked(op, i) \in Int
    BY <1>2, <1>5, <2>1, GoneAndCame
  <2>5. ASSUME x.state \in {"draft", "open"} PROVE Gone(x, i) = Asked(op, i)
    <3>1. \A n \in DOMAIN x.lines : LineKept(x, n)
      BY <1>1, <1>2 DEF DocsKept
    <3>2. AllOut(x)
      BY <2>5, <3>1 DEF AllOut, LineKept
    <3>3. QED
      BY <1>2, <1>5, <2>1, <3>2, GoneWhole
  <2>6. CASE op.kind = "cancel" /\ x.state = "draft"
    <3>1. x.kind = "sale" /\ y.state = "cancelled"
      BY <1>1, <1>4, <2>6 DEF Possible, Is, StateAfter
    <3>2. OfDoc(x, i) = -Gone(x, i) /\ OfDoc(y, i) = 0
      BY <1>5, <2>6, <3>1 DEF OfDoc, OfSale
    <3>3. QED
      BY <1>1, <1>6, <2>3, <2>5, <2>6, <3>2
  <2>7. CASE op.kind = "cancel" /\ x.state = "draftReturned"
    <3>1. x.kind = "sale" /\ y.state = "cancelledReturned"
      BY <1>1, <1>4, <2>7 DEF Possible, Is, StateAfter
    <3>2. y.back = x.back /\ y.lines = x.lines
      BY <1>4, <2>7 DEF SameGoods
    <3>3. Came(y, i) = Came(x, i)
      BY <3>2 DEF Came, CameBy, DocLines
    <3>4. OfDoc(x, i) = -Gone(x, i) /\ OfDoc(y, i) = Came(x, i)
      BY <1>5, <2>7, <3>1, <3>3 DEF OfDoc, OfSale
    <3>5. Came(x, i) \in Int
      BY <1>2, <1>5, GoneTyped
    <3>6. QED
      BY <1>1, <1>6, <2>3, <2>4, <3>4, <3>5
  <2>8. CASE op.kind # "cancel"
    <3>1. x.kind = "transfer" /\ y.state \in {"received", "calledBack"}
      BY <1>1, <1>4, <1>8, <2>8 DEF Possible, Is, StateAfter
    <3>2. OfDoc(x, i) = -Gone(x, i) /\ OfDoc(y, i) = 0
      BY <1>5, <2>2, <2>8, <3>1 DEF OfDoc
    <3>3. QED
      BY <1>1, <1>6, <2>2, <2>3, <2>5, <2>8, <3>2
  <2>9. QED
    BY <2>2, <2>6, <2>7, <2>8
<1>9. QED
  BY <1>7, <1>8 DEF OnDocument


(***************************************************************************)
(* No unit appears or is lost.                                             *)
(***************************************************************************)

\* What the branches hold of an item, and what documents account for.
InAll(i) == Total([b \in Branches |-> onHand[<<b, i>>]])
AllDocs(i) == Total([d \in Documents |-> OfDoc(docs[d], i)])
Balanced == \A i \in Items : InAll(i) = counted[i] + AllDocs(i)
GoodsInv == BookInv /\ LedgerKept /\ DocsKept /\ Balanced

LEMMA OfDocTyped ==
    ASSUME NEW x \in Doc \cup {NoDocument}, x # NoDocument => DOMAIN x.back = DOMAIN x.lines, NEW i
    PROVE  OfDoc(x, i) \in Int
<1>1. CASE x = NoDocument
  BY <1>1 DEF OfDoc
<1>2. CASE x # NoDocument
  <2>1. Gone(x, i) \in Int
    BY <1>2, GoneTyped
  <2>2. QED
    BY <1>2, <2>1, GoneTyped DEF OfDoc, OfSale
<1>3. QED
  BY <1>1, <1>2

LEMMA InAllAfter ==
    ASSUME TypeOK, NEW B \in Branches, NEW i \in Items, NEW change \in Int,
           \A b \in Branches : onHand'[<<b, i>>] = onHand[<<b, i>>] + IF b = B THEN change ELSE 0
    PROVE  InAll(i)' = InAll(i) + change /\ InAll(i) \in Int
<1>1. PICK e, f : e = [b \in Branches |-> onHand[<<b, i>>]] /\ f = [b \in Branches |-> onHand'[<<b, i>>]]
  OBVIOUS
<1>2. onHand \in [Branches \X Items -> Int] /\ IsFiniteSet(Branches)
  BY StockAssumption DEF TypeOK
<1>3. e \in [Branches -> Int] /\ \A b \in Branches : f[b] = e[b] + IF b = B THEN change ELSE 0
  BY <1>1, <1>2
<1>4. f \in [Branches -> Int]
  BY <1>1, <1>3
<1>5. \A b \in Branches \ {B} : e[b] = f[b]
  BY <1>3
<1>6. Total(f) = Total(e) - e[B] + f[B]
  BY <1>2, <1>3, <1>4, <1>5, TotalChanged
<1>7. Total(e) \in Int /\ e[B] \in Int /\ f[B] = e[B] + change
  BY <1>2, <1>3, TotalType
<1>8. QED
  BY <1>1, <1>6, <1>7 DEF InAll

LEMMA AllDocsTyped ==
    ASSUME TypeOK, NEW i
    PROVE  /\ IsFiniteSet(Documents) /\ [d \in Documents |-> OfDoc(docs[d], i)] \in [Documents -> Int]
           /\ AllDocs(i) \in Int
<1>1. \A d \in Documents : OfDoc(docs[d], i) \in Int
  BY OfDocTyped DEF TypeOK
<1>2. IsFiniteSet(Documents) /\ [d \in Documents |-> OfDoc(docs[d], i)] \in [Documents -> Int]
  BY <1>1, StockAssumption
<1>3. QED
  BY <1>2, TotalType DEF AllDocs

LEMMA AllDocsAfter ==
    ASSUME TypeOK, NEW D \in Documents, NEW y, docs' = [docs EXCEPT ![D] = y], NEW i, OfDoc(y, i) \in Int
    PROVE  AllDocs(i)' = AllDocs(i) - OfDoc(docs[D], i) + OfDoc(y, i) /\ OfDoc(docs[D], i) \in Int /\ AllDocs(i) \in Int
<1>1. PICK e, f : e = [d \in Documents |-> OfDoc(docs[d], i)] /\ f = [d \in Documents |-> OfDoc(docs'[d], i)]
  OBVIOUS
<1>2. IsFiniteSet(Documents) /\ e \in [Documents -> Int] /\ Total(e) \in Int
  BY <1>1, AllDocsTyped DEF AllDocs
<1>3. docs \in [Documents -> Doc \cup {NoDocument}]
  BY DEF TypeOK
<1>4. docs'[D] = y /\ \A d \in Documents \ {D} : docs'[d] = docs[d]
  BY <1>3
<1>5. \A d \in Documents \ {D} : e[d] = f[d]
  BY <1>1, <1>4
<1>6. f[D] = OfDoc(y, i) /\ e[D] = OfDoc(docs[D], i)
  BY <1>1, <1>4
<1>7. \A d \in Documents : f[d] \in Int
  BY <1>2, <1>5, <1>6
<1>8. f \in [Documents -> Int]
  BY <1>1, <1>7
<1>9. Total(f) = Total(e) - e[D] + f[D]
  BY <1>2, <1>5, <1>8, TotalChanged
<1>10. QED
  BY <1>1, <1>2, <1>6, <1>9 DEF AllDocs

\* Operations keep it so: what they record, they count or account for in a document.
LEMMA BalanceStays ==
    ASSUME BookInv, DocsKept, Balanced, NEW op \in Ops, Possible(op), NEW day \in Int, NEW kept,
           NEW took \in Outcome(op, day, kept), Apply(op, took, day)
    PROVE  Balanced'
<1>1. TypeOK /\ Found(op) /\ Sound(op, took) /\ Fits(op, took)
  BY OutcomeSound DEF BookInv, Found, Sound
<1>2. SUFFICES ASSUME NEW i \in Items PROVE InAll(i)' = counted'[i] + AllDocs(i)'
  BY DEF Balanced
<1>3. InAll(i) = counted[i] + AllDocs(i) /\ counted[i] \in Int /\ AllDocs(i) \in Int
  BY <1>1, AllDocsTyped DEF Balanced, TypeOK
<1>4. CASE op.kind = "reopening"
  <2>1. PICK s \in SourcesOf(op.item) : opening[<<op.branch, op.item, s>>] # NoOpening /\ CorrectOpening(op, s)
    BY <1>1, <1>4, AppliedAs
  <2>2. op \in CountOps /\ op.branch \in Branches
    BY <1>1, <1>4, OpKinds DEF CountOps
  <2>3. PICK change : change = op.qty - opening[<<op.branch, op.item, s>>]
    OBVIOUS
  <2>4. /\ change \in Int
        /\ \A b \in Branches, j \in Items :
              onHand'[<<b, j>>] = onHand[<<b, j>>] + IF b = op.branch /\ j = op.item THEN change ELSE 0
        /\ \A j \in Items : counted'[j] = counted[j] + IF j = op.item THEN change ELSE 0
    BY <1>1, <2>1, <2>2, <2>3, CorrectedEach
  <2>5. PICK more : more = IF i = op.item THEN change ELSE 0
    OBVIOUS
  <2>6. more \in Int /\ \A b \in Branches : onHand'[<<b, i>>] = onHand[<<b, i>>] + IF b = op.branch THEN more ELSE 0
    BY <2>4, <2>5
  <2>7. InAll(i)' = InAll(i) + more /\ InAll(i) \in Int
    BY <1>1, <2>2, <2>6, InAllAfter
  <2>8. counted'[i] = counted[i] + more
    BY <2>4, <2>5
  <2>9. docs' = docs
    BY <1>4 DEF Apply
  <2>10. AllDocs(i)' = AllDocs(i)
    BY <2>9 DEF AllDocs
  <2>11. QED
    BY <1>3, <2>6, <2>7, <2>8, <2>10
<1>5. CASE op.kind # "reopening"
  <2>1. PICK B, items, sign : B = Place(op) /\ items = ItemsMoved(op) /\ sign = Sign(op)
    OBVIOUS
  <2>2. RecordStock(B, items, took, sign) /\ B \in Branches /\ items \in Seq(Items) /\ sign \in {-1, 1}
    BY <1>1, <1>5, <2>1, AppliedAs
  <2>3. MovedOf(items, took, i) = Asked(op, i) /\ Asked(op, i) \in Int
    BY <1>1, <2>1, <2>2, AskedMoved
  <2>4. \A b \in Branches : onHand'[<<b, i>>] = onHand[<<b, i>>] + IF b = B THEN sign * MovedOf(items, took, i) ELSE 0
    BY <1>1, <2>2, RecordedEach
  <2>5. PICK more : more = sign * Asked(op, i)
    OBVIOUS
  <2>6. more \in Int /\ \A b \in Branches : onHand'[<<b, i>>] = onHand[<<b, i>>] + IF b = B THEN more ELSE 0
    BY <2>2, <2>3, <2>4, <2>5
  <2>7. InAll(i)' = InAll(i) + more /\ InAll(i) \in Int
    BY <1>1, <2>2, <2>6, InAllAfter
  <2>8. CASE IsCount(op)
    <3>1. op \in CountOps /\ op.item \in Items /\ op.qty \in Int
      BY <1>1, <2>8, OpKinds DEF IsCount, CountOps, Positive
    <3>2. ItemsMoved(op) = <<op.item>> /\ \A n : LineQty(op, n) = op.qty
      BY <2>8 DEF ItemsMoved, IsCount, LineQty
    <3>3. Asked(op, i) = IF i = op.item THEN op.qty ELSE 0
      BY <3>1, <3>2, AskedOne
    <3>4. counted' = [counted EXCEPT ![op.item] = @ + sign * op.qty] /\ docs' = docs
      BY <1>5, <2>1, <2>8 DEF Apply, IsCount
    <3>5. counted \in [Items -> Int]
      BY <1>1 DEF TypeOK
    <3>6. counted'[i] = counted[i] + more
      BY <1>3, <2>2, <2>5, <3>1, <3>3, <3>4, <3>5
    <3>7. AllDocs(i)' = AllDocs(i)
      BY <3>4 DEF AllDocs
    <3>8. QED
      BY <1>3, <2>6, <2>7, <3>6, <3>7
  <2>9. CASE ~IsCount(op)
    <3>1. counted' = counted
      BY <1>5, <2>9 DEF Apply, IsCount
    <3>2. PICK y : y = Document(op, took, day)
      OBVIOUS
    <3>3. op.doc \in Documents /\ docs' = [docs EXCEPT ![op.doc] = y] /\ (Makes(op) \/ OnDocument(op))
      BY <1>1, <2>9, <3>2, DocsAfter, DocOf
    <3>4. OfDoc(y, i) = OfDoc(docs[op.doc], i) + more /\ OfDoc(docs[op.doc], i) \in Int
      <4>1. CASE Makes(op)
        <5>1. took \in Seq(Quantities) /\ DOMAIN took = DOMAIN op.lines
          BY <1>1, <4>1 DEF Fits, ItemsMoved, Makes
        <5>2. IsMade(y, op, took, day)
          BY <3>2, <4>1, <5>1, DocumentMade
        <5>3. OfDoc(y, i) = sign * Asked(op, i)
          BY <1>1, <2>1, <4>1, <5>2, AccountedMade
        <5>4. docs[op.doc] = NoDocument
          BY <4>1 DEF Makes, Possible, Made
        <5>5. OfDoc(docs[op.doc], i) = 0
          BY <5>4 DEF OfDoc
        <5>6. QED
          BY <2>5, <2>6, <5>3, <5>5
      <4>2. CASE OnDocument(op)
        BY <2>1, <2>5, <3>2, <4>2, AccountedChanged
      <4>3. QED
        BY <3>3, <4>1, <4>2
    <3>5. OfDoc(y, i) \in Int
      BY <2>6, <3>4
    <3>6. AllDocs(i)' = AllDocs(i) - OfDoc(docs[op.doc], i) + OfDoc(y, i)
      BY <1>1, <3>3, <3>5, AllDocsAfter
    <3>7. QED
      BY <1>3, <2>6, <2>7, <3>1, <3>4, <3>6
  <2>10. QED
    BY <2>8, <2>9
<1>6. QED
  BY <1>4, <1>5


LEMMA GoodsStart ==
    ASSUME Init
    PROVE  GoodsInv
<1>1. BookInv
  BY BookStarts
<1>2. TypeOK /\ IsFiniteSet(Sources) /\ IsFiniteSet(Branches)
  BY <1>1, SourcesFinite, StockAssumption DEF BookInv
<1>3. \A d \in Documents : docs[d] = NoDocument
  BY DEF Init
<1>4. ItemOf \in [Batches -> Items] /\ Batches \subseteq Sources
  BY StockAssumption DEF Sources
<1>5. /\ \A b \in Branches, i \in Items : onHand[<<b, i>>] = 0
      /\ \A b \in Branches, s \in Batches : inBatch[<<b, s>>] = 0
      /\ \A b \in Branches, i \in Items, s \in Sources : ledger[<<b, i, s>>] = 0
      /\ \A i \in Items : counted[i] = 0
  BY DEF Init
<1>6. LedgerKept
  <2>1. ASSUME NEW b \in Branches, NEW i \in Items PROVE Total([s \in Sources |-> ledger[<<b, i, s>>]]) = 0
    <3>1. PICK f : f = [s \in Sources |-> ledger[<<b, i, s>>]]
      OBVIOUS
    <3>2. f \in [Sources -> Int] /\ \A s \in Sources : f[s] = 0
      BY <1>5, <3>1
    <3>3. QED
      BY <1>2, <3>1, <3>2, TotalOfNone
  <2>2. \A b \in Branches, s \in Batches : inBatch[<<b, s>>] = ledger[<<b, ItemOf[s], s>>]
    BY <1>4, <1>5
  <2>3. QED
    BY <1>5, <2>1, <2>2 DEF LedgerKept
<1>7. DocsKept
  BY <1>3 DEF DocsKept, Made
<1>8. ASSUME NEW i \in Items PROVE InAll(i) = counted[i] + AllDocs(i)
  <2>1. PICK f, g : f = [b \in Branches |-> onHand[<<b, i>>]] /\ g = [d \in Documents |-> OfDoc(docs[d], i)]
    OBVIOUS
  <2>2. f \in [Branches -> Int] /\ \A b \in Branches : f[b] = 0
    BY <1>5, <2>1
  <2>3. \A d \in Documents : OfDoc(docs[d], i) = 0
    BY <1>3 DEF OfDoc
  <2>4. IsFiniteSet(Documents) /\ g \in [Documents -> Int] /\ \A d \in Documents : g[d] = 0
    BY <2>1, <2>3, StockAssumption
  <2>5. Total(f) = 0 /\ Total(g) = 0
    BY <1>2, <2>2, <2>4, TotalOfNone
  <2>6. QED
    BY <1>5, <2>1, <2>5 DEF InAll, AllDocs
<1>9. QED
  BY <1>1, <1>6, <1>7, <1>8 DEF GoodsInv, Balanced

LEMMA GoodsStayPut ==
    ASSUME GoodsInv, UNCHANGED <<onHand, inBatch, ledger, counted, docs>>
    PROVE  LedgerKept' /\ DocsKept' /\ Balanced'
<1>1. LedgerKept'
  BY DEF GoodsInv, LedgerKept
<1>2. DocsKept'
  BY DEF GoodsInv, DocsKept, Made
<1>3. Balanced'
  BY DEF GoodsInv, Balanced, InAll, AllDocs
<1>4. QED
  BY <1>1, <1>2, <1>3

LEMMA GoodsStep ==
    ASSUME GoodsInv, [Next]_bookVars
    PROVE  GoodsInv'
<1>1. BookInv /\ TypeOK /\ LedgerKept /\ DocsKept /\ Balanced
  BY DEF GoodsInv, BookInv
<1>2. CASE UNCHANGED bookVars
  <2>1. BookInv'
    BY <1>1, <1>2, BooksStay
  <2>2. QED
    BY <1>2, <2>1, GoodsStayPut DEF GoodsInv, bookVars
<1>3. CASE NextDay
  <2>1. /\ UNCHANGED <<onHand, inBatch, ledger, opening, moved, counted, docs, tracked, switched, past, done>>
        /\ today' = today + 1 /\ today < MaxDay
    BY <1>3 DEF NextDay
  <2>2. today' \in 0..MaxDay
    BY <1>1, <2>1, StockAssumption DEF TypeOK
  <2>3. BookInv'
    BY <1>1, <2>1, <2>2 DEF BookInv, TypeOK, PurchasesKept, Is, Made, OpeningsKept
  <2>4. QED
    BY <2>1, <2>3, GoodsStayPut DEF GoodsInv
<1>4. ASSUME NEW i \in Items, SwitchBatches(i) PROVE GoodsInv'
  <2>1. /\ UNCHANGED <<onHand, inBatch, ledger, opening, moved, counted, docs, past, today, done>>
        /\ switched[i] < MaxSwitches /\ switched' = [switched EXCEPT ![i] = @ + 1]
        /\ tracked' = IF i \in tracked THEN tracked \ {i} ELSE tracked \cup {i}
    BY <1>4 DEF SwitchBatches
  <2>2. switched \in [Items -> 0..MaxSwitches] /\ tracked \subseteq Items /\ MaxSwitches \in Nat
    BY <1>1, StockAssumption DEF TypeOK
  <2>3. switched' \in [Items -> 0..MaxSwitches] /\ tracked' \subseteq Items
    BY <2>1, <2>2
  <2>4. BookInv'
    BY <1>1, <2>1, <2>3 DEF BookInv, TypeOK, PurchasesKept, Is, Made, OpeningsKept
  <2>5. QED
    BY <2>1, <2>4, GoodsStayPut DEF GoodsInv
<1>5. ASSUME NEW op \in Ops, Do(op) PROVE GoodsInv'
  <2>1. Possible(op) /\ done < MaxDone
    BY <1>5 DEF Do
  <2>2. \E day \in {today - 1, today}, old \in SUBSET {i \in Items : switched[i] > 0} :
          \E took \in Outcome(op, day, (tracked \ old) \cup (old \ tracked)) : Apply(op, took, day)
    BY <1>5, Zenon DEF Do
  <2>3. PICK day \in {today - 1, today}, old \in SUBSET {i \in Items : switched[i] > 0} :
          \E took \in Outcome(op, day, (tracked \ old) \cup (old \ tracked)) : Apply(op, took, day)
    BY <2>2
  <2>4. PICK kept : kept = (tracked \ old) \cup (old \ tracked)
    OBVIOUS
  <2>5. PICK took \in Outcome(op, day, kept) : Apply(op, took, day)
    BY <2>3, <2>4
  <2>6. day \in Int
    BY <1>1 DEF TypeOK
  <2>7. Fits(op, took)
    BY <1>1, <2>1, OutcomeFitsOp DEF Found
  <2>8. BookInv'
    BY <1>1, <2>1, <2>5, <2>6, OperationKeeps
  <2>9. LedgerKept'
    BY <1>1, <2>1, <2>5, <2>7, LedgerStays
  <2>10. DocsKept'
    BY <1>1, <2>1, <2>5, <2>6, DocsStayKept
  <2>11. Balanced'
    BY <1>1, <2>1, <2>5, <2>6, BalanceStays
  <2>12. QED
    BY <2>8, <2>9, <2>10, <2>11 DEF GoodsInv
<1>6. QED
  BY <1>2, <1>3, <1>4, <1>5 DEF Next

LEMMA GoodsAccounted ==
    ASSUME GoodsInv
    PROVE  GoodsAccountedFor
<1>1. TypeOK /\ LedgerKept /\ DocsKept /\ Balanced
  BY DEF GoodsInv, BookInv
<1>2. OnHandIsLedger
  BY <1>1 DEF OnHandIsLedger, LedgerKept
<1>3. ASSUME NEW i \in Items
      PROVE  Total([b \in Branches |-> onHand[<<b, i>>]])
               = counted[i] + Total([d \in Documents |-> IF Made(d) THEN OnTheWay(d, i) ELSE 0])
  <2>1. \A d \in Documents : (IF Made(d) THEN OnTheWay(d, i) ELSE 0) = OfDoc(docs[d], i)
    BY <1>1, OnTheWayIs
  <2>2. [d \in Documents |-> IF Made(d) THEN OnTheWay(d, i) ELSE 0] = [d \in Documents |-> OfDoc(docs[d], i)]
    BY <2>1
  <2>3. InAll(i) = counted[i] + AllDocs(i)
    BY <1>1 DEF Balanced
  <2>4. QED
    BY <2>2, <2>3 DEF InAll, AllDocs
<1>4. ASSUME NEW d \in Documents, Made(d), NEW n \in DOMAIN docs[d].lines
      PROVE  /\ Total(docs[d].back[n]) <= docs[d].lines[n].qty
             /\ \A s \in Batches : docs[d].back[n][s] <= docs[d].out[n][s]
  BY <1>1, <1>4 DEF DocsKept, LineKept
<1>5. QED
  BY <1>2, <1>3, <1>4 DEF GoodsAccountedFor

(***************************************************************************)
(* Of the books alone, whatever the operations: on-hand stock is the sum   *)
(* of the ledger and a batch's that of its entries (stock.service.ts:65),  *)
(* every unit is accounted for by a count or a document, and no more comes *)
(* back of a line than it sent out, but for goods worth nothing that came  *)
(* back from an unpaid bill: its cancel puts them back once more, and they *)
(* are counted so (returns.service.ts:214).                                *)
(***************************************************************************)
THEOREM BooksBalance == Spec => []GoodsInv
<1>1. Init => GoodsInv
  BY GoodsStart
<1>2. GoodsInv /\ [bookVars' # bookVars /\ Next]_bookVars => GoodsInv'
  BY GoodsStep
<1>3. QED
  BY <1>1, <1>2, PTL DEF Spec

(***************************************************************************)
(* And so of the transactions: whatever requests interleave, fail and are  *)
(* sent again, no unit appears or is lost, but for those that cancelling a *)
(* bill puts back again after a return worth nothing.                      *)
(***************************************************************************)
THEOREM StockGoodsAccountedFor == StockSpec => []GoodsAccountedFor
<1>1. GoodsInv => GoodsAccountedFor
  BY GoodsAccounted
<1>2. QED
  BY <1>1, BooksBalance, StockImplementsBook, PTL


(***************************************************************************)
(* What is never short.                                                    *)
(***************************************************************************)

\* The ledger of an item is of its sources; before anything moved it, of its opening counts.
OfItem == \A b \in Branches, i \in Items, s \in Sources : s \notin SourcesOf(i) => ledger[<<b, i, s>>] = 0
OpenedWith(p) == IF opening[p] = NoOpening THEN 0 ELSE opening[p]
OpeningsOnly ==
    \A b \in Branches, i \in Items, s \in Sources :
        <<b, i>> \notin moved => ledger[<<b, i, s>>] = OpenedWith(<<b, i, s>>)

\* An item never switched: what came in is in batches, or nothing is.
LineWithout(x, n) == \A s \in Batches : x.out[n][s] = 0
WithoutBatches(i) ==
    /\ \A b \in Branches, s \in Batches : ledger[<<b, i, s>>] = 0 /\ opening[<<b, i, s>>] = NoOpening
    /\ \A d \in Documents : Made(d) => \A n \in DocLines(docs[d], i) : LineWithout(docs[d], n)
InBatches(i) ==
    \A d \in Documents : Is(d, "purchase") => \A n \in DocLines(docs[d], i) : docs[d].out[n][NoBatch] = 0
KeptAs == \A i \in Items : switched[i] = 0 => IF i \in tracked THEN InBatches(i) ELSE WithoutBatches(i)

\* Goods of a purchase at branch b went back to the supplier.
SentBackOf(x, b) == x.kind = "purchase" /\ x.branch = b /\ \E n \in DOMAIN x.lines : x.back[n] # Nothing
SentBackAt(b) == \E d \in Documents : Made(d) /\ SentBackOf(docs[d], b)
NotShort ==
    \A b \in Branches, i \in Items :
        /\ \A s \in Batches : ledger[<<b, i, s>>] >= 0
        /\ <<b, i>> \notin past => /\ onHand[<<b, i>>] >= 0 \/ SentBackAt(b)
                                   /\ switched[i] = 0 => ledger[<<b, i, NoBatch>>] >= 0
ShortInv == GoodsInv /\ OfItem /\ OpeningsOnly /\ KeptAs /\ NotShort

\* The ledger of an item at a branch.
Row(b, i) == [s \in Sources |-> ledger[<<b, i, s>>]]

LEMMA RowTyped ==
    ASSUME GoodsInv, NEW b \in Branches, NEW i \in Items
    PROVE  /\ Row(b, i) \in Quantities /\ \A s \in Sources : Row(b, i)[s] = ledger[<<b, i, s>>] /\ ledger[<<b, i, s>>] \in Int
           /\ onHand[<<b, i>>] = Total(Row(b, i)) /\ onHand[<<b, i>>] \in Int
<1>1. TypeOK /\ LedgerKept
  BY DEF GoodsInv, BookInv
<1>2. ledger \in [Branches \X Items \X Sources -> Int] /\ onHand \in [Branches \X Items -> Int]
  BY <1>1 DEF TypeOK
<1>3. Row(b, i) \in Quantities /\ \A s \in Sources : Row(b, i)[s] = ledger[<<b, i, s>>] /\ ledger[<<b, i, s>>] \in Int
  BY <1>2 DEF Row, Quantities
<1>4. onHand[<<b, i>>] = Total(Row(b, i)) /\ onHand[<<b, i>>] \in Int
  BY <1>1, <1>2 DEF Row, LedgerKept
<1>5. QED
  BY <1>3, <1>4

\* lotsOf finds what the ledger has.
LEMMA LotsAreLedger ==
    ASSUME GoodsInv, OfItem, NEW b \in Branches, NEW i \in Items
    PROVE  /\ \A s \in SourcesOf(i) : Lots(b, i)[s] = ledger[<<b, i, s>>]
           /\ Total(Lots(b, i)) = onHand[<<b, i>>]
<1>1. PICK row : row = Row(b, i)
  OBVIOUS
<1>2. /\ row \in Quantities /\ \A s \in Sources : row[s] = ledger[<<b, i, s>>]
      /\ onHand[<<b, i>>] = Total(row) /\ onHand[<<b, i>>] \in Int
  BY <1>1, RowTyped
<1>3. \A s \in Sources : s \notin SourcesOf(i) => row[s] = 0
  BY <1>2 DEF OfItem
<1>4. Total(Part(row, SourcesOf(i))) = Total(row)
  BY <1>2, <1>3, TotalOverItem
<1>5. /\ SourcesOf(i) \in SUBSET Sources /\ NoBatch \in SourcesOf(i) /\ NoBatch \notin Batches /\ IsFiniteSet(Sources)
      /\ \A s \in SourcesOf(i) \ {NoBatch} : s \in Batches /\ ItemOf[s] = i
  BY SourcesFinite, StockAssumption DEF SourcesOf
<1>6. /\ Total(Part(row, SourcesOf(i))) = row[NoBatch] + Total(Part(row, SourcesOf(i) \ {NoBatch}))
      /\ Total(Part(row, SourcesOf(i) \ {NoBatch})) \in Int
  BY <1>2, <1>5, PartTaken DEF Quantities
<1>7. \A s \in SourcesOf(i) \ {NoBatch} : inBatch[<<b, s>>] = row[s]
  BY <1>2, <1>5 DEF GoodsInv, LedgerKept
<1>8. [t \in SourcesOf(i) \ {NoBatch} |-> inBatch[<<b, t>>]] = Part(row, SourcesOf(i) \ {NoBatch})
  BY <1>7 DEF Part
<1>9. PICK lots : lots = Lots(b, i)
  OBVIOUS
<1>10. lots = [s \in SourcesOf(i) |->
                 IF s = NoBatch THEN onHand[<<b, i>>] - Total(Part(row, SourcesOf(i) \ {NoBatch}))
                 ELSE inBatch[<<b, s>>]]
  BY <1>8, <1>9 DEF Lots
<1>11. row[NoBatch] \in Int
  BY <1>2, <1>5 DEF Quantities
<1>12. \A s \in SourcesOf(i) : lots[s] = row[s]
  <2>1. PICK rest : rest = Total(Part(row, SourcesOf(i) \ {NoBatch}))
    OBVIOUS
  <2>2. onHand[<<b, i>>] - rest = row[NoBatch]
    BY <1>2, <1>4, <1>6, <1>11, <2>1
  <2>3. lots = [s \in SourcesOf(i) |-> IF s = NoBatch THEN onHand[<<b, i>>] - rest ELSE inBatch[<<b, s>>]]
    BY <1>10, <2>1
  <2>4. QED
    BY <1>5, <1>7, <2>2, <2>3
<1>13. lots = Part(row, SourcesOf(i))
  BY <1>10, <1>12 DEF Part
<1>14. QED
  BY <1>2, <1>4, <1>5, <1>9, <1>12, <1>13

\* Of an item never kept by batch, all there is is without one.
LEMMA AllWithout ==
    ASSUME GoodsInv, NEW b \in Branches, NEW i \in Items, WithoutBatches(i)
    PROVE  ledger[<<b, i, NoBatch>>] = onHand[<<b, i>>]
<1>1. PICK row : row = Row(b, i)
  OBVIOUS
<1>2. /\ row \in [Sources -> Int] /\ \A s \in Sources : row[s] = ledger[<<b, i, s>>]
      /\ onHand[<<b, i>>] = Total(row)
  BY <1>1, RowTyped DEF Quantities
<1>3. \A s \in Sources : Nothing[s] = 0
  BY NothingPicked
<1>4. Nothing \in [Sources -> Int] /\ Total(Nothing) = 0
  BY NothingPicked DEF Picked, Quantities
<1>5. \A s \in Sources \ {NoBatch} : Nothing[s] = row[s]
  BY <1>2, <1>3 DEF WithoutBatches, Sources
<1>6. NoBatch \in Sources /\ IsFiniteSet(Sources)
  BY SourcesFinite
<1>7. Total(row) = Total(Nothing) - Nothing[NoBatch] + row[NoBatch]
  BY <1>2, <1>4, <1>5, <1>6, TotalChanged
<1>8. QED
  BY <1>2, <1>3, <1>4, <1>6, <1>7

\* An item with no source short isn't short.
LEMMA NoneShort ==
    ASSUME GoodsInv, NEW b \in Branches, NEW i \in Items, \A s \in Sources : ledger[<<b, i, s>>] >= 0
    PROVE  onHand[<<b, i>>] >= 0
<1>1. PICK row : row = Row(b, i)
  OBVIOUS
<1>2. /\ row \in [Sources -> Int] /\ \A s \in Sources : row[s] = ledger[<<b, i, s>>]
      /\ onHand[<<b, i>>] = Total(row)
  BY <1>1, RowTyped DEF Quantities
<1>3. QED
  BY <1>2, SourcesFinite, TotalType


(***************************************************************************)
(* What operations take is covered by what there is.                       *)
(***************************************************************************)

LEMMA PartAtMost ==
    ASSUME NEW S, IsFiniteSet(S), NEW f \in [S -> Int], \A x \in S : f[x] >= 0, NEW T \in SUBSET S
    PROVE  Total(Part(f, T)) <= Total(f)
<1>1. PICK e, g : e = [x \in S |-> IF x \in T THEN f[x] ELSE 0] /\ g = Part(f, T)
  OBVIOUS
<1>2. e \in [S -> Int] /\ g \in [T -> Int] /\ \A x \in S : e[x] = IF x \in T THEN g[x] ELSE 0
  BY <1>1 DEF Part
<1>3. Total(g) = Total(e)
  BY <1>2, TotalRestricted
<1>4. \A x \in S : e[x] <= f[x]
  BY <1>1
<1>5. Total(e) <= Total(f)
  BY <1>2, <1>4, TotalAtMost
<1>6. QED
  BY <1>1, <1>3, <1>5

\* The units a line wants are among all that are wanted of its item.
LEMMA FromUpTo ==
    ASSUME NEW lines \in Seq(Goods), NEW n \in DOMAIN lines, NEW i, i = lines[n].item
    PROVE  From(lines, n) + lines[n].qty <= Wanted(lines, i)
<1>1. PICK N, f, below : N = LinesOf(lines, i) /\ f = WantedBy(lines, i) /\ below = Earlier(lines, i)
  OBVIOUS
<1>2. /\ IsFiniteSet(N) /\ Line(N, below) /\ f \in [N -> Int] /\ (\A m \in N : f[m] > 0)
      /\ Wanted(lines, i) = Total(f) /\ Total(f) \in Nat
  BY <1>1, LinesInLine
<1>3. n \in N /\ f[n] = lines[n].qty /\ From(lines, n) = Total(Part(f, below[n]))
  BY <1>1 DEF LinesOf, WantedBy, From, SumBefore
<1>4. below[n] \in SUBSET N /\ n \notin below[n]
  BY <1>2, <1>3 DEF Line
<1>5. PICK T : T = below[n] \cup {n}
  OBVIOUS
<1>6. T \in SUBSET N /\ n \in T /\ T \ {n} = below[n]
  BY <1>3, <1>4, <1>5
<1>7. Total(Part(f, T)) = f[n] + Total(Part(f, below[n])) /\ Total(Part(f, T)) \in Int /\ Total(Part(f, below[n])) \in Int
  <2>1. Total(Part(f, T)) = f[n] + Total(Part(f, T \ {n})) /\ Total(Part(f, T)) \in Int /\ Total(Part(f, T \ {n})) \in Int
    BY <1>2, <1>6, PartTaken
  <2>2. QED
    BY <1>6, <2>1
<1>8. \A m \in N : f[m] >= 0
  BY <1>2
<1>9. Total(Part(f, T)) <= Total(f)
  BY <1>2, <1>6, <1>8, PartAtMost
<1>10. f[n] \in Int
  BY <1>2, <1>3
<1>11. QED
  BY <1>2, <1>3, <1>7, <1>9, <1>10

\* What a sale or a transfer moves of a source: no more than was picked from it.
SplitOf(lines, took, i, pick, day) ==
    \A n \in LinesOf(lines, i) : took[n] = SplitOverShares(lines, n, pick, day)

LEMMA SplitMoves ==
    ASSUME NEW lines \in Seq(Goods), NEW items, items = [n \in DOMAIN lines |-> lines[n].item],
           NEW took, DOMAIN took = DOMAIN lines, NEW i, NEW pick, Picked(pick, i), NEW day \in Int,
           SplitOf(lines, took, i, pick, day)
    PROVE  /\ \A s \in Batches : Moves(items, took, i, s) <= pick[s]
           /\ Total(pick) = Wanted(lines, i) => Moves(items, took, i, NoBatch) <= pick[NoBatch]
<1>1. PICK N : N = LinesOf(lines, i)
  OBVIOUS
<1>2. IsFiniteSet(N) /\ N \subseteq DOMAIN lines /\ N = {m \in DOMAIN took : items[m] = i} /\ \A n \in N : lines[n].item = i
  BY <1>1, LinesInLine DEF LinesOf
<1>3. /\ \A s \in Batches : s \in Sources
      /\ NoBatch \in Sources /\ NoBatch \in SourcesOf(i)
  BY DEF Sources, SourcesOf
<1>4. ASSUME NEW s \in Sources, s \in Batches \/ Total(pick) = Wanted(lines, i)
      PROVE  \A n \in N : took[n][s] = Shares(lines, n, pick, day)[s] /\ took[n][s] \in Int
  <2>1. SUFFICES ASSUME NEW n \in N PROVE took[n][s] = Shares(lines, n, pick, day)[s] /\ took[n][s] \in Int
    OBVIOUS
  <2>2. n \in DOMAIN lines /\ lines[n].item = i /\ took[n] = SplitOverShares(lines, n, pick, day)
    BY <1>1, <1>2 DEF SplitOf
  <2>3. Picked(pick, lines[n].item)
    BY <2>2
  <2>4. PICK split, shares : split = SplitOverShares(lines, n, pick, day) /\ shares = Shares(lines, n, pick, day)
    OBVIOUS
  <2>5. /\ Picked(split, lines[n].item)
        /\ \A t \in Batches : split[t] = shares[t]
        /\ Total(pick) >= From(lines, n) + lines[n].qty => split = shares
    BY <2>2, <2>3, <2>4, SplitDraws
  <2>6. split[s] \in Int
    BY <2>5 DEF Picked, Quantities
  <2>7. From(lines, n) + lines[n].qty <= Wanted(lines, i)
    BY <2>2, FromUpTo
  <2>8. From(lines, n) \in Nat /\ lines[n].qty \in Nat
    BY <2>2, FromTyped
  <2>9. Total(pick) = Wanted(lines, i) => Total(pick) >= From(lines, n) + lines[n].qty
    <3>1. Wanted(lines, i) \in Nat
      BY LinesInLine
    <3>2. QED
      BY <2>7, <2>8, <3>1
  <2>10. split[s] = shares[s]
    BY <1>4, <2>5, <2>9
  <2>11. QED
    BY <2>2, <2>4, <2>6, <2>10
<1>5. ASSUME NEW s \in SourcesOf(i), s \in Batches \/ Total(pick) = Wanted(lines, i)
      PROVE  Moves(items, took, i, s) <= pick[s]
  <2>1. s \in Sources
    BY SourcesFinite
  <2>2. PICK e : e = [n \in N |-> took[n][s]]
    OBVIOUS
  <2>3. \A n \in N : took[n][s] = Shares(lines, n, pick, day)[s] /\ took[n][s] \in Int
    BY <1>4, <1>5, <2>1
  <2>4. e \in [N -> Int] /\ \A n \in N : e[n] = Shares(lines, n, pick, day)[s]
    BY <2>2, <2>3
  <2>5. Total(e) <= pick[s]
    BY <1>1, <2>4, SharesInAll
  <2>6. Moves(items, took, i, s) = Total(e)
    BY <1>2, <2>2 DEF Moves
  <2>7. QED
    BY <2>5, <2>6
<1>6. ASSUME NEW s \in Batches, s \notin SourcesOf(i)
      PROVE  Moves(items, took, i, s) <= pick[s]
  <2>1. pick[s] = 0
    BY <1>3, <1>6 DEF Picked
  <2>2. PICK e : e = [n \in N |-> took[n][s]]
    OBVIOUS
  <2>3. \A n \in N : took[n][s] = 0
    <3>1. SUFFICES ASSUME NEW n \in N PROVE took[n][s] = 0
      OBVIOUS
    <3>2. n \in DOMAIN lines /\ lines[n].item = i /\ took[n] = SplitOverShares(lines, n, pick, day)
      BY <1>1, <1>2 DEF SplitOf
    <3>3. Picked(pick, lines[n].item)
      BY <3>2
    <3>4. PICK split : split = SplitOverShares(lines, n, pick, day)
      OBVIOUS
    <3>5. Picked(split, lines[n].item)
      BY <3>2, <3>3, <3>4, SplitDraws
    <3>6. QED
      BY <1>3, <1>6, <3>2, <3>4, <3>5 DEF Picked
  <2>4. e \in [N -> Int] /\ \A n \in N : e[n] = 0
    BY <2>2, <2>3
  <2>5. Total(e) = 0
    BY <1>2, <2>4, TotalOfNone
  <2>6. Moves(items, took, i, s) = Total(e)
    BY <1>2, <2>2 DEF Moves
  <2>7. QED
    BY <2>1, <2>5, <2>6
<1>7. \A s \in Batches : Moves(items, took, i, s) <= pick[s]
  BY <1>5, <1>6
<1>8. Total(pick) = Wanted(lines, i) => Moves(items, took, i, NoBatch) <= pick[NoBatch]
  BY <1>3, <1>5
<1>9. QED
  BY <1>7, <1>8


\* Of one line.
LEMMA OneMoved ==
    ASSUME NEW j, NEW q \in Quantities, NEW i, NEW s \in Sources
    PROVE  Moves(<<j>>, <<q>>, i, s) = IF i = j THEN q[s] ELSE 0
<1>1. PICK N, e, f : N = {m \in DOMAIN <<q>> : <<j>>[m] = i} /\ e = [n \in N |-> <<q>>[n][s]] /\ f = [n \in N |-> 0]
  OBVIOUS
<1>2. N = IF i = j THEN {1} ELSE {}
  <2>1. DOMAIN <<q>> = DOMAIN <<j>>
    OBVIOUS
  <2>2. N = LinesAt(<<j>>, i)
    BY <1>1, <2>1 DEF LinesAt
  <2>3. LinesAt(<<j>>, i) = IF i = j THEN {1} ELSE {}
    BY DEF LinesAt
  <2>4. QED
    BY <2>2, <2>3
<1>3. IsFiniteSet(N)
  BY <1>2, FS_EmptySet, FS_Singleton
<1>4. q[s] \in Int
  BY DEF Quantities
<1>5. \A n \in N : n = 1
  BY <1>2
<1>6. e \in [N -> Int] /\ f \in [N -> Int] /\ \A n \in N : e[n] = q[s] /\ f[n] = 0
  BY <1>1, <1>4, <1>5
<1>7. Total(f) = 0
  BY <1>3, <1>6, TotalOfNone
<1>8. Moves(<<j>>, <<q>>, i, s) = Total(e)
  BY <1>1 DEF Moves
<1>9. CASE i = j
  <2>1. 1 \in N /\ \A n \in N \ {1} : f[n] = e[n]
    BY <1>2, <1>9
  <2>2. Total(e) = Total(f) - f[1] + e[1]
    BY <1>3, <1>6, <2>1, TotalChanged
  <2>3. QED
    BY <1>4, <1>6, <1>7, <1>8, <1>9, <2>1, <2>2
<1>10. CASE i # j
  <2>1. \A n \in N : f[n] = e[n]
    BY <1>2, <1>10
  <2>2. Total(f) = Total(e)
    BY <1>6, <2>1, TotalOfSame
  <2>3. QED
    BY <1>7, <1>8, <1>10, <2>2
<1>11. QED
  BY <1>9, <1>10

\* As the request finds an item kept by batch, it is; unless it is switched meanwhile.
KeptRight(kept) == \A i \in Items : switched[i] = 0 => (i \in kept <=> i \in tracked)

\* What is taken of item i is there.
Covers(op, took, i) ==
    /\ \A s \in Batches : Moves(ItemsMoved(op), took, i, s) <= ledger[<<Place(op), i, s>>]
    /\ <<Place(op), i>> \notin past \cup SoldPast(op) =>
          /\ \/ MovedOf(ItemsMoved(op), took, i) <= onHand[<<Place(op), i>>]
             \/ op.kind = "sendBack" \/ SentBackAt(Place(op))
          /\ switched[i] = 0 => Moves(ItemsMoved(op), took, i, NoBatch) <= ledger[<<Place(op), i, NoBatch>>]

\* What isn't moved is covered.
LEMMA CoversRest ==
    ASSUME ShortInv, NEW op, Place(op) \in Branches, NEW took, Sound(op, took), ItemsMoved(op) \in Seq(Items),
           NEW i \in Items, i \notin MovedItems(op)
    PROVE  Covers(op, took, i)
<1>1. PICK items, b : items = ItemsMoved(op) /\ b = Place(op)
  OBVIOUS
<1>2. items \in Seq(Items) /\ took \in Seq(Quantities) /\ DOMAIN took = DOMAIN items /\ i \notin ToSet(items) /\ b \in Branches
  BY <1>1 DEF Sound, Fits, MovedItems
<1>3. \A s \in Sources : Moves(items, took, i, s) = 0
  BY <1>2, MovesTyped
<1>4. MovedOf(items, took, i) = 0
  <2>1. PICK f : f = [s \in Sources |-> Moves(items, took, i, s)]
    OBVIOUS
  <2>2. f \in [Sources -> Int] /\ \A s \in Sources : f[s] = 0
    BY <1>3, <2>1
  <2>3. QED
    BY <2>1, <2>2, SourcesFinite, TotalOfNone DEF MovedOf
<1>5. NoBatch \in Sources /\ Batches \subseteq Sources
  BY DEF Sources
<1>6. /\ \A s \in Batches : ledger[<<b, i, s>>] >= 0
      /\ <<b, i>> \notin past => /\ onHand[<<b, i>>] >= 0 \/ SentBackAt(b)
                                 /\ switched[i] = 0 => ledger[<<b, i, NoBatch>>] >= 0
  BY <1>2 DEF ShortInv, NotShort
<1>7. QED
  BY <1>1, <1>3, <1>4, <1>5, <1>6 DEF Covers

\* What one line moves is covered, when it is there.
LEMMA CoversOne ==
    ASSUME ShortInv, NEW op, NEW b \in Branches, b = Place(op), NEW j \in Items, ItemsMoved(op) = <<j>>, NEW q,
           NEW took, took = <<q>>, Sound(op, took), Picked(q, j),
           \A s \in Batches : q[s] <= ledger[<<b, j, s>>],
           <<b, j>> \notin past => Total(q) <= onHand[<<b, j>>] \/ op.kind = "sendBack",
           <<b, j>> \notin past /\ switched[j] = 0 => q[NoBatch] <= ledger[<<b, j, NoBatch>>],
           NEW i \in Items
    PROVE  Covers(op, took, i)
<1>1. CASE i # j
  <2>1. i \notin MovedItems(op) /\ <<j>> \in Seq(Items)
    BY <1>1 DEF MovedItems, ToSet
  <2>2. QED
    BY <2>1, CoversRest
<1>2. CASE i = j
  <2>1. q \in Quantities /\ NoBatch \in Sources /\ Batches \subseteq Sources
    BY DEF Picked, Sources
  <2>2. \A s \in Sources : Moves(<<j>>, <<q>>, j, s) = q[s]
    BY <2>1, OneMoved
  <2>3. [s \in Sources |-> Moves(<<j>>, <<q>>, j, s)] = q
    BY <2>1, <2>2 DEF Quantities
  <2>4. MovedOf(<<j>>, <<q>>, j) = Total(q)
    BY <2>3 DEF MovedOf
  <2>5. QED
    BY <1>2, <2>1, <2>2, <2>4 DEF Covers
<1>3. QED
  BY <1>1, <1>2

\* createStockAdjustment OUT.
LEMMA AdjustedCovered ==
    ASSUME ShortInv, NEW op \in Ops, op.kind = "adjustOut", NEW day \in Int, NEW kept, KeptRight(kept),
           NEW took \in Outcome(op, day, kept), NEW i \in Items
    PROVE  Covers(op, took, i)
<1>1. GoodsInv /\ BookInv /\ TypeOK /\ DocsKept /\ OfItem
  BY DEF ShortInv, GoodsInv, BookInv
<1>2. op \in CountOps
  BY OpKinds
<1>3. PICK b, j, qty : b = op.branch /\ j = op.item /\ qty = op.qty
  OBVIOUS
<1>4. /\ b \in Branches /\ j \in Items /\ qty \in Nat /\ b = Place(op) /\ ItemsMoved(op) = <<j>>
      /\ op.batch # NoBatch => op.batch \in Batches /\ op.batch \in SourcesOf(j)
  BY <1>2, <1>3 DEF CountOps, Positive, BatchFits, SourcesOf, Sources, Place, ItemsMoved
<1>5. Sound(op, took)
  BY <1>1, OutcomeSound DEF Possible
<1>6. took \in AdjustedOut(op, day, kept)
  BY DEF Outcome
<1>7. onHand[<<b, j>>] \in Int /\ onHand[<<b, j>>] >= qty
  <2>1. onHand[<<b, j>>] \in Int
    BY <1>1, <1>4 DEF TypeOK
  <2>2. onHand[<<b, j>>] < qty => AdjustedOut(op, day, kept) = {}
    BY <1>3 DEF AdjustedOut
  <2>3. QED
    BY <1>4, <1>6, <2>1, <2>2
<1>8. /\ \A s \in Batches : ledger[<<b, j, s>>] \in Int /\ ledger[<<b, j, s>>] >= 0
      /\ <<b, j>> \notin past /\ switched[j] = 0 => ledger[<<b, j, NoBatch>>] >= 0
      /\ ledger[<<b, j, NoBatch>>] \in Int
  <2>1. \A s \in Sources : ledger[<<b, j, s>>] \in Int
    BY <1>1, <1>4, RowTyped
  <2>2. NoBatch \in Sources /\ Batches \subseteq Sources
    BY DEF Sources
  <2>3. QED
    BY <1>4, <2>1, <2>2 DEF ShortInv, NotShort
<1>9. NoBatch \in Sources /\ NoBatch \in SourcesOf(j) /\ NoBatch \notin Batches /\ Batches \subseteq Sources
  BY StockAssumption DEF Sources, SourcesOf
<1>10. CASE j \notin kept
  <2>1. PICK q : q = Whole(qty, NoBatch)
    OBVIOUS
  <2>2. took = <<q>>
    BY <1>3, <1>6, <1>7, <1>10, <2>1 DEF AdjustedOut
  <2>3. Picked(q, j) /\ Total(q) = qty /\ \A s \in Sources : q[s] = IF s = NoBatch THEN qty ELSE 0
    BY <1>4, <1>9, <2>1, WholePicked, WholeSum
  <2>4. <<b, j>> \notin past /\ switched[j] = 0 => q[NoBatch] <= ledger[<<b, j, NoBatch>>]
    <3>1. SUFFICES ASSUME switched[j] = 0 PROVE q[NoBatch] <= ledger[<<b, j, NoBatch>>]
      OBVIOUS
    <3>2. WithoutBatches(j)
      BY <1>4, <1>10, <3>1 DEF ShortInv, KeptAs, KeptRight
    <3>3. ledger[<<b, j, NoBatch>>] = onHand[<<b, j>>]
      BY <1>1, <1>4, <3>2, AllWithout
    <3>4. QED
      BY <1>7, <1>9, <2>3, <3>3
  <2>5. \A s \in Batches : q[s] <= ledger[<<b, j, s>>]
    BY <1>8, <1>9, <2>3
  <2>6. Total(q) <= onHand[<<b, j>>]
    BY <1>7, <2>3
  <2>7. QED
    BY <1>4, <1>5, <2>2, <2>3, <2>4, <2>5, <2>6, CoversOne
<1>11. CASE j \in kept /\ op.batch # NoBatch
  <2>1. PICK q, s : q = Whole(qty, s) /\ s = op.batch
    OBVIOUS
  <2>2. s \in Batches /\ s \in SourcesOf(j) /\ s \in Sources /\ ItemOf[s] = j
    BY <1>4, <1>9, <1>11, <2>1 DEF SourcesOf
  <2>3. inBatch[<<b, s>>] \in Int
    BY <1>1, <1>4, <2>2 DEF TypeOK
  <2>4. took = <<q>> /\ inBatch[<<b, s>>] >= qty
    <3>1. inBatch[<<b, s>>] < qty => AdjustedOut(op, day, kept) = {}
      BY <1>3, <1>7, <1>11, <2>1 DEF AdjustedOut
    <3>2. AdjustedOut(op, day, kept) \subseteq {<<q>>}
      BY <1>3, <1>7, <1>11, <2>1 DEF AdjustedOut
    <3>3. QED
      BY <1>4, <1>6, <2>3, <3>1, <3>2
  <2>5. Picked(q, j) /\ Total(q) = qty /\ \A t \in Sources : q[t] = IF t = s THEN qty ELSE 0
    BY <1>4, <2>1, <2>2, WholePicked, WholeSum
  <2>6. inBatch[<<b, s>>] = ledger[<<b, j, s>>]
    BY <1>1, <1>4, <2>2 DEF GoodsInv, LedgerKept
  <2>7. \A t \in Batches : q[t] <= ledger[<<b, j, t>>]
    BY <1>8, <1>9, <2>4, <2>5, <2>6
  <2>8. <<b, j>> \notin past /\ switched[j] = 0 => q[NoBatch] <= ledger[<<b, j, NoBatch>>]
    BY <1>8, <1>9, <2>2, <2>5
  <2>9. Total(q) <= onHand[<<b, j>>]
    BY <1>7, <2>5
  <2>10. QED
    BY <1>4, <1>5, <2>4, <2>5, <2>7, <2>8, <2>9, CoversOne
<1>12. CASE j \in kept /\ op.batch = NoBatch
  <2>1. PICK short, all : short = FALSE /\ all = TRUE
    OBVIOUS
  <2>2. PICK q \in TakeFromBatches(b, j, qty, day, short, all) : took = <<q>>
    BY <1>3, <1>6, <1>7, <1>12, <2>1 DEF AdjustedOut
  <2>3. Picked(q, j)
    BY <1>1, <1>4, TakeDraws
  <2>4. Total(q) <= qty /\ Total(q) \in Nat
    BY <1>1, <1>4, TakeDraws
  <2>5. \A s \in SourcesOf(j) : q[s] <= AtLeast0(Lots(b, j)[s])
    BY <1>1, <1>4, TakeDraws
  <2>6. \A s \in SourcesOf(j) : Lots(b, j)[s] = ledger[<<b, j, s>>]
    BY <1>1, <1>4, LotsAreLedger
  <2>7. ASSUME NEW s \in Batches PROVE q[s] <= ledger[<<b, j, s>>]
    <3>1. CASE s \in SourcesOf(j)
      BY <1>8, <2>5, <2>6, <3>1 DEF AtLeast0
    <3>2. CASE s \notin SourcesOf(j)
      BY <1>8, <1>9, <2>3, <3>2 DEF Picked
    <3>3. QED
      BY <3>1, <3>2
  <2>8. <<b, j>> \notin past /\ switched[j] = 0 => q[NoBatch] <= ledger[<<b, j, NoBatch>>]
    BY <1>8, <1>9, <2>5, <2>6 DEF AtLeast0
  <2>9. Total(q) <= onHand[<<b, j>>]
    BY <1>4, <1>7, <2>4
  <2>10. QED
    BY <1>4, <1>5, <2>2, <2>3, <2>7, <2>8, <2>9, CoversOne
<1>13. QED
  BY <1>10, <1>11, <1>12


\* What the lines want of an item is what is moved of it.
LEMMA MovedIsWanted ==
    ASSUME NEW op, op.kind \in {"sale", "transfer"}, op.lines \in Seq(Goods), ItemsMoved(op) \in Seq(Items),
           NEW took, Sound(op, took), NEW i
    PROVE  MovedOf(ItemsMoved(op), took, i) = Wanted(op.lines, i)
<1>1. MovedOf(ItemsMoved(op), took, i) = Asked(op, i)
  BY AskedMoved
<1>2. ItemsMoved(op) = [n \in DOMAIN op.lines |-> op.lines[n].item] /\ \A n : LineQty(op, n) = op.lines[n].qty
  BY DEF ItemsMoved, LineQty
<1>3. LinesAt(ItemsMoved(op), i) = {m \in DOMAIN op.lines : op.lines[m].item = i}
  BY <1>2 DEF LinesAt
<1>4. AskedBy(op, i) = [n \in {m \in DOMAIN op.lines : op.lines[m].item = i} |-> op.lines[n].qty]
  BY <1>2, <1>3 DEF AskedBy
<1>5. QED
  BY <1>1, <1>4 DEF Asked, Wanted

\* takeFromBatches: what sales and transfers take.
LEMMA TakenCovered ==
    ASSUME ShortInv, NEW op \in Ops, op.kind \in {"sale", "transfer"}, Possible(op), NEW day \in Int, NEW kept, KeptRight(kept),
           NEW took \in Outcome(op, day, kept), NEW i \in Items
    PROVE  Covers(op, took, i)
<1>1. GoodsInv /\ BookInv /\ TypeOK /\ DocsKept /\ OfItem
  BY DEF ShortInv, GoodsInv, BookInv
<1>2. PICK b, lines, items : b = op.branch /\ lines = op.lines /\ items = ItemsMoved(op)
  OBVIOUS
<1>3. /\ b \in Branches /\ b = Place(op) /\ lines \in Seq(Goods) /\ items = [n \in DOMAIN lines |-> lines[n].item]
      /\ op \in SaleOps \/ op \in TransferOps
  BY <1>2, OpKinds DEF SaleOps, TransferOps, Place, ItemsMoved
<1>4. items \in Seq(Items)
  BY <1>3, LinesMoved
<1>5. Sound(op, took)
  BY <1>1, OutcomeSound
<1>6. took \in Seq(Quantities) /\ DOMAIN took = DOMAIN lines
  BY <1>2, <1>3, <1>5 DEF Sound, Fits
<1>7. PICK short : took \in TakenOut(op, day, kept, short) /\ (op.kind = "transfer" => short = FALSE)
  BY DEF Outcome
<1>8. CASE i \notin MovedItems(op)
  BY <1>2, <1>3, <1>4, <1>5, <1>8, CoversRest
<1>9. CASE i \in MovedItems(op)
  <2>1. PICK m \in DOMAIN lines : lines[m].item = i
    BY <1>2, <1>3, <1>9 DEF MovedItems, ToSet
  <2>2. PICK picks : \A n \in DOMAIN op.lines :
              /\ picks[op.lines[n].item] \in TakenOf(op, op.lines[n].item, day, kept, short)
              /\ took[n] = SplitOverShares(op.lines, n, picks[op.lines[n].item], day)
    BY <1>3, <1>7, TakenOutPicks
  <2>3. PICK pick, want : pick = picks[i] /\ want = Wanted(lines, i)
    OBVIOUS
  <2>4. pick \in TakenOf(op, i, day, kept, short)
    BY <1>2, <2>1, <2>2, <2>3
  <2>5. SplitOf(lines, took, i, pick, day)
    BY <1>2, <2>2, <2>3 DEF SplitOf, LinesOf
  <2>6. /\ Picked(pick, i)
        /\ i \notin kept => pick = Whole(want, NoBatch)
        /\ i \in kept => pick \in TakeFromBatches(b, i, want, day, short, FALSE)
        /\ ~short => onHand[<<b, i>>] >= want
    <3>1. Picked(pick, i)
      BY <1>1, <1>3, <2>4, TakenOfDraws
    <3>2. i \notin kept => pick = Whole(Wanted(op.lines, i), NoBatch)
      BY <2>4 DEF TakenOf
    <3>3. i \in kept => pick \in TakeFromBatches(op.branch, i, Wanted(op.lines, i), day, short, FALSE)
      BY <1>1, <1>3, <2>4, TakenOfDraws
    <3>4. ~short => onHand[<<op.branch, i>>] >= Wanted(op.lines, i)
      <4>1. onHand[<<op.branch, i>>] \in Int /\ Wanted(op.lines, i) \in Nat
        BY <1>1, <1>2, <1>3, LinesInLine, RowTyped
      <4>2. ~short /\ onHand[<<op.branch, i>>] < Wanted(op.lines, i) => TakenOf(op, i, day, kept, short) = {}
        BY DEF TakenOf
      <4>3. QED
        BY <2>4, <4>1, <4>2
    <3>5. QED
      BY <1>2, <2>3, <3>1, <3>2, <3>3, <3>4
  <2>7. want \in Nat /\ onHand[<<b, i>>] \in Int
    BY <1>1, <1>3, <2>3, LinesInLine, RowTyped
  <2>8. /\ \A s \in Batches : Moves(items, took, i, s) <= pick[s]
        /\ Total(pick) = want => Moves(items, took, i, NoBatch) <= pick[NoBatch]
    BY <1>3, <1>6, <2>3, <2>5, <2>6, SplitMoves
  <2>9. NoBatch \in Sources /\ NoBatch \in SourcesOf(i) /\ NoBatch \notin Batches /\ Batches \subseteq Sources
    BY StockAssumption DEF Sources, SourcesOf
  <2>10. /\ \A s \in Sources : ledger[<<b, i, s>>] \in Int /\ pick[s] \in Int
         /\ \A s \in Sources : Moves(items, took, i, s) \in Int
    BY <1>1, <1>3, <1>4, <1>6, <2>6, RowTyped, MovesTyped DEF Picked, Quantities
  <2>11. /\ \A s \in Batches : ledger[<<b, i, s>>] >= 0
         /\ <<b, i>> \notin past /\ switched[i] = 0 => ledger[<<b, i, NoBatch>>] >= 0
    BY <1>3 DEF ShortInv, NotShort
  <2>12. \A s \in SourcesOf(i) : Lots(b, i)[s] = ledger[<<b, i, s>>]
    BY <1>1, <1>3, LotsAreLedger
  <2>13. Total(Lots(b, i)) = onHand[<<b, i>>]
    BY <1>1, <1>3, LotsAreLedger
  <2>14. /\ \A s \in Batches : pick[s] <= ledger[<<b, i, s>>]
         /\ /\ switched[i] = 0 /\ <<b, i>> \notin past /\ want <= onHand[<<b, i>>]
            => Total(pick) = want /\ pick[NoBatch] <= ledger[<<b, i, NoBatch>>]
    <3>1. CASE i \notin kept
      <4>1. Total(pick) = want /\ \A s \in Sources : pick[s] = IF s = NoBatch THEN want ELSE 0
        BY <2>6, <2>7, <2>9, <3>1, WholeSum
      <4>2. \A s \in Batches : pick[s] <= ledger[<<b, i, s>>]
        BY <2>9, <2>11, <4>1
      <4>3. ASSUME switched[i] = 0, want <= onHand[<<b, i>>] PROVE pick[NoBatch] <= ledger[<<b, i, NoBatch>>]
        <5>1. WithoutBatches(i)
          BY <3>1, <4>3 DEF ShortInv, KeptAs, KeptRight
        <5>2. ledger[<<b, i, NoBatch>>] = onHand[<<b, i>>]
          BY <1>1, <1>3, <5>1, AllWithout
        <5>3. QED
          BY <2>9, <4>1, <4>3, <5>2
      <4>4. QED
        BY <4>1, <4>2, <4>3
    <3>2. CASE i \in kept
      <4>1. PICK all : all = FALSE
        OBVIOUS
      <4>2. pick \in TakeFromBatches(b, i, want, day, short, all)
        BY <2>6, <3>2, <4>1
      <4>3. \A s \in SourcesOf(i) : pick[s] <= AtLeast0(Lots(b, i)[s])
        BY <1>1, <1>3, <2>7, <4>2, TakeDraws
      <4>4. ~all /\ AllThere(Lots(b, i), i) /\ want <= Total(Lots(b, i)) => Total(pick) = want
        BY <1>1, <1>3, <2>7, <4>2, TakeDraws
      <4>5. ASSUME NEW s \in Batches PROVE pick[s] <= ledger[<<b, i, s>>]
        <5>1. CASE s \in SourcesOf(i)
          BY <2>9, <2>10, <2>11, <2>12, <4>3, <5>1 DEF AtLeast0
        <5>2. CASE s \notin SourcesOf(i)
          BY <2>6, <2>9, <2>11, <5>2 DEF Picked
        <5>3. QED
          BY <5>1, <5>2
      <4>6. ASSUME switched[i] = 0, <<b, i>> \notin past, want <= onHand[<<b, i>>]
            PROVE  Total(pick) = want /\ pick[NoBatch] <= ledger[<<b, i, NoBatch>>]
        <5>1. \A s \in SourcesOf(i) : s = NoBatch \/ s \in Batches
          BY DEF SourcesOf
        <5>2. AllThere(Lots(b, i), i)
          BY <2>11, <2>12, <4>6, <5>1 DEF AllThere
        <5>3. Total(pick) = want
          BY <2>13, <4>1, <4>4, <4>6, <5>2
        <5>4. pick[NoBatch] <= ledger[<<b, i, NoBatch>>]
          BY <2>9, <2>10, <2>11, <2>12, <4>3, <4>6 DEF AtLeast0
        <5>5. QED
          BY <5>3, <5>4
      <4>7. QED
        BY <4>5, <4>6
    <3>3. QED
      BY <3>1, <3>2
  <2>15. <<b, i>> \notin past \cup SoldPast(op) => want <= onHand[<<b, i>>]
    <3>1. CASE op.kind = "transfer"
      BY <1>7, <2>6, <2>7, <3>1
    <3>2. CASE op.kind = "sale"
      <4>1. i \in ItemsOf(lines)
        BY <2>1 DEF ItemsOf
      <4>2. want > onHand[<<b, i>>] => <<b, i>> \in SoldPast(op)
        BY <1>2, <2>3, <3>2, <4>1 DEF SoldPast
      <4>3. QED
        BY <2>7, <4>2
    <3>3. QED
      BY <3>1, <3>2
  <2>16. MovedOf(items, took, i) = want
    <3>1. op.lines \in Seq(Goods) /\ ItemsMoved(op) \in Seq(Items)
      BY <1>2, <1>3, <1>4
    <3>2. MovedOf(ItemsMoved(op), took, i) = Wanted(op.lines, i)
      BY <1>5, <3>1, MovedIsWanted
    <3>3. QED
      BY <1>2, <2>3, <3>2
  <2>17. \A s \in Batches : Moves(items, took, i, s) <= ledger[<<b, i, s>>]
    BY <2>8, <2>9, <2>10, <2>14
  <2>18. ASSUME <<b, i>> \notin past \cup SoldPast(op), switched[i] = 0
         PROVE  Moves(items, took, i, NoBatch) <= ledger[<<b, i, NoBatch>>]
    <3>1. Total(pick) = want /\ pick[NoBatch] <= ledger[<<b, i, NoBatch>>]
      BY <2>14, <2>15, <2>18
    <3>2. QED
      BY <2>8, <2>9, <2>10, <3>1
  <2>19. QED
    BY <1>2, <1>3, <2>15, <2>16, <2>17, <2>18 DEF Covers
<1>10. QED
  BY <1>8, <1>9

\* createReturn of a purchase.
LEMMA SentCovered ==
    ASSUME ShortInv, NEW op \in Ops, op.kind = "sendBack", Possible(op), NEW day \in Int, NEW kept,
           NEW took \in Outcome(op, day, kept), NEW i \in Items
    PROVE  Covers(op, took, i)
<1>1. GoodsInv /\ BookInv /\ TypeOK /\ DocsKept /\ OfItem /\ PurchasesKept
  BY DEF ShortInv, GoodsInv, BookInv
<1>2. PICK x, n, qty : x = docs[op.doc] /\ n = op.line /\ qty = op.qty
  OBVIOUS
<1>3. /\ op.doc \in Documents /\ Made(op.doc) /\ x \in Doc /\ n \in DOMAIN x.lines /\ x.kind = "purchase" /\ Found(op)
      /\ qty \in Nat /\ OnDocument(op)
  BY <1>1, <1>2, FoundDoc, OpKinds DEF OnDocument, Found, Possible, Is, LineOps, Positive
<1>4. PICK b, j, s : b = x.branch /\ j = x.lines[n].item /\ s = CameInto(x, n)
  OBVIOUS
<1>5. /\ b \in Branches /\ j \in Items /\ b = Place(op) /\ ItemsMoved(op) = <<j>>
      /\ s \in SourcesOf(j)
  <2>1. b \in Branches /\ x.lines \in Seq(Goods \cup GoodsIn)
    BY <1>3, <1>4, DocParts
  <2>2. j \in Items
    BY <1>3, <1>4, <2>1, LinesMoved
  <2>3. b = Place(op) /\ ItemsMoved(op) = <<j>>
    BY <1>2, <1>4 DEF Place, ItemsMoved
  <2>4. s \in SourcesOf(j)
    BY <1>1, <1>2, <1>3, <1>4, SentFrom
  <2>5. QED
    BY <2>1, <2>2, <2>3, <2>4
<1>6. Sound(op, took)
  BY <1>1, OutcomeSound
<1>7. PICK q : q = Whole(qty, s)
  OBVIOUS
<1>8. PICK there : there = IF s = NoBatch THEN onHand[<<b, j>>] ELSE inBatch[<<b, s>>]
  OBVIOUS
<1>9. took \in SentBack(op)
  BY DEF Outcome
<1>10. took = <<q>> /\ ~(there < qty)
  BY <1>2, <1>4, <1>7, <1>8, <1>9 DEF SentBack
<1>11. s \in Sources /\ (s # NoBatch => s \in Batches /\ ItemOf[s] = j) /\ NoBatch \in Sources /\ NoBatch \notin Batches /\ Batches \subseteq Sources
  BY <1>5, SourcesFinite, StockAssumption DEF SourcesOf, Sources
<1>12. Picked(q, j) /\ Total(q) = qty /\ \A t \in Sources : q[t] = IF t = s THEN qty ELSE 0
  BY <1>3, <1>5, <1>7, <1>11, WholePicked, WholeSum
<1>13. /\ \A t \in Sources : ledger[<<b, j, t>>] \in Int
       /\ \A t \in Batches : ledger[<<b, j, t>>] >= 0
       /\ <<b, j>> \notin past /\ switched[j] = 0 => ledger[<<b, j, NoBatch>>] >= 0
       /\ onHand[<<b, j>>] \in Int
  BY <1>1, <1>5, RowTyped DEF ShortInv, NotShort
<1>14. s # NoBatch => there = ledger[<<b, j, s>>]
  BY <1>1, <1>5, <1>8, <1>11 DEF GoodsInv, LedgerKept
<1>15. \A t \in Batches : q[t] <= ledger[<<b, j, t>>]
  BY <1>3, <1>10, <1>11, <1>12, <1>13, <1>14
<1>16. ASSUME <<b, j>> \notin past, switched[j] = 0
       PROVE  q[NoBatch] <= ledger[<<b, j, NoBatch>>]
  <2>1. CASE s # NoBatch
    BY <1>11, <1>12, <1>13, <1>16, <2>1
  <2>2. CASE s = NoBatch
    <3>1. PICK u \in SourcesOf(j) : x.out[n] = Whole(x.lines[n].qty, u)
      BY <1>1, <1>2, <1>3, <1>4 DEF PurchasesKept, Is
    <3>2. x.lines[n].qty \in Positive
      BY <1>3, DocParts, LinesMoved
    <3>3. u \in Sources /\ \A t \in Sources : x.out[n][t] = IF t = u THEN x.lines[n].qty ELSE 0
      BY <3>1, <3>2, SourcesFinite, WholeSum DEF Positive
    <3>4. x.out[n][u] > 0
      BY <3>2, <3>3 DEF Positive
    <3>5. x.out[n][s] > 0
      BY <1>4, <3>3, <3>4 DEF CameInto
    <3>6. n \in DocLines(x, j)
      BY <1>3, <1>4 DEF DocLines
    <3>7. ~InBatches(j)
      BY <1>2, <1>3, <2>2, <3>5, <3>6 DEF InBatches, Is
    <3>8. WithoutBatches(j)
      BY <1>5, <1>16, <3>7 DEF ShortInv, KeptAs
    <3>9. ledger[<<b, j, NoBatch>>] = onHand[<<b, j>>]
      BY <1>1, <1>5, <3>8, AllWithout
    <3>10. QED
      BY <1>3, <1>8, <1>10, <1>11, <1>12, <1>13, <2>2, <3>9
  <2>3. QED
    BY <2>1, <2>2
<1>17. QED
  BY <1>5, <1>6, <1>10, <1>12, <1>15, <1>16, CoversOne


(***************************************************************************)
(* Operations leave nothing short.                                         *)
(***************************************************************************)

LEMMA MovesFrom ==
    ASSUME NEW op, NEW took, Sound(op, took), ItemsMoved(op) \in Seq(Items), NEW i, NEW s \in Sources
    PROVE  /\ Moves(ItemsMoved(op), took, i, s) \in Nat
           /\ (\A n \in LinesAt(ItemsMoved(op), i) : took[n][s] = 0) => Moves(ItemsMoved(op), took, i, s) = 0
           /\ s \notin SourcesOf(i) => Moves(ItemsMoved(op), took, i, s) = 0
<1>1. PICK items, N : items = ItemsMoved(op) /\ N = LinesAt(items, i)
  OBVIOUS
<1>2. items \in Seq(Items) /\ took \in Seq(Quantities) /\ DOMAIN took = DOMAIN items
  BY <1>1 DEF Sound, Fits
<1>3. IsFiniteSet(N) /\ N \in SUBSET DOMAIN items
  BY <1>1, <1>2, LinesAtFinite
<1>4. N = {m \in DOMAIN took : items[m] = i} /\ \A n \in N : items[n] = i /\ n \in DOMAIN took
  BY <1>1, <1>2 DEF LinesAt
<1>5. PICK f : f = [n \in N |-> took[n][s]]
  OBVIOUS
<1>6. Moves(items, took, i, s) = Total(f)
  BY <1>4, <1>5 DEF Moves
<1>7. \A n \in N : took[n][s] \in Int /\ took[n][s] >= 0 /\ (s \notin SourcesOf(i) => took[n][s] = 0)
  BY <1>1, <1>4 DEF Sound, Picked, Quantities
<1>8. f \in [N -> Int] /\ \A n \in N : f[n] = took[n][s]
  BY <1>5, <1>7
<1>9. Total(f) \in Int /\ Total(f) >= 0
  BY <1>3, <1>7, <1>8, TotalType
<1>10. (\A n \in N : took[n][s] = 0) => Total(f) = 0
  BY <1>3, <1>8, TotalOfNone
<1>11. QED
  BY <1>1, <1>6, <1>7, <1>9, <1>10

\* What went back stays so.
LEMMA BackGrows ==
    ASSUME GoodsInv, NEW op \in Ops, op.kind \in {"return", "sendBack"}, Possible(op), NEW day \in Int, NEW kept,
           NEW took \in Outcome(op, day, kept), NEW y, y = Document(op, took, day)
    PROVE  y.back[op.line] # Nothing
<1>1. BookInv /\ TypeOK /\ DocsKept /\ OnDocument(op) /\ Found(op)
  BY DEF GoodsInv, BookInv, OnDocument, Found
<1>2. PICK x, n : x = docs[op.doc] /\ n = op.line
  OBVIOUS
<1>3. Sound(op, took)
  BY <1>1, OutcomeSound
<1>4. took \in Seq(Quantities) /\ DOMAIN took = DOMAIN ItemsMoved(op)
  BY <1>3 DEF Sound, Fits
<1>5. y.back = [x.back EXCEPT ![n] = Added(@, took[1])]
  BY <1>1, <1>2, <1>4, DocumentChanged
<1>6. op.doc \in Documents /\ x # NoDocument /\ n \in DOMAIN x.lines /\ op.qty \in Positive
  BY <1>1, <1>2, FoundDoc, OpKinds DEF Made, LineOps
<1>7. DOMAIN x.back = DOMAIN x.lines
  BY <1>1, <1>2, <1>6 DEF TypeOK
<1>8. y.back[n] = Added(x.back[n], took[1])
  BY <1>5, <1>6, <1>7
<1>9. PICK f, g, h : f = x.back[n] /\ g = took[1] /\ h = y.back[n]
  OBVIOUS
<1>10. Picked(g, x.lines[n].item) /\ Total(g) = op.qty
  BY <1>1, <1>2, <1>9, ComesBack
<1>11. LineKept(x, n)
  BY <1>1, <1>2, <1>6 DEF DocsKept, Made
<1>12. Picked(f, x.lines[n].item)
  BY <1>9, <1>11 DEF LineKept
<1>13. f \in Quantities /\ g \in Quantities /\ \A s \in Sources : f[s] >= 0
  BY <1>10, <1>12 DEF Picked
<1>14. Total(h) = Total(f) + Total(g)
  BY <1>8, <1>9, <1>13, AddedUp
<1>15. Total(f) \in Int /\ Total(f) >= 0
  BY <1>13, SourcesFinite, TotalType DEF Quantities
<1>16. Total(Nothing) = 0
  BY NothingPicked
<1>17. h # Nothing
  BY <1>6, <1>10, <1>14, <1>15, <1>16 DEF Positive
<1>18. QED
  BY <1>2, <1>9, <1>17

LEMMA SentGrows ==
    ASSUME GoodsInv, NEW op \in Ops, Possible(op), NEW day \in Int, NEW kept,
           NEW took \in Outcome(op, day, kept), Apply(op, took, day)
    PROVE  /\ \A b : SentBackAt(b) => SentBackAt(b)'
           /\ \A b : op.kind = "sendBack" /\ b = Place(op) => SentBackAt(b)'
<1>1. BookInv /\ TypeOK /\ DocsKept
  BY DEF GoodsInv, BookInv
<1>2. Sound(op, took) /\ Fits(op, took)
  BY <1>1, OutcomeSound DEF Sound
<1>3. /\ ~IsCount(op) => op.doc \in Documents /\ docs' = [docs EXCEPT ![op.doc] = Document(op, took, day)]
      /\ \A d \in Documents : docs'[d] # docs[d] => ~IsCount(op) /\ d = op.doc
  BY <1>1, <1>2, DocsAfter
<1>4. PICK y : y = Document(op, took, day)
  OBVIOUS
<1>5. docs \in [Documents -> Doc \cup {NoDocument}] /\ NoDocument \notin Doc
  BY <1>1, StockAssumption DEF TypeOK
<1>6. ASSUME NEW d \in Documents, NEW b, Made(d), SentBackOf(docs[d], b)
      PROVE  Made(d)' /\ SentBackOf(docs'[d], b)
  <2>1. CASE docs'[d] = docs[d]
    BY <1>6, <2>1 DEF Made
  <2>2. CASE docs'[d] # docs[d]
    <3>1. ~IsCount(op) /\ d = op.doc /\ docs'[d] = y
      BY <1>3, <1>4, <1>5, <2>2
    <3>2. Made(op.doc)
      BY <1>6, <3>1
    <3>3. OnDocument(op)
      BY <3>1, <3>2, DocOf DEF Possible, Makes
    <3>4. took \in Seq(Quantities) /\ DOMAIN took = DOMAIN ItemsMoved(op)
      BY <1>2 DEF Fits
    <3>5. PICK x : x = docs[op.doc]
      OBVIOUS
    <3>6. /\ y \in Doc /\ SameGoods(x, y)
          /\ y.back = IF op.kind \in {"return", "sendBack"} THEN [x.back EXCEPT ![op.line] = Added(@, took[1])] ELSE x.back
      BY <1>1, <1>4, <3>3, <3>4, <3>5, DocumentChanged
    <3>7. PICK n \in DOMAIN x.lines : x.back[n] # Nothing
      BY <1>6, <3>1, <3>5 DEF SentBackOf
    <3>8. y.back[n] # Nothing
      <4>1. CASE op.kind \in {"return", "sendBack"} /\ n = op.line
        BY <1>4, <4>1, BackGrows
      <4>2. CASE ~(op.kind \in {"return", "sendBack"} /\ n = op.line)
        BY <3>6, <3>7, <4>2
      <4>3. QED
        BY <4>1, <4>2
    <3>9. SentBackOf(y, b)
      BY <1>6, <3>1, <3>5, <3>6, <3>7, <3>8 DEF SentBackOf, SameGoods
    <3>10. QED
      BY <1>5, <3>1, <3>6, <3>9 DEF Made
  <2>3. QED
    BY <2>1, <2>2
<1>7. \A b : SentBackAt(b) => SentBackAt(b)'
  BY <1>6 DEF SentBackAt
<1>8. ASSUME op.kind = "sendBack", NEW b, b = Place(op) PROVE SentBackAt(b)'
  <2>1. PICK x : x = docs[op.doc]
    OBVIOUS
  <2>2. OnDocument(op) /\ ~IsCount(op) /\ Is(op.doc, "purchase") /\ op.line \in DOMAIN x.lines /\ x.branch = b
    BY <1>8, <2>1 DEF OnDocument, IsCount, Possible, Place
  <2>3. op.doc \in Documents /\ docs'[op.doc] = y
    BY <1>3, <1>4, <1>5, <2>2
  <2>4. took \in Seq(Quantities) /\ DOMAIN took = DOMAIN ItemsMoved(op)
    BY <1>2 DEF Fits
  <2>5. y \in Doc /\ SameGoods(x, y)
    BY <1>1, <1>4, <2>1, <2>2, <2>4, DocumentChanged
  <2>6. y.back[op.line] # Nothing
    BY <1>4, <1>8, BackGrows
  <2>7. SentBackOf(y, b)
    BY <2>1, <2>2, <2>5, <2>6 DEF SentBackOf, SameGoods, Is
  <2>8. Made(op.doc)' /\ SentBackOf(docs'[op.doc], b)
    BY <1>5, <2>3, <2>5, <2>7 DEF Made
  <2>9. SentBackAt(b)'
    BY <2>3, <2>8 DEF SentBackAt
  <2>10. QED
    BY <2>9
<1>9. QED
  BY <1>7, <1>8


LEMMA OfItemStays ==
    ASSUME GoodsInv, OfItem, NEW op \in Ops, Possible(op), NEW day, NEW took, Sound(op, took), Apply(op, took, day)
    PROVE  OfItem'
<1>1. BookInv /\ TypeOK /\ Fits(op, took)
  BY DEF GoodsInv, BookInv, Sound
<1>2. SUFFICES ASSUME NEW b \in Branches, NEW i \in Items, NEW s \in Sources, s \notin SourcesOf(i)
               PROVE  ledger'[<<b, i, s>>] = 0
  BY DEF OfItem
<1>3. ledger[<<b, i, s>>] = 0
  BY <1>2 DEF OfItem
<1>4. CASE op.kind = "reopening"
  <2>1. PICK t \in SourcesOf(op.item) : opening[<<op.branch, op.item, t>>] # NoOpening /\ CorrectOpening(op, t)
    BY <1>1, <1>4, AppliedAs
  <2>2. op \in CountOps
    BY <1>4, OpKinds
  <2>3. PICK change : change = op.qty - opening[<<op.branch, op.item, t>>]
    OBVIOUS
  <2>4. ledger'[<<b, i, s>>] = ledger[<<b, i, s>>] + IF b = op.branch /\ i = op.item /\ s = t THEN change ELSE 0
    BY <1>1, <2>1, <2>2, <2>3, CorrectedEach
  <2>5. ~(i = op.item /\ s = t)
    BY <1>2
  <2>6. QED
    BY <1>3, <2>4, <2>5
<1>5. CASE op.kind # "reopening"
  <2>1. PICK B, items, sign : B = Place(op) /\ items = ItemsMoved(op) /\ sign = Sign(op)
    OBVIOUS
  <2>2. RecordStock(B, items, took, sign) /\ items \in Seq(Items) /\ sign \in {-1, 1}
    BY <1>1, <1>5, <2>1, AppliedAs
  <2>3. ledger'[<<b, i, s>>] = ledger[<<b, i, s>>] + IF b = B THEN sign * Moves(items, took, i, s) ELSE 0
    BY <1>1, <2>2, RecordedEach
  <2>4. Moves(items, took, i, s) = 0
    BY <1>2, <2>1, <2>2, MovesFrom
  <2>5. QED
    BY <1>3, <2>2, <2>3, <2>4
<1>6. QED
  BY <1>4, <1>5

\* An opening count is of a source that had none.
LEMMA OpensNew ==
    ASSUME NEW op \in Ops, op.kind = "opening", NEW day, NEW kept, NEW took \in Outcome(op, day, kept)
    PROVE  \E s \in SourcesOf(op.item) : took = <<Whole(op.qty, s)>> /\ opening[<<op.branch, op.item, s>>] = NoOpening
<1>1. op \in CountOps
  BY OpKinds
<1>2. PICK s : s = Into(op, kept)
  OBVIOUS
<1>3. s \in SourcesOf(op.item) /\ s \in Sources
  BY <1>1, <1>2, IntoTyped
<1>4. took = <<Whole(op.qty, s)>> /\ Openings(op, kept) = {}
  BY <1>2 DEF Outcome
<1>5. op.item \in kept => s = op.batch
  BY <1>2 DEF Into
<1>6. opening[<<op.branch, op.item, s>>] = NoOpening
  BY <1>3, <1>4, <1>5 DEF Openings
<1>7. QED
  BY <1>3, <1>4, <1>6

LEMMA OpeningsOnlyStays ==
    ASSUME GoodsInv, OpeningsOnly, NEW op \in Ops, Possible(op), NEW day, NEW kept, NEW took \in Outcome(op, day, kept),
           Sound(op, took), Apply(op, took, day)
    PROVE  OpeningsOnly'
<1>1. BookInv /\ TypeOK /\ Fits(op, took)
  BY DEF GoodsInv, BookInv, Sound
<1>2. opening \in [Branches \X Items \X Sources -> Nat \cup {NoOpening}] /\ NoOpening = -1
  BY <1>1 DEF TypeOK, NoOpening
<1>3. SUFFICES ASSUME NEW b \in Branches, NEW i \in Items, NEW s \in Sources, <<b, i>> \notin moved'
               PROVE  ledger'[<<b, i, s>>] = OpenedWith(<<b, i, s>>)'
  BY DEF OpeningsOnly
<1>4. <<b, i>> \notin moved => ledger[<<b, i, s>>] = OpenedWith(<<b, i, s>>) /\ OpenedWith(<<b, i, s>>) \in Nat
  BY <1>2 DEF OpeningsOnly, OpenedWith
<1>5. CASE op.kind = "reopening"
  <2>1. PICK t \in SourcesOf(op.item) : opening[<<op.branch, op.item, t>>] # NoOpening /\ CorrectOpening(op, t)
    BY <1>1, <1>5, AppliedAs
  <2>2. op \in CountOps /\ op.branch \in Branches /\ op.item \in Items /\ op.qty \in Nat /\ t \in Sources
    BY <1>5, <2>1, OpKinds, SourcesFinite DEF CountOps, Positive
  <2>3. PICK change : change = op.qty - opening[<<op.branch, op.item, t>>]
    OBVIOUS
  <2>4. ledger'[<<b, i, s>>] = ledger[<<b, i, s>>] + IF b = op.branch /\ i = op.item /\ s = t THEN change ELSE 0
    BY <1>1, <2>1, <2>2, <2>3, CorrectedEach
  <2>5. opening' = [opening EXCEPT ![<<op.branch, op.item, t>>] = op.qty]
    BY <2>1 DEF CorrectOpening
  <2>6. moved' = moved
    BY <1>5 DEF Apply
  <2>7. CASE b = op.branch /\ i = op.item /\ s = t
    <3>1. opening'[<<b, i, s>>] = op.qty /\ opening[<<b, i, s>>] \in Nat /\ opening[<<b, i, s>>] # NoOpening
      BY <1>2, <2>1, <2>2, <2>5, <2>7
    <3>2. OpenedWith(<<b, i, s>>) = opening[<<b, i, s>>] /\ OpenedWith(<<b, i, s>>)' = op.qty
      BY <1>2, <2>2, <3>1 DEF OpenedWith
    <3>3. QED
      BY <1>3, <1>4, <2>2, <2>3, <2>4, <2>6, <2>7, <3>1, <3>2
  <2>8. CASE ~(b = op.branch /\ i = op.item /\ s = t)
    <3>1. opening'[<<b, i, s>>] = opening[<<b, i, s>>]
      BY <1>2, <2>2, <2>5, <2>8
    <3>2. ledger'[<<b, i, s>>] = ledger[<<b, i, s>>]
      BY <1>3, <1>4, <2>4, <2>6, <2>8
    <3>3. QED
      BY <1>3, <1>4, <2>6, <3>1, <3>2 DEF OpenedWith
  <2>9. QED
    BY <2>7, <2>8
<1>6. CASE op.kind # "reopening"
  <2>1. PICK B, items, sign : B = Place(op) /\ items = ItemsMoved(op) /\ sign = Sign(op)
    OBVIOUS
  <2>2. RecordStock(B, items, took, sign) /\ items \in Seq(Items) /\ sign \in {-1, 1}
    BY <1>1, <1>6, <2>1, AppliedAs
  <2>3. ledger'[<<b, i, s>>] = ledger[<<b, i, s>>] + IF b = B THEN sign * Moves(items, took, i, s) ELSE 0
    BY <1>1, <2>2, RecordedEach
  <2>4. CASE op.kind = "opening"
    <3>1. PICK t \in SourcesOf(op.item) : took = <<Whole(op.qty, t)>> /\ opening[<<op.branch, op.item, t>>] = NoOpening
      BY <2>4, OpensNew
    <3>2. op \in CountOps /\ op.branch \in Branches /\ op.item \in Items /\ op.qty \in Nat /\ op.qty > 0 /\ t \in Sources
      BY <2>4, <3>1, OpKinds, SourcesFinite DEF CountOps, Positive
    <3>3. B = op.branch /\ items = <<op.item>> /\ sign = 1
      BY <2>1, <2>4 DEF Place, ItemsMoved, Sign
    <3>4. PICK q : q = Whole(op.qty, t)
      OBVIOUS
    <3>5. q \in Quantities /\ took = <<q>> /\ took[1] = q /\ \A u \in Sources : q[u] = IF u = t THEN op.qty ELSE 0
      BY <3>1, <3>2, <3>4, WholeSum
    <3>6. Moves(items, took, i, s) = IF i = op.item THEN q[s] ELSE 0
      BY <3>3, <3>5, OneMoved
    <3>7. moved' = moved /\ opening' = [p \in DOMAIN opening |->
                                          IF p[1] = B /\ p[2] = op.item /\ took[1][p[3]] > 0 THEN op.qty ELSE opening[p]]
      BY <1>6, <2>1, <2>4 DEF Apply
    <3>8. opening'[<<b, i, s>>] = IF b = B /\ i = op.item /\ q[s] > 0 THEN op.qty ELSE opening[<<b, i, s>>]
      BY <1>2, <3>5, <3>7
    <3>9. CASE b = B /\ i = op.item /\ s = t
      <4>1. q[s] = op.qty /\ opening'[<<b, i, s>>] = op.qty
        BY <3>2, <3>5, <3>8, <3>9
      <4>2. ledger[<<b, i, s>>] = 0
        BY <1>3, <1>4, <3>1, <3>3, <3>7, <3>9 DEF OpenedWith
      <4>3. ledger'[<<b, i, s>>] = op.qty
        BY <2>3, <3>2, <3>3, <3>6, <3>9, <4>1, <4>2
      <4>4. OpenedWith(<<b, i, s>>)' = op.qty
        BY <1>2, <3>2, <4>1 DEF OpenedWith
      <4>5. QED
        BY <4>3, <4>4
    <3>10. CASE ~(b = B /\ i = op.item /\ s = t)
      <4>1. ~(b = B /\ i = op.item /\ q[s] > 0)
        BY <3>2, <3>5, <3>10
      <4>2. opening'[<<b, i, s>>] = opening[<<b, i, s>>]
        BY <3>8, <4>1
      <4>3. ledger'[<<b, i, s>>] = ledger[<<b, i, s>>]
        BY <1>3, <1>4, <2>3, <3>2, <3>3, <3>5, <3>6, <3>7, <3>10
      <4>4. QED
        BY <1>3, <1>4, <3>7, <4>2, <4>3 DEF OpenedWith
    <3>11. QED
      BY <3>9, <3>10
  <2>5. CASE op.kind # "opening"
    <3>1. moved' = moved \cup {<<B, items[n]>> : n \in DOMAIN took} /\ opening' = opening
      BY <1>6, <2>1, <2>5 DEF Apply
    <3>2. <<b, i>> \notin moved /\ (b = B => \A n \in DOMAIN took : items[n] # i)
      BY <1>3, <3>1
    <3>3. took \in Seq(Quantities) /\ DOMAIN took = DOMAIN items
      BY <1>1, <2>1 DEF Fits
    <3>4. b = B => i \notin ToSet(items)
      BY <3>2, <3>3 DEF ToSet
    <3>5. b = B => Moves(items, took, i, s) = 0
      BY <2>2, <3>3, <3>4, MovesTyped
    <3>6. ledger'[<<b, i, s>>] = ledger[<<b, i, s>>]
      BY <1>4, <2>2, <2>3, <3>2, <3>5
    <3>7. QED
      BY <1>4, <3>1, <3>2, <3>6 DEF OpenedWith
  <2>6. QED
    BY <2>4, <2>5
<1>7. QED
  BY <1>5, <1>6


\* A line gets nothing of a batch nothing was picked from.
LEMMA SplitOfNone ==
    ASSUME NEW lines \in Seq(Goods), NEW n \in DOMAIN lines, NEW pick, Picked(pick, lines[n].item), NEW day \in Int,
           NEW split, split = SplitOverShares(lines, n, pick, day), NEW s \in Batches, pick[s] = 0
    PROVE  split[s] = 0
BY SplitDraws

\* Of an item never kept by batch, nothing moves into or out of one.
LEMMA NotBatched ==
    ASSUME ShortInv, NEW op \in Ops, Possible(op), NEW day \in Int, NEW kept, KeptRight(kept),
           NEW took \in Outcome(op, day, kept), NEW i \in Items, switched[i] = 0, i \notin tracked,
           NEW n \in LinesAt(ItemsMoved(op), i), NEW s \in Batches
    PROVE  took[n][s] = 0
<1>1. BookInv /\ TypeOK /\ DocsKept /\ PurchasesKept /\ OpeningsKept /\ Found(op)
  BY DEF ShortInv, GoodsInv, BookInv, Found
<1>2. Sound(op, took) /\ WithoutBatches(i) /\ i \notin kept
  BY <1>1, OutcomeSound DEF ShortInv, KeptAs, KeptRight
<1>3. /\ took \in Seq(Quantities) /\ DOMAIN took = DOMAIN ItemsMoved(op) /\ n \in DOMAIN took /\ ItemsMoved(op)[n] = i
  BY <1>2 DEF Sound, Fits, LinesAt
<1>4. NoBatch \in Sources /\ NoBatch \notin Batches /\ s \in Sources
  BY StockAssumption DEF Sources
<1>5. ASSUME NEW qty \in Nat, took[n] = Whole(qty, NoBatch) PROVE took[n][s] = 0
  BY <1>4, <1>5, WholeSum
<1>6. CASE IsCount(op)
  <2>1. op \in CountOps /\ op.item = i /\ n = 1 /\ op.qty \in Nat /\ op.branch \in Branches
    BY <1>3, <1>6, OpKinds DEF IsCount, CountOps, Positive, ItemsMoved
  <2>2. took = <<Whole(op.qty, NoBatch)>>
    <3>1. CASE op.kind \in {"opening", "adjustIn"}
      BY <1>2, <2>1, <3>1 DEF Outcome, Into
    <3>2. CASE op.kind = "reopening"
      <4>1. PICK t \in Openings(op, kept) : took = <<Whole(op.qty, t)>>
        BY <3>2 DEF Outcome
      <4>2. t \in Sources /\ opening[<<op.branch, i, t>>] # NoOpening
        BY <2>1, <4>1 DEF Openings
      <4>3. t = NoBatch
        BY <1>2, <2>1, <4>2 DEF WithoutBatches, Sources
      <4>4. QED
        BY <4>1, <4>3
    <3>3. CASE op.kind = "adjustOut"
      BY <1>2, <2>1, <3>3 DEF Outcome, AdjustedOut
    <3>4. QED
      BY <1>6, <3>1, <3>2, <3>3 DEF IsCount
  <2>3. QED
    BY <1>5, <2>1, <2>2
<1>7. CASE op.kind \in {"sale", "transfer"}
  <2>1. (op \in SaleOps \/ op \in TransferOps) /\ op.lines \in Seq(Goods)
    BY <1>7, OpKinds DEF SaleOps, TransferOps
  <2>2. n \in DOMAIN op.lines /\ op.lines[n].item = i
    BY <1>3, <1>7 DEF ItemsMoved
  <2>3. PICK short : took \in TakenOut(op, day, kept, short)
    BY <1>7 DEF Outcome
  <2>4. PICK picks : \A m \in DOMAIN op.lines :
              /\ picks[op.lines[m].item] \in TakenOf(op, op.lines[m].item, day, kept, short)
              /\ took[m] = SplitOverShares(op.lines, m, picks[op.lines[m].item], day)
    BY <2>1, <2>3, TakenOutPicks
  <2>5. PICK pick, want : pick = picks[i] /\ want = Wanted(op.lines, i)
    OBVIOUS
  <2>6. pick \in TakenOf(op, i, day, kept, short) /\ took[n] = SplitOverShares(op.lines, n, pick, day)
    BY <2>2, <2>4, <2>5
  <2>7. want \in Nat
    BY <2>1, <2>5, LinesInLine
  <2>8. pick = Whole(want, NoBatch)
    BY <1>2, <2>5, <2>6 DEF TakenOf
  <2>9. NoBatch \in SourcesOf(i)
    BY DEF SourcesOf
  <2>10. Picked(pick, op.lines[n].item) /\ pick[s] = 0
    BY <1>4, <2>2, <2>7, <2>8, <2>9, WholePicked, WholeSum
  <2>11. PICK split : split = SplitOverShares(op.lines, n, pick, day)
    OBVIOUS
  <2>12. split[s] = 0
    BY <2>1, <2>2, <2>10, <2>11, SplitOfNone
  <2>13. QED
    BY <2>6, <2>11, <2>12
<1>8. CASE op.kind = "purchase"
  <2>1. op \in PurchaseOps /\ op.lines \in Seq(GoodsIn) /\ took \in Bought(op, kept)
    BY <1>8, OpKinds DEF PurchaseOps, Outcome
  <2>2. n \in DOMAIN op.lines /\ op.lines[n].item = i
    BY <1>3, <1>8 DEF ItemsMoved
  <2>3. took[n] = Whole(op.lines[n].qty, Into(op.lines[n], kept))
    BY <2>1, <2>2, BoughtTyped
  <2>4. Into(op.lines[n], kept) = NoBatch
    BY <1>2, <2>2 DEF Into
  <2>5. op.lines[n].qty \in Nat
    BY <2>1, <2>2, LinesMoved DEF Positive
  <2>6. QED
    BY <1>5, <2>3, <2>4, <2>5
<1>9. CASE OnDocument(op)
  <2>1. PICK x : x = docs[op.doc]
    OBVIOUS
  <2>2. op.doc \in Documents /\ Made(op.doc) /\ (op.kind \in {"return", "sendBack"} => op.line \in DOMAIN x.lines)
    BY <1>1, <1>9, <2>1, FoundDoc
  <2>3. \A m \in DocLines(x, i) : LineWithout(x, m) /\ LineKept(x, m)
    BY <1>1, <1>2, <2>1, <2>2 DEF WithoutBatches, DocsKept, DocLines
  <2>4. CASE op.kind = "sendBack"
    <3>1. PICK l, into : l = op.line /\ into = CameInto(x, op.line)
      OBVIOUS
    <3>2. l \in DocLines(x, i) /\ n = 1
      BY <1>3, <2>1, <2>2, <2>4, <3>1 DEF ItemsMoved, DocLines
    <3>3. took = <<Whole(op.qty, into)>>
      BY <2>1, <2>4, <3>1 DEF Outcome, SentBack
    <3>4. Is(op.doc, "purchase")
      BY <2>4 DEF Possible
    <3>5. PICK u \in SourcesOf(x.lines[l].item) : x.out[l] = Whole(x.lines[l].qty, u)
      BY <1>1, <2>1, <2>2, <3>2, <3>4 DEF PurchasesKept, DocLines
    <3>6. x.lines[l].qty \in Positive
      BY <1>1, <1>9, <2>1, <2>2, <3>2, FoundDoc, DocParts, LinesMoved DEF DocLines
    <3>7. u \in Sources /\ \A t \in Sources : x.out[l][t] = IF t = u THEN x.lines[l].qty ELSE 0
      BY <3>5, <3>6, SourcesFinite, WholeSum DEF Positive
    <3>8. x.out[l][u] > 0
      BY <3>6, <3>7 DEF Positive
    <3>9. into \in Sources /\ x.out[l][into] > 0
      BY <3>1, <3>7, <3>8 DEF CameInto
    <3>10. into = NoBatch
      BY <2>3, <3>2, <3>9 DEF LineWithout, Sources
    <3>11. op.qty \in Nat
      BY <2>4, OpKinds DEF LineOps, Positive
    <3>12. QED
      BY <1>5, <3>2, <3>3, <3>10, <3>11
  <2>5. CASE op.kind = "return"
    <3>1. PICK l : l = op.line
      OBVIOUS
    <3>2. l \in DocLines(x, i) /\ n = 1
      BY <1>3, <2>1, <2>2, <2>5, <3>1 DEF ItemsMoved, DocLines
    <3>3. LineWithout(x, l) /\ LineKept(x, l)
      BY <2>3, <3>2
    <3>4. PICK q : q = took[1]
      OBVIOUS
    <3>5. \A t \in Batches : x.back[l][t] + q[t] <= x.out[l][t]
      BY <1>1, <2>1, <2>5, <3>1, <3>4, ComesBack
    <3>6. Picked(q, x.lines[l].item)
      BY <1>1, <2>1, <2>5, <3>1, <3>4, ComesBack
    <3>7. q[s] \in Int /\ q[s] >= 0 /\ x.back[l][s] \in Int /\ x.back[l][s] >= 0 /\ x.out[l][s] = 0
      BY <1>4, <3>3, <3>6 DEF Picked, LineKept, LineWithout, Quantities
    <3>8. QED
      BY <3>2, <3>4, <3>5, <3>7
  <2>6. CASE op.kind \in {"cancel", "receive", "callBack"}
    <3>1. n \in DocLines(x, i)
      BY <1>3, <2>1, <2>6 DEF ItemsMoved, DocLines
    <3>2. took = x.out
      BY <2>1, <2>6 DEF Outcome
    <3>3. QED
      BY <2>3, <3>1, <3>2 DEF LineWithout
  <2>7. QED
    BY <1>9, <2>4, <2>5, <2>6 DEF OnDocument
<1>10. QED
  BY <1>6, <1>7, <1>8, <1>9, OpKinds DEF IsCount, Makes, OnDocument


LEMMA KeptAsStays ==
    ASSUME ShortInv, NEW op \in Ops, Possible(op), NEW day \in Int, NEW kept, KeptRight(kept),
           NEW took \in Outcome(op, day, kept), Apply(op, took, day)
    PROVE  KeptAs'
<1>1. GoodsInv /\ BookInv /\ TypeOK /\ DocsKept
  BY DEF ShortInv, GoodsInv, BookInv
<1>2. Sound(op, took) /\ Fits(op, took)
  BY <1>1, OutcomeSound DEF Sound
<1>3. PICK B, items, sign, y : B = Place(op) /\ items = ItemsMoved(op) /\ sign = Sign(op) /\ y = Document(op, took, day)
  OBVIOUS
<1>4. items \in Seq(Items) /\ sign \in {-1, 1} /\ took \in Seq(Quantities) /\ DOMAIN took = DOMAIN items
  BY <1>1, <1>2, <1>3, AppliedAs DEF Fits
<1>5. tracked' = tracked /\ switched' = switched
  BY DEF Apply
<1>6. /\ ~IsCount(op) => op.doc \in Documents /\ docs' = [docs EXCEPT ![op.doc] = y]
      /\ \A d \in Documents : docs'[d] # docs[d] => ~IsCount(op) /\ d = op.doc
  BY <1>1, <1>2, <1>3, DocsAfter
<1>7. docs \in [Documents -> Doc \cup {NoDocument}] /\ NoDocument \notin Doc
  BY <1>1, StockAssumption DEF TypeOK
<1>8. ASSUME NEW d \in Documents, docs'[d] # docs[d]
      PROVE  /\ docs'[d] = y /\ y \in Doc
             /\ Makes(op) => y.kind = op.kind /\ y.lines = op.lines /\ y.out = took
             /\ ~Makes(op) => Made(d) /\ SameGoods(docs[d], y)
  <2>1. d = op.doc /\ docs'[d] = y /\ (Makes(op) \/ OnDocument(op))
    BY <1>6, <1>7, <1>8, DocOf
  <2>2. CASE Makes(op)
    <3>1. DOMAIN took = DOMAIN op.lines
      BY <1>2, <2>2 DEF Fits, ItemsMoved, Makes
    <3>2. IsMade(y, op, took, day)
      BY <1>3, <1>4, <2>2, <3>1, DocumentMade
    <3>3. QED
      BY <2>1, <2>2, <3>2 DEF IsMade
  <2>3. CASE ~Makes(op)
    <3>1. OnDocument(op) /\ Found(op)
      BY <2>1, <2>3 DEF Found
    <3>2. Made(d)
      BY <1>1, <2>1, <3>1, FoundDoc
    <3>3. y \in Doc /\ SameGoods(docs[op.doc], y)
      BY <1>1, <1>3, <1>4, <3>1, DocumentChanged
    <3>4. QED
      BY <2>1, <2>3, <3>2, <3>3
  <2>4. QED
    BY <2>2, <2>3
<1>9. ASSUME NEW i \in Items, switched[i] = 0, i \in tracked PROVE InBatches(i)'
  <2>1. InBatches(i) /\ i \in kept
    BY <1>9 DEF ShortInv, KeptAs, KeptRight
  <2>2. SUFFICES ASSUME NEW d \in Documents, Is(d, "purchase")', NEW n \in DocLines(docs'[d], i)
                 PROVE  docs'[d].out[n][NoBatch] = 0
    BY DEF InBatches
  <2>3. CASE docs'[d] = docs[d]
    BY <2>1, <2>2, <2>3 DEF InBatches, Is, Made
  <2>4. CASE docs'[d] # docs[d] /\ Makes(op)
    <3>1. y.kind = op.kind /\ y.lines = op.lines /\ y.out = took /\ docs'[d] = y
      BY <1>8, <2>4
    <3>2. op.kind = "purchase"
      BY <2>2, <3>1 DEF Is
    <3>3. op \in PurchaseOps /\ op.lines \in Seq(GoodsIn) /\ took \in Bought(op, kept)
      BY <3>2, OpKinds DEF PurchaseOps, Outcome
    <3>4. n \in DOMAIN op.lines /\ op.lines[n].item = i
      BY <2>2, <3>1 DEF DocLines
    <3>5. took[n] = Whole(op.lines[n].qty, Into(op.lines[n], kept))
      BY <3>3, <3>4, BoughtTyped
    <3>6. BatchGiven(op.lines[n], kept)
      BY <3>3, <3>4 DEF Bought
    <3>7. Into(op.lines[n], kept) # NoBatch
      BY <2>1, <3>4, <3>6 DEF Into, BatchGiven
    <3>8. Into(op.lines[n], kept) \in Sources /\ op.lines[n].qty \in Nat
      <4>1. op.lines[n] \in GoodsIn
        BY <3>3, <3>4
      <4>2. QED
        BY <3>3, <3>4, <4>1, IntoTyped, LinesMoved DEF Positive
    <3>9. took[n][NoBatch] = 0
      BY <3>5, <3>7, <3>8, SourcesFinite, WholeSum
    <3>10. QED
      BY <3>1, <3>9
  <2>5. CASE docs'[d] # docs[d] /\ ~Makes(op)
    <3>1. Made(d) /\ SameGoods(docs[d], y) /\ docs'[d] = y
      BY <1>8, <2>5
    <3>2. n \in DocLines(docs[d], i) /\ Is(d, "purchase") /\ docs'[d].out = docs[d].out
      BY <2>2, <3>1 DEF DocLines, SameGoods, Is
    <3>3. QED
      BY <2>1, <3>2 DEF InBatches
  <2>6. QED
    BY <2>3, <2>4, <2>5
<1>10. ASSUME NEW i \in Items, switched[i] = 0, i \notin tracked PROVE WithoutBatches(i)'
  <2>1. WithoutBatches(i)
    BY <1>10 DEF ShortInv, KeptAs
  <2>2. \A n \in LinesAt(items, i) : \A s \in Batches : took[n][s] = 0
    BY <1>3, <1>10, NotBatched
  <2>3. ASSUME NEW b \in Branches, NEW s \in Batches PROVE ledger'[<<b, i, s>>] = 0 /\ opening'[<<b, i, s>>] = NoOpening
    <3>1. ledger[<<b, i, s>>] = 0 /\ opening[<<b, i, s>>] = NoOpening /\ s \in Sources
      BY <2>1 DEF WithoutBatches, Sources
    <3>2. opening \in [Branches \X Items \X Sources -> Nat \cup {NoOpening}]
      BY <1>1 DEF TypeOK
    <3>3. CASE op.kind = "reopening"
      <4>1. PICK t \in SourcesOf(op.item) : opening[<<op.branch, op.item, t>>] # NoOpening /\ CorrectOpening(op, t)
        BY <1>1, <1>2, <3>3, AppliedAs
      <4>2. op \in CountOps /\ op.branch \in Branches /\ op.item \in Items /\ t \in Sources
        BY <3>3, <4>1, OpKinds, SourcesFinite DEF CountOps
      <4>3. ~(b = op.branch /\ i = op.item /\ s = t)
        BY <3>1, <4>1
      <4>4. PICK change : change = op.qty - opening[<<op.branch, op.item, t>>]
        OBVIOUS
      <4>5. ledger'[<<b, i, s>>] = ledger[<<b, i, s>>] + IF b = op.branch /\ i = op.item /\ s = t THEN change ELSE 0
        BY <1>1, <3>1, <4>1, <4>2, <4>4, CorrectedEach
      <4>6. opening' = [opening EXCEPT ![<<op.branch, op.item, t>>] = op.qty]
        BY <4>1 DEF CorrectOpening
      <4>7. opening'[<<b, i, s>>] = opening[<<b, i, s>>]
        BY <3>1, <3>2, <4>2, <4>3, <4>6
      <4>8. QED
        BY <3>1, <4>3, <4>5, <4>7
    <3>4. CASE op.kind # "reopening"
      <4>1. RecordStock(B, items, took, sign)
        BY <1>1, <1>2, <1>3, <3>4, AppliedAs
      <4>2. ledger'[<<b, i, s>>] = ledger[<<b, i, s>>] + IF b = B THEN sign * Moves(items, took, i, s) ELSE 0
        BY <1>1, <3>1, <4>1, RecordedEach
      <4>3. \A n \in LinesAt(ItemsMoved(op), i) : took[n][s] = 0
        BY <1>3, <2>2
      <4>4. Moves(items, took, i, s) = 0
        BY <1>2, <1>3, <1>4, <3>1, <4>3, MovesFrom
      <4>5. ledger'[<<b, i, s>>] = 0
        BY <1>4, <3>1, <4>2, <4>4
      <4>6. CASE op.kind = "opening"
        <5>1. opening' = [p \in DOMAIN opening |->
                             IF p[1] = B /\ p[2] = op.item /\ took[1][p[3]] > 0 THEN op.qty ELSE opening[p]]
          BY <1>3, <3>4, <4>6 DEF Apply
        <5>2. opening'[<<b, i, s>>] = IF b = B /\ i = op.item /\ took[1][s] > 0 THEN op.qty ELSE opening[<<b, i, s>>]
          BY <3>1, <3>2, <5>1
        <5>3. i = op.item => took[1][s] = 0
          <6>1. items = <<op.item>>
            BY <1>3, <4>6 DEF ItemsMoved
          <6>2. i = op.item => 1 \in LinesAt(items, i)
            BY <6>1 DEF LinesAt
          <6>3. QED
            BY <2>2, <6>2
        <5>4. QED
          BY <3>1, <4>5, <5>2, <5>3
      <4>7. CASE op.kind # "opening"
        <5>1. opening' = opening
          BY <3>4, <4>7 DEF Apply
        <5>2. QED
          BY <3>1, <4>5, <5>1
      <4>8. QED
        BY <4>6, <4>7
    <3>5. QED
      BY <3>3, <3>4
  <2>4. ASSUME NEW d \in Documents, Made(d)', NEW n \in DocLines(docs'[d], i) PROVE LineWithout(docs'[d], n)
    <3>1. CASE docs'[d] = docs[d]
      BY <2>1, <2>4, <3>1 DEF WithoutBatches, Made
    <3>2. CASE docs'[d] # docs[d] /\ Makes(op)
      <4>1. y.lines = op.lines /\ y.out = took /\ docs'[d] = y
        BY <1>8, <3>2
      <4>2. items = [m \in DOMAIN op.lines |-> op.lines[m].item]
        BY <1>3, <3>2 DEF ItemsMoved, Makes
      <4>3. n \in LinesAt(items, i)
        BY <2>4, <4>1, <4>2 DEF DocLines, LinesAt
      <4>4. QED
        BY <2>2, <4>1, <4>3 DEF LineWithout
    <3>3. CASE docs'[d] # docs[d] /\ ~Makes(op)
      <4>1. Made(d) /\ SameGoods(docs[d], y) /\ docs'[d] = y
        BY <1>8, <3>3
      <4>2. n \in DocLines(docs[d], i) /\ docs'[d].out = docs[d].out
        BY <2>4, <4>1 DEF DocLines, SameGoods
      <4>3. LineWithout(docs[d], n)
        BY <2>1, <4>1, <4>2 DEF WithoutBatches
      <4>4. QED
        BY <4>2, <4>3 DEF LineWithout
    <3>4. QED
      BY <3>1, <3>2, <3>3
  <2>5. QED
    BY <2>3, <2>4 DEF WithoutBatches
<1>11. QED
  BY <1>5, <1>9, <1>10 DEF KeptAs


\* A correction of an opening count leaves what it corrected.
LEMMA CorrectedStands ==
    ASSUME ShortInv, NEW op \in Ops, op.kind = "reopening", Possible(op), NEW day \in Int, NEW kept,
           NEW took \in Outcome(op, day, kept), Apply(op, took, day), NEW b \in Branches, NEW i \in Items
    PROVE  \/ b = op.branch /\ i = op.item /\ onHand'[<<b, i>>] >= 0 /\ \A s \in Sources : ledger'[<<b, i, s>>] >= 0
           \/ onHand'[<<b, i>>] = onHand[<<b, i>>] /\ \A s \in Sources : ledger'[<<b, i, s>>] = ledger[<<b, i, s>>]
<1>1. GoodsInv /\ BookInv /\ TypeOK /\ DocsKept /\ LedgerKept /\ OpeningsOnly
  BY DEF ShortInv, GoodsInv, BookInv
<1>2. Sound(op, took) /\ Fits(op, took)
  BY <1>1, OutcomeSound DEF Sound
<1>3. PICK t \in SourcesOf(op.item) : opening[<<op.branch, op.item, t>>] # NoOpening /\ CorrectOpening(op, t)
  BY <1>1, <1>2, AppliedAs
<1>4. op \in CountOps /\ op.branch \in Branches /\ op.item \in Items /\ op.qty \in Nat /\ t \in Sources
  BY <1>3, OpKinds, SourcesFinite DEF CountOps, Positive
<1>5. PICK change : change = op.qty - opening[<<op.branch, op.item, t>>]
  OBVIOUS
<1>6. /\ change \in Int
      /\ onHand'[<<b, i>>] = onHand[<<b, i>>] + IF b = op.branch /\ i = op.item THEN change ELSE 0
      /\ \A s \in Sources :
            ledger'[<<b, i, s>>] = ledger[<<b, i, s>>] + IF b = op.branch /\ i = op.item /\ s = t THEN change ELSE 0
  BY <1>1, <1>3, <1>4, <1>5, CorrectedEach
<1>7. onHand[<<b, i>>] \in Int /\ \A s \in Sources : ledger[<<b, i, s>>] \in Int
  BY <1>1, RowTyped
<1>8. CASE ~(b = op.branch /\ i = op.item)
  BY <1>6, <1>7, <1>8
<1>9. CASE b = op.branch /\ i = op.item
  <2>1. <<b, i>> \notin moved /\ moved' = moved
    BY <1>9 DEF Outcome, Apply
  <2>2. OpeningsOnly'
    BY <1>1, <1>2, OpeningsOnlyStays
  <2>3. opening \in [Branches \X Items \X Sources -> Nat \cup {NoOpening}]
    BY <1>1 DEF TypeOK
  <2>4. opening' = [opening EXCEPT ![<<op.branch, op.item, t>>] = op.qty]
    BY <1>3 DEF CorrectOpening
  <2>5. \A s \in Sources : opening'[<<b, i, s>>] \in Nat \cup {NoOpening}
    BY <1>4, <2>3, <2>4
  <2>6. \A s \in Sources : ledger'[<<b, i, s>>] >= 0
    BY <2>1, <2>2, <2>5 DEF OpeningsOnly, OpenedWith
  <2>7. LedgerKept'
    BY <1>1, <1>2, LedgerStays
  <2>8. PICK row : row = [s \in Sources |-> ledger'[<<b, i, s>>]]
    OBVIOUS
  <2>9. row \in [Sources -> Int] /\ \A s \in Sources : row[s] >= 0
    BY <1>6, <1>7, <2>6, <2>8
  <2>10. Total(row) >= 0
    BY <2>9, SourcesFinite, TotalType
  <2>11. onHand'[<<b, i>>] = Total(row)
    BY <2>7, <2>8 DEF LedgerKept
  <2>12. QED
    BY <1>9, <2>6, <2>10, <2>11
<1>10. QED
  BY <1>8, <1>9

\* What a request takes out, it covers.
LEMMA OutCovered ==
    ASSUME ShortInv, NEW op \in Ops, Possible(op), NEW day \in Int, NEW kept, KeptRight(kept),
           NEW took \in Outcome(op, day, kept), Sign(op) = -1, NEW i \in Items
    PROVE  Covers(op, took, i)
<1>1. op.kind = "adjustOut" \/ op.kind \in {"sale", "transfer"} \/ op.kind = "sendBack"
  BY DEF Sign
<1>2. CASE op.kind = "adjustOut"
  BY <1>2, AdjustedCovered
<1>3. CASE op.kind \in {"sale", "transfer"}
  BY <1>3, TakenCovered
<1>4. CASE op.kind = "sendBack"
  BY <1>4, SentCovered
<1>5. QED
  BY <1>1, <1>2, <1>3, <1>4

LEMMA NotShortStays ==
    ASSUME ShortInv, NEW op \in Ops, Possible(op), NEW day \in Int, NEW kept, KeptRight(kept),
           NEW took \in Outcome(op, day, kept), Apply(op, took, day)
    PROVE  NotShort'
<1>1. GoodsInv /\ BookInv /\ TypeOK /\ DocsKept /\ NotShort
  BY DEF ShortInv, GoodsInv, BookInv
<1>2. Sound(op, took) /\ Fits(op, took)
  BY <1>1, OutcomeSound DEF Sound
<1>3. switched' = switched /\ past' = past \cup SoldPast(op)
  BY DEF Apply
<1>4. /\ \A b : SentBackAt(b) => SentBackAt(b)'
      /\ \A b : op.kind = "sendBack" /\ b = Place(op) => SentBackAt(b)'
  BY <1>1, SentGrows
<1>5. ASSUME NEW b \in Branches, NEW i \in Items
      PROVE  /\ \A s \in Batches : ledger'[<<b, i, s>>] >= 0
             /\ <<b, i>> \notin past' => /\ onHand'[<<b, i>>] >= 0 \/ SentBackAt(b)'
                                         /\ switched[i] = 0 => ledger'[<<b, i, NoBatch>>] >= 0
  <2>1. NoBatch \in Sources /\ Batches \subseteq Sources
    BY DEF Sources
  <2>2. /\ \A s \in Batches : ledger[<<b, i, s>>] >= 0
        /\ <<b, i>> \notin past => /\ onHand[<<b, i>>] >= 0 \/ SentBackAt(b)
                                   /\ switched[i] = 0 => ledger[<<b, i, NoBatch>>] >= 0
    BY <1>1 DEF NotShort
  <2>3. onHand[<<b, i>>] \in Int /\ \A s \in Sources : ledger[<<b, i, s>>] \in Int
    BY <1>1, RowTyped
  <2>4. ASSUME onHand'[<<b, i>>] = onHand[<<b, i>>], \A s \in Sources : ledger'[<<b, i, s>>] = ledger[<<b, i, s>>]
        PROVE  /\ \A s \in Batches : ledger'[<<b, i, s>>] >= 0
               /\ <<b, i>> \notin past' => /\ onHand'[<<b, i>>] >= 0 \/ SentBackAt(b)'
                                           /\ switched[i] = 0 => ledger'[<<b, i, NoBatch>>] >= 0
    BY <1>3, <1>4, <2>1, <2>2, <2>4
  <2>5. CASE op.kind = "reopening"
    <3>1. \/ b = op.branch /\ i = op.item /\ onHand'[<<b, i>>] >= 0 /\ \A s \in Sources : ledger'[<<b, i, s>>] >= 0
          \/ onHand'[<<b, i>>] = onHand[<<b, i>>] /\ \A s \in Sources : ledger'[<<b, i, s>>] = ledger[<<b, i, s>>]
      BY <2>5, CorrectedStands
    <3>2. CASE onHand'[<<b, i>>] >= 0 /\ \A s \in Sources : ledger'[<<b, i, s>>] >= 0
      BY <2>1, <3>2
    <3>3. QED
      BY <2>4, <3>1, <3>2
  <2>6. CASE op.kind # "reopening"
    <3>1. PICK B, items, sign : B = Place(op) /\ items = ItemsMoved(op) /\ sign = Sign(op)
      OBVIOUS
    <3>2. RecordStock(B, items, took, sign) /\ items \in Seq(Items) /\ sign \in {-1, 1}
      BY <1>1, <1>2, <2>6, <3>1, AppliedAs
    <3>3. /\ onHand'[<<b, i>>] = onHand[<<b, i>>] + IF b = B THEN sign * MovedOf(items, took, i) ELSE 0
          /\ \A s \in Sources : ledger'[<<b, i, s>>] = ledger[<<b, i, s>>] + IF b = B THEN sign * Moves(items, took, i, s) ELSE 0
      BY <1>1, <3>2, RecordedEach
    <3>4. \A s \in Sources : Moves(items, took, i, s) \in Nat
      BY <1>2, <3>1, <3>2, MovesFrom
    <3>5. MovedOf(items, took, i) \in Nat
      <4>1. PICK f : f = [s \in Sources |-> Moves(items, took, i, s)]
        OBVIOUS
      <4>2. f \in [Sources -> Int] /\ \A s \in Sources : f[s] >= 0
        BY <3>4, <4>1
      <4>3. Total(f) \in Int /\ Total(f) >= 0
        BY <4>2, SourcesFinite, TotalType
      <4>4. QED
        BY <4>1, <4>3 DEF MovedOf
    <3>6. CASE b # B
      BY <2>3, <2>4, <3>3, <3>6
    <3>7. CASE b = B /\ sign = 1
      <4>1. onHand'[<<b, i>>] >= onHand[<<b, i>>] /\ \A s \in Sources : ledger'[<<b, i, s>>] >= ledger[<<b, i, s>>]
        BY <2>3, <3>3, <3>4, <3>5, <3>7
      <4>2. onHand'[<<b, i>>] \in Int /\ \A s \in Sources : ledger'[<<b, i, s>>] \in Int
        BY <2>3, <3>3, <3>4, <3>5, <3>7
      <4>3. \A s \in Sources : ledger[<<b, i, s>>] >= 0 => ledger'[<<b, i, s>>] >= 0
        BY <2>3, <4>1, <4>2
      <4>4. onHand[<<b, i>>] >= 0 => onHand'[<<b, i>>] >= 0
        BY <2>3, <4>1, <4>2
      <4>5. QED
        BY <1>3, <1>4, <2>1, <2>2, <4>3, <4>4
    <3>8. CASE b = B /\ sign = -1
      <4>1. Covers(op, took, i)
        BY <3>1, <3>8, OutCovered
      <4>2. /\ \A s \in Batches : Moves(items, took, i, s) <= ledger[<<b, i, s>>]
            /\ <<b, i>> \notin past' =>
                  /\ \/ MovedOf(items, took, i) <= onHand[<<b, i>>]
                     \/ op.kind = "sendBack" \/ SentBackAt(b)
                  /\ switched[i] = 0 => Moves(items, took, i, NoBatch) <= ledger[<<b, i, NoBatch>>]
        BY <1>3, <3>1, <3>8, <4>1 DEF Covers
      <4>3. \A s \in Sources : Moves(items, took, i, s) <= ledger[<<b, i, s>>] => ledger'[<<b, i, s>>] >= 0
        BY <2>3, <3>3, <3>4, <3>8
      <4>4. MovedOf(items, took, i) <= onHand[<<b, i>>] => onHand'[<<b, i>>] >= 0
        BY <2>3, <3>3, <3>5, <3>8
      <4>5. op.kind = "sendBack" \/ SentBackAt(b) => SentBackAt(b)'
        BY <1>4, <3>1, <3>8
      <4>6. QED
        BY <2>1, <4>2, <4>3, <4>4, <4>5
    <3>9. QED
      BY <3>2, <3>6, <3>7, <3>8
  <2>7. QED
    BY <2>5, <2>6
<1>6. QED
  BY <1>3, <1>5 DEF NotShort


LEMMA ShortStart ==
    ASSUME Init
    PROVE  ShortInv
<1>1. GoodsInv
  BY GoodsStart
<1>2. /\ \A b \in Branches, i \in Items, s \in Sources : ledger[<<b, i, s>>] = 0 /\ opening[<<b, i, s>>] = NoOpening
      /\ \A b \in Branches, i \in Items : onHand[<<b, i>>] = 0
      /\ \A d \in Documents : docs[d] = NoDocument
  BY DEF Init
<1>3. NoBatch \in Sources /\ Batches \subseteq Sources
  BY DEF Sources
<1>4. OfItem
  BY <1>2 DEF OfItem
<1>5. OpeningsOnly
  BY <1>2 DEF OpeningsOnly, OpenedWith
<1>6. KeptAs
  BY <1>2, <1>3 DEF KeptAs, InBatches, WithoutBatches, Is, Made
<1>7. NotShort
  <2>1. ASSUME NEW b \in Branches, NEW i \in Items
        PROVE  onHand[<<b, i>>] >= 0 /\ \A s \in Sources : ledger[<<b, i, s>>] >= 0
    BY <1>2
  <2>2. QED
    BY <1>3, <2>1 DEF NotShort
<1>8. QED
  BY <1>1, <1>4, <1>5, <1>6, <1>7 DEF ShortInv

\* Where stock, documents and openings stay, so does what is never short.
LEMMA ShortStaysPut ==
    ASSUME ShortInv, GoodsInv', UNCHANGED <<onHand, ledger, opening, moved, docs, past>>,
           \A i \in Items : switched'[i] = 0 => switched[i] = 0 /\ (i \in tracked' <=> i \in tracked)
    PROVE  ShortInv'
<1>1. OfItem'
  BY DEF ShortInv, OfItem
<1>2. OpeningsOnly'
  BY DEF ShortInv, OpeningsOnly, OpenedWith
<1>3. \A i : (InBatches(i) => InBatches(i)') /\ (WithoutBatches(i) => WithoutBatches(i)')
  BY DEF InBatches, WithoutBatches, Is, Made
<1>4. KeptAs'
  BY <1>3 DEF ShortInv, KeptAs
<1>5. \A b : SentBackAt(b) => SentBackAt(b)'
  BY DEF SentBackAt, Made
<1>6. NotShort'
  BY <1>5 DEF ShortInv, NotShort
<1>7. QED
  BY <1>1, <1>2, <1>4, <1>6 DEF ShortInv

LEMMA ShortStep ==
    ASSUME ShortInv, [Next]_bookVars
    PROVE  ShortInv'
<1>1. GoodsInv /\ TypeOK /\ GoodsInv'
  BY GoodsStep DEF ShortInv, GoodsInv, BookInv
<1>2. CASE UNCHANGED bookVars
  BY <1>1, <1>2, ShortStaysPut DEF bookVars
<1>3. CASE NextDay
  BY <1>1, <1>3, ShortStaysPut DEF NextDay
<1>4. ASSUME NEW i \in Items, SwitchBatches(i) PROVE ShortInv'
  <2>1. /\ UNCHANGED <<onHand, ledger, opening, moved, docs, past>>
        /\ switched' = [switched EXCEPT ![i] = @ + 1]
        /\ tracked' = IF i \in tracked THEN tracked \ {i} ELSE tracked \cup {i}
    BY <1>4 DEF SwitchBatches
  <2>2. switched \in [Items -> 0..MaxSwitches] /\ MaxSwitches \in Nat
    BY <1>1, StockAssumption DEF TypeOK
  <2>3. switched'[i] # 0
    BY <2>1, <2>2
  <2>4. \A j \in Items \ {i} : switched'[j] = switched[j] /\ (j \in tracked' <=> j \in tracked)
    BY <2>1, <2>2
  <2>5. \A j \in Items : switched'[j] = 0 => switched[j] = 0 /\ (j \in tracked' <=> j \in tracked)
    BY <2>3, <2>4
  <2>6. QED
    BY <1>1, <2>1, <2>5, ShortStaysPut
<1>5. ASSUME NEW op \in Ops, Do(op) PROVE ShortInv'
  <2>1. Possible(op)
    BY <1>5 DEF Do
  <2>2. \E day \in {today - 1, today}, old \in SUBSET {i \in Items : switched[i] > 0} :
          \E took \in Outcome(op, day, (tracked \ old) \cup (old \ tracked)) : Apply(op, took, day)
    BY <1>5, Zenon DEF Do
  <2>3. PICK day \in {today - 1, today}, old \in SUBSET {i \in Items : switched[i] > 0} :
          \E took \in Outcome(op, day, (tracked \ old) \cup (old \ tracked)) : Apply(op, took, day)
    BY <2>2
  <2>4. PICK kept : kept = (tracked \ old) \cup (old \ tracked)
    OBVIOUS
  <2>5. PICK took \in Outcome(op, day, kept) : Apply(op, took, day)
    BY <2>3, <2>4
  <2>6. day \in Int
    BY <1>1 DEF TypeOK
  <2>7. KeptRight(kept)
    BY <2>3, <2>4 DEF KeptRight
  <2>8. Sound(op, took)
    BY <1>1, <2>1, <2>6, OutcomeSound DEF GoodsInv
  <2>9. OfItem'
    BY <1>1, <2>1, <2>5, <2>8, OfItemStays DEF ShortInv
  <2>10. OpeningsOnly'
    BY <1>1, <2>1, <2>5, <2>8, OpeningsOnlyStays DEF ShortInv
  <2>11. KeptAs'
    BY <2>1, <2>5, <2>6, <2>7, KeptAsStays
  <2>12. NotShort'
    BY <2>1, <2>5, <2>6, <2>7, NotShortStays
  <2>13. QED
    BY <1>1, <2>9, <2>10, <2>11, <2>12 DEF ShortInv
<1>6. QED
  BY <1>2, <1>3, <1>4, <1>5 DEF Next

(***************************************************************************)
(* Of the books alone: a batch's stock never goes below 0; an item's never *)
(* but where a sale past the count was made, or goods of a batch went back *)
(* to the supplier of an item since switched from batches.                 *)
(***************************************************************************)
THEOREM NothingShort == Spec => []ShortInv
<1>1. Init => ShortInv
  BY ShortStart
<1>2. ShortInv /\ [bookVars' # bookVars /\ Next]_bookVars => ShortInv'
  BY ShortStep
<1>3. QED
  BY <1>1, <1>2, PTL DEF Spec

LEMMA CommitLast ==
    ASSUME NEW op, NEW todo, NEW held, InProgram(op, todo, held)
    PROVE  Last(todo) = Commit
<1>1. todo \in Seq(Steps(op)) /\ Ordered(op.kind, todo) /\ Commit \in ToSet(todo)
  BY DEF InProgram
<1>2. PICK n \in DOMAIN todo : todo[n] = Commit
  BY <1>1 DEF ToSet
<1>3. Len(todo) \in DOMAIN todo /\ n <= Len(todo)
  BY <1>1, <1>2
<1>4. CASE n = Len(todo)
  BY <1>2, <1>4 DEF Last
<1>5. CASE n < Len(todo)
  <2>1. Before(op.kind, Commit, todo[Len(todo)])
    BY <1>1, <1>2, <1>3, <1>5 DEF Ordered
  <2>2. FALSE
    BY <2>1 DEF Before, Turn, Commit
  <2>3. QED
    BY <2>2
<1>6. QED
  BY <1>1, <1>2, <1>3, <1>4, <1>5

LEMMA RequestsTyped ==
    ASSUME StockInv
    PROVE  StockTypeOK
<1>1. TypeOK
  BY DEF StockInv, BookInv
<1>2. ASSUME NEW r \in Requests, Busy(r)
      PROVE  /\ reqs[r].op \in Ops /\ Last(reqs[r].todo) = Commit
             /\ reqs[r].day \in (today - 1)..today
             /\ reqs[r].took \in Seq([Sources -> Int])
  <2>1. PICK f : f = reqs[r]
    OBVIOUS
  <2>2. UnderWay(f) /\ f.todo # <<>>
    BY <1>2, <2>1 DEF StockInv, Busy
  <2>3. Going(f)
    BY <2>2 DEF UnderWay, Idle
  <2>4. InProgram(f.op, f.todo, f.held) /\ f.day \in {today - 1, today} /\ f.took \in Seq([Sources -> Int])
    BY <2>3 DEF Going, Quantities
  <2>5. f.op \in Ops /\ Last(f.todo) = Commit
    BY <2>4, CommitLast DEF InProgram
  <2>6. f.day \in (today - 1)..today
    BY <1>1, <2>4 DEF TypeOK
  <2>7. QED
    BY <2>1, <2>4, <2>5, <2>6
<1>3. QED
  BY <1>1, <1>2 DEF StockTypeOK

LEMMA ShortIsNever ==
    ASSUME ShortInv, StockInv
    PROVE  NeverShort
<1>1. GoodsInv /\ TypeOK /\ DocsKept /\ LedgerKept /\ OfItem /\ NotShort
  BY DEF ShortInv, GoodsInv, BookInv
<1>2. StockTypeOK
  BY RequestsTyped
<1>3. \A d \in Documents : Made(d) =>
         /\ DOMAIN docs[d].out = DOMAIN docs[d].lines /\ DOMAIN docs[d].back = DOMAIN docs[d].lines
         /\ \A n \in DOMAIN docs[d].lines : LineKept(docs[d], n)
  BY <1>1 DEF TypeOK, Made, DocsKept
<1>4. ExpiredStays
  BY <1>3 DEF ExpiredStays, LineKept
<1>5. \A d \in Documents : Made(d) =>
         \A n \in DOMAIN docs[d].out, s \in Sources : docs[d].out[n][s] >= 0 /\ docs[d].back[n][s] >= 0
  BY <1>3 DEF LineKept, Picked
<1>6. ASSUME NEW b \in Branches, NEW i \in Items
      PROVE  /\ \A s \in SourcesOf(i) \ {NoBatch} : inBatch[<<b, s>>] >= 0
             /\ <<b, i>> \notin past /\ onHand[<<b, i>>] < 0 =>
                   /\ switched[i] > 0
                   /\ \E d \in Documents : Is(d, "purchase") /\ docs[d].branch = b /\
                         \E n \in DOMAIN docs[d].back : docs[d].back[n] # Nothing
             /\ <<b, i>> \notin past /\ switched[i] = 0 => Lots(b, i)[NoBatch] >= 0
  <2>1. /\ \A s \in Batches : ledger[<<b, i, s>>] >= 0
        /\ <<b, i>> \notin past => /\ onHand[<<b, i>>] >= 0 \/ SentBackAt(b)
                                   /\ switched[i] = 0 => ledger[<<b, i, NoBatch>>] >= 0
    BY <1>1 DEF NotShort
  <2>2. \A s \in SourcesOf(i) \ {NoBatch} : s \in Batches /\ ItemOf[s] = i
    BY DEF SourcesOf
  <2>3. \A s \in SourcesOf(i) \ {NoBatch} : inBatch[<<b, s>>] >= 0
    BY <1>1, <2>1, <2>2 DEF LedgerKept
  <2>4. onHand[<<b, i>>] \in Int /\ switched[i] \in Nat
    <3>1. switched \in [Items -> 0..MaxSwitches]
      BY <1>1 DEF TypeOK
    <3>2. QED
      BY <1>1, <3>1, RowTyped
  <2>5. ASSUME <<b, i>> \notin past, onHand[<<b, i>>] < 0 PROVE switched[i] > 0
    <3>1. SUFFICES ASSUME switched[i] = 0 PROVE FALSE
      BY <2>4
    <3>2. \A s \in Sources : ledger[<<b, i, s>>] >= 0
      BY <2>1, <2>5, <3>1 DEF Sources
    <3>3. onHand[<<b, i>>] >= 0
      BY <1>1, <3>2, NoneShort
    <3>4. QED
      BY <2>4, <2>5, <3>3
  <2>6. ASSUME <<b, i>> \notin past, onHand[<<b, i>>] < 0
        PROVE  \E d \in Documents : Is(d, "purchase") /\ docs[d].branch = b /\
                  \E n \in DOMAIN docs[d].back : docs[d].back[n] # Nothing
    <3>1. SentBackAt(b)
      BY <2>1, <2>4, <2>6
    <3>2. PICK d \in Documents : Made(d) /\ SentBackOf(docs[d], b)
      BY <3>1 DEF SentBackAt
    <3>3. QED
      BY <1>3, <3>2 DEF SentBackOf, Is
  <2>7. ASSUME <<b, i>> \notin past, switched[i] = 0 PROVE Lots(b, i)[NoBatch] >= 0
    <3>1. NoBatch \in SourcesOf(i)
      BY DEF SourcesOf
    <3>2. Lots(b, i)[NoBatch] = ledger[<<b, i, NoBatch>>]
      BY <1>1, <3>1, LotsAreLedger
    <3>3. QED
      BY <2>1, <2>7, <3>2
  <2>8. QED
    BY <2>3, <2>5, <2>6, <2>7
<1>7. QED
  BY <1>2, <1>4, <1>5, <1>6 DEF NeverShort

(***************************************************************************)
(* And so of the transactions: two registers never sell the same last      *)
(* unit, nor expired stock, however their requests interleave, fail and    *)
(* are sent again.                                                         *)
(***************************************************************************)
THEOREM StockNeverShort == StockSpec => []NeverShort
<1>1. ShortInv /\ StockInv => NeverShort
  BY ShortIsNever
<1>2. QED
  BY <1>1, NothingShort, StockImplementsBook, RequestsStand, PTL
=============================================================================
