---------------------------- MODULE SumsProofs ----------------------------
(***************************************************************************)
(* What Total gives: lemmas every proof about sums of money or goods rests *)
(* on.  Total sums in an order CHOOSE fixes, by a recursive function on    *)
(* the subsets of the domain; that this function exists, and every fact    *)
(* about it, is proved from a smallest counterexample.                     *)
(***************************************************************************)
EXTENDS Sums, FiniteSetTheorems, WellFoundedInduction, TLAPS

First(s) == CHOOSE x \in s : TRUE
Rest(s) == s \ {First(s)}

\* g sums f over every subset of S.
Sums(g, f, S) ==
  g = [s \in SUBSET S |-> IF s = {} THEN 0 ELSE f[First(s)] + g[Rest(s)]]

\* A non-empty collection of finite sets has a member none of whose strict subsets belongs to it.
LEMMA SmallestSet ==
    ASSUME NEW S, IsFiniteSet(S), NEW C \in SUBSET (SUBSET S), C # {}
    PROVE  \E s \in C : \A t \in SUBSET s : t # s => t \notin C
<1>1. C \subseteq FiniteSubsetsOf(S)
  BY FS_FiniteSubsetsOfFinite
<1>2. PICK s \in C : \A t \in C : ~(<<t, s>> \in StrictSubsetOrdering(S))
  BY <1>1, FS_StrictSubsetOrderingWellFounded, WFMin
<1>3. \A t \in SUBSET s : t # s => t \notin C
  BY <1>2 DEF StrictSubsetOrdering
<1>4. QED
  BY <1>3

LEMMA RestSmaller ==
    ASSUME NEW s, s # {}
    PROVE  First(s) \in s /\ Rest(s) \in SUBSET s /\ Rest(s) # s /\ First(s) \notin Rest(s)
BY DEF First, Rest

LEMMA SumsAgree ==
    ASSUME NEW A, IsFiniteSet(A), NEW B, NEW e, NEW f, NEW g, NEW h, Sums(g, e, A), Sums(h, f, B),
           NEW t \in SUBSET A, t \in SUBSET B, \A x \in t : e[x] = f[x]
    PROVE  g[t] = h[t]
<1> DEFINE C == {s \in SUBSET t : g[s] # h[s]}
<1>1. IsFiniteSet(t)
  BY FS_Subset
<1>2. SUFFICES ASSUME C # {} PROVE FALSE
  OBVIOUS
<1>3. PICK s \in C : \A u \in SUBSET s : u # s => u \notin C
  <2>1. C \in SUBSET (SUBSET t)
    OBVIOUS
  <2> HIDE DEF C
  <2>2. QED
    BY <1>1, <1>2, <2>1, SmallestSet
<1>4. s # {}
  BY <1>3 DEF Sums
<1>5. First(s) \in t /\ Rest(s) \in SUBSET s /\ Rest(s) # s
  BY <1>3, <1>4, RestSmaller
<1>6. g[Rest(s)] = h[Rest(s)]
  BY <1>3, <1>5
<1>7. g[s] = e[First(s)] + g[Rest(s)] /\ h[s] = f[First(s)] + h[Rest(s)]
  BY <1>3, <1>4 DEF Sums
<1>8. QED
  BY <1>3, <1>5, <1>6, <1>7

LEMMA SumsExist ==
    ASSUME NEW S, IsFiniteSet(S), NEW f
    PROVE  \E g : Sums(g, f, S)
<1> DEFINE C == {A \in SUBSET S : ~\E g : Sums(g, f, A)}
<1>1. SUFFICES ASSUME C # {} PROVE FALSE
  OBVIOUS
<1>2. PICK A \in C : \A B \in SUBSET A : B # A => B \notin C
  <2>1. C \in SUBSET (SUBSET S)
    OBVIOUS
  <2> HIDE DEF C
  <2>2. QED
    BY <1>1, <2>1, SmallestSet
<1> DEFINE G(s) == CHOOSE g : Sums(g, f, s)
           g == [s \in SUBSET A |-> IF s # A THEN G(s)[s]
                                    ELSE IF A = {} THEN 0 ELSE f[First(A)] + G(Rest(A))[Rest(A)]]
<1>3. \A s \in SUBSET A : s # A => Sums(G(s), f, s) /\ IsFiniteSet(s)
  BY <1>2, FS_Subset
<1>4. ASSUME NEW s \in SUBSET A
      PROVE  g[s] = IF s = {} THEN 0 ELSE f[First(s)] + g[Rest(s)]
  <2>1. CASE s = A
    <3>1. CASE A = {}
      BY <2>1, <3>1
    <3>2. CASE A # {}
      <4>1. Rest(A) \in SUBSET A /\ Rest(A) # A
        BY <3>2, RestSmaller
      <4>2. QED
        BY <2>1, <3>2, <4>1
    <3>3. QED
      BY <3>1, <3>2
  <2>2. CASE s # A /\ s = {}
    <3>1. Sums(G(s), f, s) /\ g[s] = G(s)[s]
      BY <1>3, <2>2
    <3>2. G(s)[s] = 0
      BY <2>2, <3>1 DEF Sums
    <3>3. QED
      BY <2>2, <3>1, <3>2
  <2>3. CASE s # A /\ s # {}
    <3> DEFINE r == Rest(s)
    <3>1. r \in SUBSET s /\ r # s /\ r # A /\ r \in SUBSET A
      BY <2>3, RestSmaller
    <3>2. Sums(G(s), f, s) /\ Sums(G(r), f, r) /\ IsFiniteSet(s) /\ g[s] = G(s)[s] /\ g[r] = G(r)[r]
      BY <1>3, <2>3, <3>1
    <3>3. G(s)[s] = f[First(s)] + G(s)[r]
      BY <2>3, <3>2 DEF Sums
    <3> HIDE DEF r, G, g
    <3>4. G(s)[r] = G(r)[r]
      BY <3>1, <3>2, SumsAgree
    <3>5. QED
      BY <2>3, <3>2, <3>3, <3>4 DEF r
  <2>4. QED
    BY <2>1, <2>2, <2>3
<1>5. DOMAIN g = SUBSET A /\ g = [s \in SUBSET A |-> g[s]]
  OBVIOUS
<1> HIDE DEF g
<1>6. Sums(g, f, A)
  BY <1>4, <1>5 DEF Sums
<1>7. QED
  BY <1>2, <1>6

-----------------------------------------------------------------------------
(* Total by its sums.                                                      *)

LEMMA TotalSums ==
    ASSUME NEW f, IsFiniteSet(DOMAIN f)
    PROVE  \E g : Sums(g, f, DOMAIN f) /\ Total(f) = g[DOMAIN f]
<1> DEFINE S == DOMAIN f
           g == CHOOSE h : Sums(h, f, S)
<1>1. Sums(g, f, S)
  BY SumsExist
<1>2. Total(f) = IF S = {} THEN 0 ELSE g[S]
  BY Zenon DEF Total, MapThenSumSet, MapThenFoldSet, Sums, First, Rest
<1>3. S = {} => g[S] = 0
  <2> HIDE DEF g
  <2>1. QED
    BY <1>1 DEF Sums
<1>4. QED
  BY <1>1, <1>2, <1>3

\* The sums of integers are integers, of naturals naturals, and any element may be taken out first.
LEMMA SumsTyped ==
    ASSUME NEW S, IsFiniteSet(S), NEW f \in [S -> Int], NEW g, Sums(g, f, S), NEW t \in SUBSET S
    PROVE  g[t] \in Int /\ ((\A x \in S : f[x] >= 0) => g[t] >= 0)
<1> DEFINE Wrong == {s \in SUBSET S : ~(g[s] \in Int /\ ((\A x \in S : f[x] >= 0) => g[s] >= 0))}
<1>1. SUFFICES ASSUME Wrong # {} PROVE FALSE
  OBVIOUS
<1>2. PICK s \in Wrong : \A u \in SUBSET s : u # s => u \notin Wrong
  <2>1. Wrong \in SUBSET (SUBSET S)
    OBVIOUS
  <2> HIDE DEF Wrong
  <2>2. QED
    BY <1>1, <2>1, SmallestSet
<1>3. s # {}
  BY <1>2 DEF Sums
<1>4. First(s) \in S /\ Rest(s) \in SUBSET s /\ Rest(s) # s /\ Rest(s) \in SUBSET S
  BY <1>2, <1>3, RestSmaller
<1>5. g[Rest(s)] \in Int /\ ((\A x \in S : f[x] >= 0) => g[Rest(s)] >= 0)
  BY <1>2, <1>4
<1>6. g[s] = f[First(s)] + g[Rest(s)] /\ f[First(s)] \in Int
  BY <1>2, <1>3, <1>4 DEF Sums
<1>7. QED
  BY <1>2, <1>4, <1>5, <1>6

LEMMA SumsTakeOut ==
    ASSUME NEW S, IsFiniteSet(S), NEW f \in [S -> Int], NEW g, Sums(g, f, S),
           NEW t \in SUBSET S, NEW x \in t
    PROVE  g[t] = f[x] + g[t \ {x}]
<1> DEFINE Wrong == {s \in SUBSET S : \E y \in s : g[s] # f[y] + g[s \ {y}]}
<1>1. SUFFICES ASSUME Wrong # {} PROVE FALSE
  OBVIOUS
<1>2. PICK s \in Wrong : \A u \in SUBSET s : u # s => u \notin Wrong
  <2>1. Wrong \in SUBSET (SUBSET S)
    OBVIOUS
  <2> HIDE DEF Wrong
  <2>2. QED
    BY <1>1, <2>1, SmallestSet
<1>3. PICK y \in s : g[s] # f[y] + g[s \ {y}]
  BY <1>2
<1> DEFINE c == First(s)
           r == Rest(s)
           v == s \ {y}
<1>4. s # {} /\ s \in SUBSET S
  BY <1>2, <1>3
<1>5. c \in s /\ r \in SUBSET s /\ r # s /\ r \in SUBSET S /\ r = s \ {c}
  BY <1>4, RestSmaller DEF Rest
<1>6. g[s] = f[c] + g[r]
  BY <1>4 DEF Sums
<1>7. c # y
  BY <1>3, <1>5, <1>6
<1>8. y \in r /\ c \in v /\ v \in SUBSET s /\ v # s /\ v \in SUBSET S /\ r \ {y} = v \ {c}
  BY <1>3, <1>4, <1>5, <1>7
<1>9. g[r] = f[y] + g[r \ {y}]
  BY <1>2, <1>5, <1>8
<1>10. g[v] = f[c] + g[v \ {c}]
  BY <1>2, <1>8
<1>11. f[c] \in Int /\ f[y] \in Int /\ g[r \ {y}] \in Int
  <2>1. c \in S /\ y \in S /\ r \ {y} \in SUBSET S
    BY <1>3, <1>4, <1>5
  <2>2. QED
    BY <2>1, SumsTyped
<1> HIDE DEF c, r, v
<1>12. f[c] + (f[y] + g[r \ {y}]) = f[y] + (f[c] + g[r \ {y}])
  BY <1>11
<1>13. g[s] = f[y] + g[v]
  BY <1>6, <1>8, <1>9, <1>10, <1>12
<1>14. QED
  BY <1>3, <1>13 DEF v

LEMMA TotalType ==
    ASSUME NEW S, IsFiniteSet(S), NEW f \in [S -> Int]
    PROVE  Total(f) \in Int /\ ((\A x \in S : f[x] >= 0) => Total(f) >= 0)
<1>1. PICK g : Sums(g, f, S) /\ Total(f) = g[S]
  BY TotalSums
<1>2. QED
  BY <1>1, SumsTyped

\* A sum is what its non-zero terms come to.
LEMMA TotalRestricted ==
    ASSUME NEW S, IsFiniteSet(S), NEW T \in SUBSET S, NEW f \in [T -> Int], NEW e \in [S -> Int],
           \A x \in S : e[x] = IF x \in T THEN f[x] ELSE 0
    PROVE  Total(f) = Total(e)
<1>0. IsFiniteSet(T)
  BY FS_Subset
<1>1. PICK g : Sums(g, f, T) /\ Total(f) = g[T]
  BY <1>0, TotalSums
<1>2. PICK h : Sums(h, e, S) /\ Total(e) = h[S]
  BY TotalSums
<1> DEFINE Wrong == {s \in SUBSET S : h[s] # g[s \cap T]}
<1>3. SUFFICES ASSUME Wrong # {} PROVE FALSE
  BY <1>1, <1>2
<1>4. PICK s \in Wrong : \A u \in SUBSET s : u # s => u \notin Wrong
  <2>1. Wrong \in SUBSET (SUBSET S)
    OBVIOUS
  <2> HIDE DEF Wrong
  <2>2. QED
    BY <1>3, <2>1, SmallestSet
<1>5. s # {}
  BY <1>1, <1>2, <1>4 DEF Sums
<1> DEFINE c == First(s)
           r == Rest(s)
<1>6. c \in s /\ c \in S /\ r \in SUBSET s /\ r # s /\ r \in SUBSET S /\ r = s \ {c}
  BY <1>4, <1>5, RestSmaller DEF Rest
<1>7. h[s] = e[c] + h[r] /\ h[r] = g[r \cap T]
  BY <1>2, <1>4, <1>5, <1>6 DEF Sums
<1>8. CASE c \in T
  <2>1. c \in s \cap T /\ s \cap T \in SUBSET T /\ (s \cap T) \ {c} = r \cap T
    BY <1>6, <1>8
  <2> HIDE DEF c, r
  <2>2. g[s \cap T] = f[c] + g[(s \cap T) \ {c}]
    BY <1>0, <1>1, <2>1, SumsTakeOut
  <2>3. QED
    BY <1>4, <1>6, <1>7, <1>8, <2>1, <2>2
<1>9. CASE c \notin T
  <2>1. r \cap T = s \cap T /\ e[c] = 0
    BY <1>6, <1>9
  <2>2. g[s \cap T] \in Int
    BY <1>0, <1>1, SumsTyped
  <2> HIDE DEF c, r
  <2>3. h[s] = 0 + g[s \cap T]
    BY <1>7, <2>1
  <2>4. QED
    BY <1>4, <2>2, <2>3
<1>10. QED
  BY <1>8, <1>9

\* Terms none of which is larger have no larger sum; terms that are sums have the sums' sum.
LEMMA TotalAtMost ==
    ASSUME NEW S, IsFiniteSet(S), NEW e \in [S -> Int], NEW f \in [S -> Int], \A x \in S : e[x] <= f[x]
    PROVE  Total(e) <= Total(f)
<1>1. PICK g : Sums(g, e, S) /\ Total(e) = g[S]
  BY TotalSums
<1>2. PICK h : Sums(h, f, S) /\ Total(f) = h[S]
  BY TotalSums
<1> DEFINE Wrong == {s \in SUBSET S : ~(g[s] <= h[s])}
<1>3. SUFFICES ASSUME Wrong # {} PROVE FALSE
  BY <1>1, <1>2
<1>4. PICK s \in Wrong : \A u \in SUBSET s : u # s => u \notin Wrong
  <2>1. Wrong \in SUBSET (SUBSET S)
    OBVIOUS
  <2> HIDE DEF Wrong
  <2>2. QED
    BY <1>3, <2>1, SmallestSet
<1>5. s # {}
  BY <1>1, <1>2, <1>4 DEF Sums
<1>6. First(s) \in S /\ Rest(s) \in SUBSET s /\ Rest(s) # s /\ Rest(s) \in SUBSET S
  BY <1>4, <1>5, RestSmaller
<1>7. g[s] = e[First(s)] + g[Rest(s)] /\ h[s] = f[First(s)] + h[Rest(s)] /\ g[Rest(s)] <= h[Rest(s)]
  BY <1>1, <1>2, <1>4, <1>5, <1>6 DEF Sums
<1>8. g[Rest(s)] \in Int /\ h[Rest(s)] \in Int /\ e[First(s)] \in Int /\ f[First(s)] \in Int /\ e[First(s)] <= f[First(s)]
  BY <1>1, <1>2, <1>6, SumsTyped
<1>9. QED
  BY <1>4, <1>7, <1>8

LEMMA TotalPlus ==
    ASSUME NEW S, IsFiniteSet(S), NEW d \in [S -> Int], NEW e \in [S -> Int], NEW f \in [S -> Int],
           \A x \in S : d[x] = e[x] + f[x]
    PROVE  Total(d) = Total(e) + Total(f)
<1>1. PICK g : Sums(g, e, S) /\ Total(e) = g[S]
  BY TotalSums
<1>2. PICK h : Sums(h, f, S) /\ Total(f) = h[S]
  BY TotalSums
<1>3. PICK k : Sums(k, d, S) /\ Total(d) = k[S]
  BY TotalSums
<1> DEFINE Wrong == {s \in SUBSET S : k[s] # g[s] + h[s]}
<1>4. SUFFICES ASSUME Wrong # {} PROVE FALSE
  BY <1>1, <1>2, <1>3
<1>5. PICK s \in Wrong : \A u \in SUBSET s : u # s => u \notin Wrong
  <2>1. Wrong \in SUBSET (SUBSET S)
    OBVIOUS
  <2> HIDE DEF Wrong
  <2>2. QED
    BY <1>4, <2>1, SmallestSet
<1>6. s # {}
  BY <1>1, <1>2, <1>3, <1>5 DEF Sums
<1>7. First(s) \in S /\ Rest(s) \in SUBSET s /\ Rest(s) # s /\ Rest(s) \in SUBSET S
  BY <1>5, <1>6, RestSmaller
<1>8. /\ g[s] = e[First(s)] + g[Rest(s)] /\ h[s] = f[First(s)] + h[Rest(s)]
      /\ k[s] = d[First(s)] + k[Rest(s)] /\ k[Rest(s)] = g[Rest(s)] + h[Rest(s)]
  BY <1>1, <1>2, <1>3, <1>5, <1>6, <1>7 DEF Sums
<1>9. /\ g[Rest(s)] \in Int /\ h[Rest(s)] \in Int /\ e[First(s)] \in Int /\ f[First(s)] \in Int
      /\ d[First(s)] = e[First(s)] + f[First(s)]
  BY <1>1, <1>2, <1>7, SumsTyped
<1>10. QED
  BY <1>5, <1>8, <1>9

LEMMA TotalOfNone ==
    ASSUME NEW S, IsFiniteSet(S), NEW f \in [S -> Int], \A x \in S : f[x] = 0
    PROVE  Total(f) = 0
<1>1. Total(f) = Total(f) + Total(f)
  BY TotalPlus
<1>2. QED
  BY <1>1, TotalType

\* A sum with one term changed.
LEMMA TotalChanged ==
    ASSUME NEW S, IsFiniteSet(S), NEW e \in [S -> Int], NEW f \in [S -> Int], NEW x \in S,
           \A y \in S \ {x} : e[y] = f[y]
    PROVE  Total(f) = Total(e) - e[x] + f[x]
<1>1. PICK g : Sums(g, e, S) /\ Total(e) = g[S]
  BY TotalSums
<1>2. PICK h : Sums(h, f, S) /\ Total(f) = h[S]
  BY TotalSums
<1>3. g[S] = e[x] + g[S \ {x}] /\ h[S] = f[x] + h[S \ {x}]
  <2>1. S \in SUBSET S
    OBVIOUS
  <2>2. g[S] = e[x] + g[S \ {x}]
    BY <1>1, <2>1, SumsTakeOut
  <2>3. h[S] = f[x] + h[S \ {x}]
    BY <1>2, <2>1, SumsTakeOut
  <2>4. QED
    BY <2>2, <2>3
<1>4. g[S \ {x}] = h[S \ {x}]
  BY <1>1, <1>2, SumsAgree
<1>5. g[S \ {x}] \in Int /\ e[x] \in Int /\ f[x] \in Int
  BY <1>1, SumsTyped
<1>6. QED
  BY <1>1, <1>2, <1>3, <1>4, <1>5

LEMMA TotalOfOne ==
    ASSUME NEW x, NEW f \in [{x} -> Int]
    PROVE  Total(f) = f[x]
<1> DEFINE e == [y \in {x} |-> 0]
<1>1. IsFiniteSet({x}) /\ e \in [{x} -> Int] /\ x \in {x} /\ e[x] = 0
  BY FS_Singleton
<1>2. Total(e) = 0
  <2> HIDE DEF e
  <2>1. \A y \in {x} : e[y] = 0
    BY <1>1
  <2>2. QED
    BY <1>1, <2>1, TotalOfNone
<1> HIDE DEF e
<1>3. Total(f) = Total(e) - e[x] + f[x]
  BY <1>1, TotalChanged
<1>4. f[x] \in Int
  OBVIOUS
<1>5. QED
  BY <1>1, <1>2, <1>3, <1>4

\* A sum less one of its terms.
LEMMA TotalLessOne ==
    ASSUME NEW S, NEW f, NEW z, NEW R, NEW e, IsFiniteSet(S), f \in [S -> Int], z \in S, R = S \ {z},
           e \in [R -> Int], \A x \in R : e[x] = f[x]
    PROVE  Total(f) = f[z] + Total(e)
<1> DEFINE d == [x \in S |-> IF x \in S \ {z} THEN e[x] ELSE 0]
<1>1. d \in [S -> Int] /\ d[z] = 0 /\ S \ {z} \in SUBSET S
  OBVIOUS
<1>2. \A x \in S : d[x] = IF x \in S \ {z} THEN e[x] ELSE 0
  OBVIOUS
<1> HIDE DEF d
<1>3. Total(e) = Total(d)
  BY <1>1, <1>2, TotalRestricted
<1>4. Total(d) \in Int /\ f[z] \in Int
  BY <1>1, TotalType
<1>5. \A x \in S \ {z} : d[x] = f[x]
  BY <1>2
<1>6. Total(f) = Total(d) - d[z] + f[z]
  BY <1>1, <1>5, TotalChanged
<1>7. QED
  BY <1>1, <1>3, <1>4, <1>6

\* A sum in two parts.
LEMMA TotalInParts ==
    ASSUME NEW S, NEW T, NEW R, NEW f, NEW a, NEW b, IsFiniteSet(S), f \in [S -> Int], T \subseteq S, R = S \ T,
           a \in [T -> Int], b \in [R -> Int], \A x \in T : a[x] = f[x], \A x \in R : b[x] = f[x]
    PROVE  Total(f) = Total(a) + Total(b)
<1> DEFINE d == [x \in S |-> IF x \in T THEN f[x] ELSE 0]
           e == [x \in S |-> IF x \in R THEN f[x] ELSE 0]
<1>1. d \in [S -> Int] /\ e \in [S -> Int] /\ T \in SUBSET S /\ R \in SUBSET S
  OBVIOUS
<1>2. \A x \in S : d[x] = (IF x \in T THEN a[x] ELSE 0) /\ e[x] = (IF x \in R THEN b[x] ELSE 0) /\ f[x] = d[x] + e[x]
  OBVIOUS
<1> HIDE DEF d, e
<1>3. Total(a) = Total(d)
  BY <1>1, <1>2, TotalRestricted
<1>4. Total(b) = Total(e)
  BY <1>1, <1>2, TotalRestricted
<1>5. Total(f) = Total(d) + Total(e)
  BY <1>1, <1>2, TotalPlus
<1>6. QED
  BY <1>3, <1>4, <1>5

\* A sum is the sum of what each group of its terms comes to.
PartOf(T, key, k) == {x \in T : key[x] = k}

LEMMA TotalByGroup ==
    ASSUME NEW S, NEW Q, NEW f, NEW key, IsFiniteSet(S), IsFiniteSet(Q), f \in [S -> Int], \A x \in S : key[x] \in Q
    PROVE  Total(f) = Total([k \in Q |-> Total([x \in PartOf(S, key, k) |-> f[x]])])
<1> DEFINE Group(T, k) == [x \in PartOf(T, key, k) |-> f[x]]
           Groups(T) == [k \in Q |-> Total(Group(T, k))]
           Whole(T) == [x \in T |-> f[x]]
           Wrong == {T \in SUBSET S : Total(Whole(T)) # Total(Groups(T))}
<1>1. SUFFICES ASSUME Wrong # {} PROVE FALSE
  <2>1. S \notin Wrong
    BY <1>1
  <2>2. Whole(S) = f
    OBVIOUS
  <2>3. QED
    BY <2>1, <2>2
<1>2. PICK T \in Wrong : \A U \in SUBSET T : U # T => U \notin Wrong
  <2>1. Wrong \in SUBSET (SUBSET S)
    OBVIOUS
  <2> HIDE DEF Wrong
  <2>2. QED
    BY <1>1, <2>1, SmallestSet
<1>3. \A U \in SUBSET S : /\ IsFiniteSet(U) /\ Whole(U) \in [U -> Int] /\ \A x \in U : Whole(U)[x] = f[x]
                          /\ \A k \in Q : Group(U, k) \in [PartOf(U, key, k) -> Int] /\ PartOf(U, key, k) \in SUBSET U
  BY FS_Subset DEF PartOf
<1>4. \A U \in SUBSET S : \A k \in Q : IsFiniteSet(PartOf(U, key, k)) /\ Total(Group(U, k)) \in Int
  <2>1. SUFFICES ASSUME NEW U \in SUBSET S, NEW k \in Q PROVE IsFiniteSet(PartOf(U, key, k)) /\ Total(Group(U, k)) \in Int
    OBVIOUS
  <2>2. IsFiniteSet(PartOf(U, key, k)) /\ Group(U, k) \in [PartOf(U, key, k) -> Int]
    BY <1>3, FS_Subset
  <2> HIDE DEF Group
  <2>3. QED
    BY <2>2, TotalType
<1>5. \A U \in SUBSET S : Groups(U) \in [Q -> Int]
  <2> HIDE DEF Group
  <2>1. QED
    BY <1>4
<1>6. T \in SUBSET S /\ Total(Whole(T)) # Total(Groups(T))
  BY <1>2
<1>7. T # {}
  <2>1. SUFFICES ASSUME T = {} PROVE FALSE
    OBVIOUS
  <2>2. \A k \in Q : Total(Group(T, k)) = 0
    <3>1. SUFFICES ASSUME NEW k \in Q PROVE Total(Group(T, k)) = 0
      OBVIOUS
    <3>2. PartOf(T, key, k) = {} /\ Group(T, k) \in [{} -> Int]
      BY <1>3, <2>1 DEF PartOf
    <3> HIDE DEF Group
    <3>3. IsFiniteSet({}) /\ \A x \in {} : Group(T, k)[x] = 0
      BY FS_EmptySet
    <3>4. QED
      BY <3>2, <3>3, TotalOfNone
  <2>3. Total(Groups(T)) = 0
    <3>1. \A k \in Q : Groups(T)[k] = 0
      BY <2>2
    <3>2. Groups(T) \in [Q -> Int]
      BY <1>5, <1>6
    <3> HIDE DEF Groups
    <3>3. QED
      BY <3>1, <3>2, TotalOfNone
  <2>4. Total(Whole(T)) = 0
    <3>1. IsFiniteSet(T) /\ Whole(T) \in [T -> Int] /\ \A x \in T : Whole(T)[x] = 0
      BY <1>3, <1>6, <2>1
    <3> HIDE DEF Whole
    <3>2. QED
      BY <3>1, TotalOfNone
  <2>5. QED
    BY <1>6, <2>3, <2>4
<1>8. PICK z \in T : TRUE
  BY <1>7
<1> DEFINE U == T \ {z}
           h == key[z]
<1>9. /\ U \in SUBSET S /\ U \in SUBSET T /\ U # T /\ z \in S /\ h \in Q /\ f[z] \in Int
      /\ T \ {z} = U /\ {z} \in SUBSET T
  BY <1>6, <1>8
<1>10. Total(Whole(U)) = Total(Groups(U))
  <2>1. U \notin Wrong
    BY <1>2, <1>9
  <2>2. QED
    BY <1>9, <2>1
<1>11. Total(Whole(T)) = f[z] + Total(Whole(U))
  <2>1. PICK d, e : d = Whole(T) /\ e = Whole(U)
    OBVIOUS
  <2>2. /\ IsFiniteSet(T) /\ d \in [T -> Int] /\ z \in T /\ d[z] = f[z] /\ U = T \ {z}
        /\ e \in [U -> Int] /\ \A x \in U : e[x] = d[x]
    BY <1>3, <1>6, <1>8, <1>9, <2>1
  <2>3. Total(d) = d[z] + Total(e)
    BY ONLY <2>2, TotalLessOne
  <2>4. QED
    BY <2>1, <2>2, <2>3
<1>12. \A k \in Q \ {h} : Total(Group(T, k)) = Total(Group(U, k))
  <2>1. SUFFICES ASSUME NEW k \in Q \ {h} PROVE PartOf(T, key, k) = PartOf(U, key, k)
    OBVIOUS
  <2>2. QED
    BY DEF PartOf
<1>13. Total(Group(T, h)) = f[z] + Total(Group(U, h))
  <2>1. PICK d, e, P, R : d = Group(T, h) /\ e = Group(U, h) /\ P = PartOf(T, key, h) /\ R = PartOf(U, key, h)
    OBVIOUS
  <2>2. z \in P /\ R = P \ {z}
    BY <1>8, <1>9, <2>1 DEF PartOf
  <2>3. IsFiniteSet(P) /\ d \in [P -> Int] /\ e \in [R -> Int]
    BY <1>3, <1>4, <1>6, <1>9, <2>1
  <2>4. d[z] = f[z] /\ \A x \in R : e[x] = d[x]
    BY <2>1, <2>2
  <2>5. Total(d) = d[z] + Total(e)
    BY ONLY <2>2, <2>3, <2>4, TotalLessOne
  <2>6. QED
    BY <2>1, <2>4, <2>5
<1>14. Total(Groups(T)) = Total(Groups(U)) - Groups(U)[h] + Groups(T)[h]
  <2>1. PICK d, e : d = Groups(T) /\ e = Groups(U)
    OBVIOUS
  <2>2. d \in [Q -> Int] /\ e \in [Q -> Int]
    BY <1>5, <1>6, <1>9, <2>1
  <2>3. \A k \in Q \ {h} : e[k] = d[k]
    BY <1>12, <2>1
  <2>4. h \in Q /\ IsFiniteSet(Q)
    BY <1>9
  <2>5. Total(d) = Total(e) - e[h] + d[h]
    BY ONLY <2>2, <2>3, <2>4, TotalChanged
  <2>6. QED
    BY <2>1, <2>5
<1>15. Groups(U)[h] = Total(Group(U, h)) /\ Groups(T)[h] = Total(Group(T, h))
  BY <1>9
<1>16. Total(Group(U, h)) \in Int /\ Total(Groups(U)) \in Int
  <2>1. Groups(U) \in [Q -> Int]
    BY <1>5, <1>9
  <2>2. Total(Group(U, h)) \in Int
    BY <1>4, <1>9
  <2> HIDE DEF Groups
  <2>3. QED
    BY <2>1, <2>2, TotalType
<1>17. QED
  <2> HIDE DEF Groups, Group, Whole, U, h
  <2>1. QED
    BY <1>6, <1>9, <1>10, <1>11, <1>13, <1>14, <1>15, <1>16
=============================================================================
