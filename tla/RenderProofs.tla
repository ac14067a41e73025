---------------------------- MODULE RenderProofs ----------------------------
(***************************************************************************)
(* Everything the runs check of Render, for any catalog, budgets and drafts: *)
(* what a read keeps (BudgetKept), what a channel shows of it (ShowsTheTop), *)
(* what an envelope holds (UntrustedWrapped) and what a trace finds        *)
(* (NoFalseAlarm).  The folds of the model are unfolded step by step.      *)
(***************************************************************************)
EXTENDS Render, FiniteSetTheorems, SequenceTheorems, TLAPS

-----------------------------------------------------------------------------
(* Induction over the naturals, as a fact about sets: a set that has 0 and is *)
(* closed under successor has them all, or it had an injection into a proper  *)
(* part of one of its finite parts.                                           *)

LEMMA Induction ==
  ASSUME NEW S, 0 \in S, \A n \in Nat : n \in S => n + 1 \in S
  PROVE  Nat \subseteq S
<1> SUFFICES ASSUME NEW n \in Nat, n \notin S PROVE FALSE
  OBVIOUS
<1> DEFINE T == S \cap 0 .. n
           f == [i \in T |-> i + 1]
<1>1. IsFiniteSet(T)
  BY FS_Interval, FS_Subset, 0 \in Int, n \in Int
<1>2. 0 \in T /\ \A i \in T : i + 1 \in T \ {0}
  <2>1. \A i \in T : i # n /\ i \in Nat /\ i <= n /\ i + 1 \in S
    OBVIOUS
  <2> QED
    BY <2>1
<1>3. IsFiniteSet(T \ {0}) /\ Cardinality(T \ {0}) < Cardinality(T)
  <2>1. Cardinality(T) \in Nat /\ T # {}
     BY <1>1, <1>2, FS_CardinalityType
  <2> HIDE DEF T
  <2>2. 0 \in T
    BY <1>2
  <2>3. IsFiniteSet(T \ {0}) /\ Cardinality(T \ {0}) = Cardinality(T) - 1
    BY <1>1, <2>2, FS_RemoveElement, Zenon
  <2> QED
    BY <2>1, <2>3
<1>4. f \in [T -> T \ {0}]
  <2>1. \A i \in T : i + 1 \in T \ {0}
    BY <1>2
  <2> HIDE DEF T
  <2> QED
    BY <2>1
<1> HIDE DEF T, f
<1>5. PICK x, y \in T : x # y /\ f[x] = f[y]
  BY <1>1, <1>3, <1>4, FS_PigeonHole, Zenon
<1>6. x + 1 = y + 1 /\ x \in Nat /\ y \in Nat
  <2>1. T \subseteq Nat
    BY DEF T
  <2> QED
    BY <1>5, <2>1 DEF f
<1> QED
  BY <1>5, <1>6
-----------------------------------------------------------------------------
(* What a set of memories costs.                                           *)

Pick(s) == CHOOSE x \in s : TRUE

SumsOf(S, g) ==
  g = [s \in SUBSET S |-> IF s = {} THEN 0 ELSE ApproxTokens(Pick(s)) + g[s \ {Pick(s)}]]

LEMMA CostIs ==
  ASSUME NEW S
  PROVE  Cost(S) = (CHOOSE g : SumsOf(S, g))[S]
  BY DEF Cost, MapThenSumSet, MapThenFoldSet, SumsOf, Pick

LEMMA PickIn == \A s : s # {} => Pick(s) \in s
  BY DEF Pick

\* Two sums agree where both are defined.
LEMMA SumsAgree ==
  ASSUME NEW S, NEW T, IsFiniteSet(S), NEW g, SumsOf(S, g), NEW h, SumsOf(T, h)
  PROVE  \A s \in SUBSET (S \cap T) : g[s] = h[s]
<1> DEFINE P == {k \in Nat : \A s \in SUBSET (S \cap T) : Cardinality(s) = k => g[s] = h[s]}
<1>1. 0 \in P
  <2> SUFFICES ASSUME NEW s \in SUBSET (S \cap T), Cardinality(s) = 0 PROVE g[s] = h[s]
    OBVIOUS
  <2>1. IsFiniteSet(s)
    BY FS_Subset
  <2>2. s = {}
    BY <2>1, FS_EmptySet
  <2>3. {} \in SUBSET S /\ {} \in SUBSET T
    OBVIOUS
  <2> QED
    BY <2>2, <2>3 DEF SumsOf
<1>2. ASSUME NEW k \in Nat, k \in P PROVE k + 1 \in P
  <2> SUFFICES ASSUME NEW s \in SUBSET (S \cap T), Cardinality(s) = k + 1 PROVE g[s] = h[s]
    OBVIOUS
  <2> DEFINE x == Pick(s)
  <2>1. IsFiniteSet(s)
    BY FS_Subset
  <2>2. s # {}
    BY <2>1, FS_EmptySet
  <2>3. x \in s
    BY <2>2, PickIn
  <2> HIDE DEF x
  <2>4. Cardinality(s \ {x}) = Cardinality(s) - 1
    BY <2>1, <2>3, FS_RemoveElement
  <2>5. Cardinality(s \ {x}) = k
    BY <2>4
  <2>6. g[s \ {x}] = h[s \ {x}]
    BY <1>2, <2>5
  <2>7. s \in SUBSET S /\ s \in SUBSET T
    OBVIOUS
  <2> QED
    BY <2>2, <2>6, <2>7 DEF SumsOf, x
<1> HIDE DEF P
<1>3. Nat \subseteq P
  BY <1>1, <1>2, Induction
<1> QED
  <2> SUFFICES ASSUME NEW s \in SUBSET (S \cap T) PROVE g[s] = h[s]
    OBVIOUS
  <2>1. Cardinality(s) \in Nat
    BY FS_Subset, FS_CardinalityType
  <2> QED
    BY <2>1, <1>3 DEF P

LEMMA SumsExist ==
  ASSUME NEW S, IsFiniteSet(S)
  PROVE  \E g : SumsOf(S, g)
<1> DEFINE D(k) == {s \in SUBSET S : Cardinality(s) <= k}
           G(k, g) == g = [s \in D(k) |-> IF s = {} THEN 0
                                          ELSE ApproxTokens(Pick(s)) + g[s \ {Pick(s)}]]
           P == {k \in Nat : \E g : G(k, g)}
<1>1. \A s \in SUBSET S : IsFiniteSet(s) /\ Cardinality(s) \in Nat
  BY FS_Subset, FS_CardinalityType
<1>2. 0 \in P
  <2>1. \A s \in D(0) : s = {}
    BY <1>1, FS_EmptySet
  <2>2. G(0, [s \in D(0) |-> 0])
    BY <2>1
  <2> QED
    BY <2>2
<1>3. ASSUME NEW k \in Nat, k \in P PROVE k + 1 \in P
  <2>1. PICK g : G(k, g)
    BY <1>3
  <2> DEFINE h == [s \in D(k + 1) |-> IF s = {} THEN 0
                                      ELSE ApproxTokens(Pick(s)) + g[s \ {Pick(s)}]]
  <2>2. ASSUME NEW s \in D(k + 1), s # {} PROVE s \ {Pick(s)} \in D(k) /\ s \ {Pick(s)} \in D(k + 1)
    <3>1. Pick(s) \in s
      BY <2>2, PickIn
    <3>2. Cardinality(s \ {Pick(s)}) = Cardinality(s) - 1
      BY <1>1, <3>1, FS_RemoveElement
    <3> QED
      BY <1>1, <3>2
  <2>3. \A s \in D(k) : s \in D(k + 1)
    BY <1>1
  <2>4. \A s \in D(k) : h[s] = g[s]
    <3> SUFFICES ASSUME NEW s \in D(k) PROVE h[s] = g[s]
      OBVIOUS
    <3>1. s \in D(k + 1)
      BY <2>3
    <3> HIDE DEF D
    <3> QED
      BY <2>1, <3>1
  <2>5. h = [s \in D(k + 1) |-> IF s = {} THEN 0
                                ELSE ApproxTokens(Pick(s)) + h[s \ {Pick(s)}]]
    <3>1. \A s \in D(k + 1) : s # {} => h[s \ {Pick(s)}] = g[s \ {Pick(s)}]
      BY <2>2, <2>4
    <3> HIDE DEF D
    <3> QED
      BY <3>1
  <2>6. G(k + 1, h)
    BY <2>5
  <2> HIDE DEF G, h
  <2> QED
    BY <2>6
<1>4. Nat \subseteq P
  <2> HIDE DEF P
  <2> QED
    BY <1>2, <1>3, Induction
<1>5. SUBSET S = D(Cardinality(S))
  BY <1>1, FS_Subset
<1>6. PICK g : G(Cardinality(S), g)
  BY <1>1, <1>4
<1>7. SumsOf(S, g)
  <2> HIDE DEF D
  <2> QED
    BY <1>5, <1>6 DEF SumsOf
<1> QED
  BY <1>7

\* The sum takes its terms in some order.
LEMMA CostPick ==
  ASSUME NEW S, IsFiniteSet(S)
  PROVE  Cost(S) = IF S = {} THEN 0 ELSE ApproxTokens(Pick(S)) + Cost(S \ {Pick(S)})
<1> DEFINE T == S \ {Pick(S)}
           g == CHOOSE g : SumsOf(S, g)
           h == CHOOSE h : SumsOf(T, h)
<1>1. IsFiniteSet(T)
  BY FS_Subset
<1>2. SumsOf(S, g)
  BY SumsExist
<1>3. SumsOf(T, h)
  <2> HIDE DEF T
  <2> QED
    BY <1>1, SumsExist
<1>4. Cost(S) = g[S] /\ Cost(T) = h[T]
  BY CostIs
<1> HIDE DEF g, h
<1>5. h[T] = g[T]
  BY <1>2, <1>3, SumsAgree
<1> QED
  BY <1>2, <1>4, <1>5 DEF SumsOf

LEMMA CostEmpty == Cost({}) = 0
<1>1. IsFiniteSet({})
  BY FS_EmptySet
<1> DEFINE S == {}
<1> HIDE DEF S
<1>2. Cost(S) = IF S = {} THEN 0 ELSE ApproxTokens(Pick(S)) + Cost(S \ {Pick(S)})
  BY <1>1, CostPick DEF S
<1> QED
  BY <1>2 DEF S

Priced(S) == \A m \in S : ApproxTokens(m) \in Nat

\* The order does not matter.
LEMMA CostAdds ==
  ASSUME NEW S, IsFiniteSet(S), Priced(S)
  PROVE  Cost(S) \in Nat /\ \A m \in S : Cost(S) = ApproxTokens(m) + Cost(S \ {m})
<1> DEFINE Sum(T) == /\ Cost(T) \in Nat
                     /\ \A m \in T : Cost(T) = ApproxTokens(m) + Cost(T \ {m})
           P == {k \in Nat : \A T \in SUBSET S : Cardinality(T) <= k => Sum(T)}
<1>1. \A T \in SUBSET S : IsFiniteSet(T) /\ Cardinality(T) \in Nat
  BY FS_Subset, FS_CardinalityType
<1>2. Sum({})
  BY CostEmpty
<1>6. 0 \in P
  <2> SUFFICES ASSUME NEW T \in SUBSET S, Cardinality(T) <= 0 PROVE Sum(T)
    OBVIOUS
  <2>1. T = {}
    BY <1>1, FS_EmptySet
  <2> QED
    BY <2>1, <1>2
<1>3. ASSUME NEW k \in Nat, k \in P PROVE k + 1 \in P
  <2> SUFFICES ASSUME NEW T \in SUBSET S, Cardinality(T) <= k + 1, T # {} PROVE Sum(T)
    <3>1. Cardinality({}) = 0
      BY FS_EmptySet
    <3> QED
      BY <1>2
  <2> DEFINE p == Pick(T)
  <2>2. p \in T
    BY PickIn
  <2>3. Cost(T) = ApproxTokens(p) + Cost(T \ {p})
    BY <1>1, CostPick
  <2> HIDE DEF p
  <2>4. \A m \in T : T \ {m} \in SUBSET S /\ Cardinality(T \ {m}) <= k
    BY <1>1, FS_RemoveElement
  <2>5. \A m \in T : Sum(T \ {m})
    BY <1>3, <2>4
  <2>6. Cost(T) \in Nat
    BY <2>2, <2>3, <2>5 DEF Priced
  <2>7. ASSUME NEW m \in T, m # p PROVE Cost(T) = ApproxTokens(m) + Cost(T \ {m})
    <3>1. Cost(T \ {p}) = ApproxTokens(m) + Cost((T \ {p}) \ {m})
      BY <2>2, <2>5, <2>7
    <3>2. Cost(T \ {m}) = ApproxTokens(p) + Cost((T \ {m}) \ {p})
      BY <2>2, <2>5, <2>7
    <3>3. (T \ {m}) \ {p} = (T \ {p}) \ {m}
      OBVIOUS
    <3>4. Cost((T \ {p}) \ {m}) \in Nat
      <4>1. (T \ {p}) \ {m} \in SUBSET S /\ m \in T \ {p}
        BY <2>7
      <4>2. Cardinality((T \ {p}) \ {m}) = Cardinality(T \ {p}) - 1
        BY <1>1, <2>2, <2>4, <4>1, FS_RemoveElement
      <4>3. Cardinality((T \ {p}) \ {m}) <= k
        BY <1>1, <2>2, <2>4, <4>2
      <4> QED
        BY <1>3, <4>1, <4>3
    <3> QED
      BY <2>2, <2>3, <3>1, <3>2, <3>3, <3>4 DEF Priced
  <2> QED
    BY <2>3, <2>6, <2>7
<1>4. Nat \subseteq P
  <2> HIDE DEF P
  <2> QED
    BY <1>6, <1>3, Induction
<1> QED
  BY <1>1, <1>4
LEMMA CostGrows ==
  ASSUME NEW S, IsFiniteSet(S), Priced(S), NEW A \in SUBSET S
  PROVE  Cost(A) \in Nat /\ Cost(S) \in Nat /\ Cost(A) <= Cost(S)
<1> DEFINE P == {k \in Nat : \A T \in SUBSET S : Cardinality(S \ T) = k => Cost(T) <= Cost(S)}
<1>1. \A T \in SUBSET S : /\ IsFiniteSet(T) /\ Priced(T) /\ Cost(T) \in Nat
                          /\ IsFiniteSet(S \ T) /\ Cardinality(S \ T) \in Nat
  <2> SUFFICES ASSUME NEW T \in SUBSET S
               PROVE  /\ IsFiniteSet(T) /\ Priced(T) /\ Cost(T) \in Nat
                      /\ IsFiniteSet(S \ T) /\ Cardinality(S \ T) \in Nat
    OBVIOUS
  <2>1. IsFiniteSet(T) /\ IsFiniteSet(S \ T) /\ Priced(T)
    BY FS_Subset DEF Priced
  <2> QED
    BY <2>1, CostAdds, FS_CardinalityType
<1>2. 0 \in P
  <2> SUFFICES ASSUME NEW T \in SUBSET S, Cardinality(S \ T) = 0 PROVE Cost(T) <= Cost(S)
    OBVIOUS
  <2>1. S \ T = {}
    BY <1>1, FS_EmptySet
  <2>2. T = S
    BY <2>1
  <2>3. Cost(S) \in Nat
    BY <1>1
  <2> QED
    BY <2>2, <2>3
<1>3. ASSUME NEW k \in Nat, k \in P PROVE k + 1 \in P
  <2> SUFFICES ASSUME NEW T \in SUBSET S, Cardinality(S \ T) = k + 1 PROVE Cost(T) <= Cost(S)
    OBVIOUS
  <2>1. S \ T # {}
    BY FS_EmptySet
  <2>2. PICK x \in S : x \notin T
    BY <2>1
  <2> DEFINE U == T \cup {x}
  <2>3. U \in SUBSET S /\ x \in U /\ U \ {x} = T /\ S \ U = (S \ T) \ {x} /\ x \in S \ T
    BY <2>2
  <2> HIDE DEF U
  <2>4. Cardinality((S \ T) \ {x}) = Cardinality(S \ T) - 1
    BY <1>1, <2>3, FS_RemoveElement
  <2>5. Cost(U) <= Cost(S)
    BY <1>3, <2>3, <2>4
  <2>6. Cost(U) = ApproxTokens(x) + Cost(T)
    BY <1>1, <2>3, CostAdds
  <2>7. Cost(U) \in Nat /\ Cost(T) \in Nat /\ Cost(S) \in Nat /\ ApproxTokens(x) \in Nat
    BY <1>1, <2>3 DEF Priced
  <2> QED
    BY <2>5, <2>6, <2>7
<1>4. Nat \subseteq P
  <2> HIDE DEF P
  <2> QED
    BY <1>2, <1>3, Induction
<1> QED
  BY <1>1, <1>4

-----------------------------------------------------------------------------
(* Orders, and lists in them.                                              *)

\* R is a strict total order on S.
TotalOrder(R, S) ==
  /\ \A x \in S : <<x, x>> \notin R
  /\ \A x, y \in S : <<x, y>> \in R \/ <<y, x>> \in R \/ x = y
  /\ \A x, y, z \in S : <<x, y>> \in R /\ <<y, z>> \in R => <<x, z>> \in R

Before(S, R, x) == {y \in S : <<y, x>> \in R}
Place(S, R, x) == Cardinality(Before(S, R, x))

LEMMA PlaceOrder ==
  ASSUME NEW S, NEW R, IsFiniteSet(S), TotalOrder(R, S), NEW x \in S, NEW y \in S, <<y, x>> \in R
  PROVE  Place(S, R, y) < Place(S, R, x)
<1>1. /\ Before(S, R, y) \subseteq Before(S, R, x)
      /\ y \in Before(S, R, x) /\ y \notin Before(S, R, y)
  BY DEF TotalOrder, Before
<1>2. IsFiniteSet(Before(S, R, x)) /\ IsFiniteSet(Before(S, R, y))
  BY FS_Subset DEF Before
<1>3. /\ Cardinality(Before(S, R, y)) <= Cardinality(Before(S, R, x))
      /\ Cardinality(Before(S, R, y)) = Cardinality(Before(S, R, x))
           => Before(S, R, y) = Before(S, R, x)
  BY <1>1, <1>2, FS_Subset
<1> QED
  BY <1>1, <1>2, <1>3, FS_CardinalityType DEF Place

LEMMA PlaceRange ==
  ASSUME NEW S, NEW R, IsFiniteSet(S), TotalOrder(R, S), NEW x \in S
  PROVE  Place(S, R, x) \in 0 .. Cardinality(S) - 1
<1>1. Before(S, R, x) \subseteq S \ {x}
  BY DEF TotalOrder, Before
<1>2. IsFiniteSet(S \ {x}) /\ Cardinality(S \ {x}) = Cardinality(S) - 1
  BY FS_RemoveElement
<1>3. /\ IsFiniteSet(Before(S, R, x))
      /\ Cardinality(Before(S, R, x)) <= Cardinality(S \ {x})
  BY <1>1, <1>2, FS_Subset
<1> QED
  BY <1>2, <1>3, FS_CardinalityType DEF Place

\* Every place is somebody's.
LEMMA PlaceTaken ==
  ASSUME NEW S, NEW R, IsFiniteSet(S), TotalOrder(R, S), NEW k \in 0 .. Cardinality(S) - 1
  PROVE  \E x \in S : Place(S, R, x) = k
<1> SUFFICES ASSUME \A x \in S : Place(S, R, x) # k PROVE FALSE
  OBVIOUS
<1> DEFINE T == 0 .. Cardinality(S) - 1
           f == [x \in S |-> Place(S, R, x)]
<1>1. Cardinality(S) \in Nat
  BY FS_CardinalityType
<1>2. IsFiniteSet(T) /\ Cardinality(T) = Cardinality(S)
  <2>1. 0 \in Int /\ Cardinality(S) - 1 \in Int /\ 0 <= Cardinality(S) - 1
    BY <1>1
  <2>2. /\ IsFiniteSet(T)
        /\ Cardinality(T) = IF 0 > Cardinality(S) - 1 THEN 0 ELSE (Cardinality(S) - 1) - 0 + 1
    BY <2>1, FS_Interval
  <2> QED
    BY <1>1, <2>1, <2>2
<1>3. k \in T
  OBVIOUS
<1> HIDE DEF T
<1>4. IsFiniteSet(T \ {k}) /\ Cardinality(T \ {k}) = Cardinality(T) - 1
  BY <1>2, <1>3, FS_RemoveElement
<1>5. f \in [S -> T \ {k}]
  BY PlaceRange DEF T
<1>6. Cardinality(T \ {k}) < Cardinality(S)
  BY <1>1, <1>2, <1>4
<1> HIDE DEF f
<1>7. PICK x, y \in S : x # y /\ f[x] = f[y]
  BY <1>4, <1>5, <1>6, FS_PigeonHole, Zenon
<1>8. Place(S, R, x) = Place(S, R, y)
  BY <1>7 DEF f
<1>9. <<x, y>> \in R \/ <<y, x>> \in R
  BY <1>7 DEF TotalOrder
<1>10. Place(S, R, x) \in Int /\ Place(S, R, y) \in Int
  BY PlaceRange
<1> QED
  BY <1>8, <1>9, <1>10, PlaceOrder

Arranges(a, S, R) ==
  /\ Cardinality(S) \in Nat
  /\ a \in [1 .. Cardinality(S) -> S]
  /\ \A x \in S : \E k \in 1 .. Cardinality(S) : a[k] = x
  /\ \A k \in 1 .. Cardinality(S) : Place(S, R, a[k]) = k - 1
  /\ \A i, j \in 1 .. Cardinality(S) : /\ <<a[i], a[j]>> \in R <=> i < j
                                       /\ a[i] = a[j] => i = j

LEMMA ArrangedSorts ==
  ASSUME NEW S, NEW R, IsFiniteSet(S), TotalOrder(R, S)
  PROVE  Arranges(Arranged(S, R), S, R)
<1> DEFINE a == Arranged(S, R)
           P(x) == Place(S, R, x)
<1>1. Cardinality(S) \in Nat
  BY FS_CardinalityType
<1>2. a = [k \in 1 .. Cardinality(S) |-> CHOOSE x \in S : P(x) = k - 1]
  BY DEF Arranged, Place, Before
<1> HIDE DEF a, P
<1>3. ASSUME NEW k \in 1 .. Cardinality(S) PROVE a[k] \in S /\ P(a[k]) = k - 1
  <2>1. k - 1 \in 0 .. Cardinality(S) - 1
    BY <1>1
  <2>2. \E x \in S : P(x) = k - 1
    BY <2>1, PlaceTaken DEF P
  <2> QED
    BY <1>2, <2>2
<1>4. a \in [1 .. Cardinality(S) -> S]
  BY <1>2, <1>3
<1>5. ASSUME NEW x \in S PROVE P(x) + 1 \in 1 .. Cardinality(S) /\ a[P(x) + 1] = x
  <2>1. P(x) \in 0 .. Cardinality(S) - 1
    BY PlaceRange DEF P
  <2>2. P(x) + 1 \in 1 .. Cardinality(S) /\ (P(x) + 1) - 1 = P(x)
    BY <1>1, <2>1
  <2> DEFINE y == a[P(x) + 1]
  <2>3. y \in S /\ P(y) = P(x)
    BY <1>3, <2>2
  <2> HIDE DEF y
  <2>4. <<x, y>> \notin R /\ <<y, x>> \notin R
    BY <2>1, <2>3, PlaceOrder DEF P
  <2>5. y = x
    BY <2>3, <2>4 DEF TotalOrder
  <2> QED
    BY <2>2, <2>5 DEF y
<1>6. ASSUME NEW i \in 1 .. Cardinality(S), NEW j \in 1 .. Cardinality(S)
      PROVE  (<<a[i], a[j]>> \in R <=> i < j) /\ (a[i] = a[j] => i = j)
  <2>1. /\ a[i] \in S /\ P(a[i]) = i - 1 /\ i \in Int
        /\ a[j] \in S /\ P(a[j]) = j - 1 /\ j \in Int
    BY <1>1, <1>3
  <2>2. <<a[i], a[j]>> \in R => i < j
    BY <2>1, PlaceOrder DEF P
  <2>3. <<a[j], a[i]>> \in R => j < i
    BY <2>1, PlaceOrder DEF P
  <2>4. a[i] = a[j] => i = j
    BY <2>1
  <2> QED
    BY <2>1, <2>2, <2>3, <2>4 DEF TotalOrder
<1>7. /\ \A x \in S : \E k \in 1 .. Cardinality(S) : a[k] = x
      /\ \A k \in 1 .. Cardinality(S) : Place(S, R, a[k]) = k - 1
  BY <1>3, <1>5 DEF P
<1> QED
  BY <1>1, <1>4, <1>6, <1>7 DEF a, Arranges

Orderable(S) == \A m \in S : m.salience \in Int /\ m.created \in Int

\* The members of S once each, none after one that it outranks.
IsListing(list, S) ==
  /\ Cardinality(S) \in Nat
  /\ list \in [1 .. Cardinality(S) -> S]
  /\ ToSet(list) = S
  /\ \A i, j \in DOMAIN list : /\ i < j => ~Outranks(list[j], list[i])
                               /\ list[i] = list[j] => i = j

LEMMA DistinctLists ==
  ASSUME NEW n \in Nat, NEW list, list = [k \in 1 .. n |-> list[k]],
         \A i, j \in 1 .. n : /\ i < j => ~Outranks(list[j], list[i])
                              /\ list[i] = list[j] => i = j
  PROVE  IsListing(list, ToSet(list))
<1> DEFINE S == ToSet(list)
<1>1. DOMAIN list = 1 .. n
  OBVIOUS
<1>2. \A k \in 1 .. n : list[k] \in S
  BY <1>1 DEF ToSet
<1>3. \A x \in S : \E k \in 1 .. n : list[k] = x
  BY <1>1 DEF ToSet
<1> HIDE DEF S
<1>4. list \in [1 .. n -> S]
  BY <1>2
<1>5. list \in Injection(1 .. n, S) /\ list \in Surjection(1 .. n, S)
  BY <1>3, <1>4 DEF Injection, IsInjective, Surjection
<1>6. IsFiniteSet(1 .. n) /\ Cardinality(1 .. n) = n
  <2>1. 1 \in Int /\ n \in Int
    OBVIOUS
  <2>2. IsFiniteSet(1 .. n) /\ Cardinality(1 .. n) = IF 1 > n THEN 0 ELSE n - 1 + 1
    BY <2>1, FS_Interval
  <2>3. CASE n = 0
    BY <2>2, <2>3
  <2>4. CASE n > 0
    BY <2>2, <2>4
  <2> QED
    BY <2>3, <2>4
<1>7. IsFiniteSet(S)
  BY <1>5, <1>6, FS_Surjection
<1>8. Cardinality(S) = n
  BY <1>5, <1>6, <1>7, FS_Injection
<1> QED
  BY <1>1, <1>4, <1>8 DEF S, IsListing

\* The last sort of the compressor orders the places of a list.
LEMMA LastSortOrders ==
  ASSUME NEW S, Orderable(S), NEW list, IsListing(list, S), NEW I \in SUBSET (DOMAIN list)
  PROVE  /\ TotalOrder(LastSort(list), I)
         /\ \A i, j \in I : <<i, j>> \in LastSort(list) => ~Outranks(list[j], list[i])
<1> DEFINE s(i) == list[i].salience
           c(i) == list[i].created
           p(i) == list[i] \in Pinned(list)
           up(i, j) == s(i) > s(j) \/ (s(i) = s(j) /\ c(i) > c(j))
           before(i, j) == \/ up(i, j)
                           \/ /\ ~up(j, i)
                              /\ \/ p(i) /\ ~p(j)
                                 \/ (p(i) <=> p(j)) /\ i < j
<1>1. \A i \in I : s(i) \in Int /\ c(i) \in Int /\ i \in Nat
  BY DEF IsListing, Orderable
<1>2. \A i, j \in I : <<i, j>> \in LastSort(list) <=> before(i, j)
  BY DEF LastSort, Outranks
<1>3. \A i, j \in I : before(i, j) => ~Outranks(list[j], list[i])
  <2>1. \A i, j \in I : Outranks(list[j], list[i]) <=> up(j, i)
    BY DEF Outranks
  <2>2. \A i, j \in I : up(i, j) => ~up(j, i)
    BY <1>1
  <2> HIDE DEF up
  <2> QED
    BY <2>1, <2>2
<1> HIDE DEF s, c, p
<1>4. \A i \in I : ~before(i, i)
  BY <1>1
<1>5. \A i, j \in I : before(i, j) \/ before(j, i) \/ i = j
  BY <1>1
<1>6. \A i, j, k \in I : before(i, j) /\ before(j, k) => before(i, k)
  BY <1>1
<1> HIDE DEF before
<1> QED
  BY <1>2, <1>3, <1>4, <1>5, <1>6 DEF TotalOrder

LEMMA SortedLists ==
  ASSUME NEW S, Orderable(S), NEW list, IsListing(list, S), NEW K \in SUBSET S
  PROVE  IsListing(Sorted(list, K), K)
<1> DEFINE I == {k \in DOMAIN list : list[k] \in K}
           R == LastSort(list)
           a == Arranged(I, R)
           n == Cardinality(I)
           sorted == Sorted(list, K)
<1>1. TotalOrder(R, I) /\ \A i, j \in I : <<i, j>> \in R => ~Outranks(list[j], list[i])
  <2>1. I \in SUBSET (DOMAIN list)
    OBVIOUS
  <2> HIDE DEF I
  <2> QED
    BY <2>1, LastSortOrders
<1>2. IsFiniteSet(I)
  <2>1. DOMAIN list = 1 .. Cardinality(S) /\ Cardinality(S) \in Int /\ 1 \in Int
    BY DEF IsListing
  <2>2. IsFiniteSet(DOMAIN list)
    BY <2>1, FS_Interval
  <2> QED
    BY <2>2, FS_Subset
<1>3. sorted = [k \in DOMAIN a |-> list[a[k]]]
  BY DEF Sorted
<1>4. \A i, j \in I : list[i] = list[j] => i = j
  BY DEF IsListing
<1>5. \A x \in K : \E i \in I : list[i] = x
  BY DEF IsListing, ToSet
<1>6. \A i \in I : list[i] \in K
  OBVIOUS
<1> HIDE DEF I, R
<1>7. Arranges(a, I, R)
  BY <1>1, <1>2, ArrangedSorts
<1> HIDE DEF a, sorted
<1>8. /\ n \in Nat /\ DOMAIN a = 1 .. n /\ \A k \in 1 .. n : a[k] \in I
      /\ \A i \in I : \E k \in 1 .. n : a[k] = i
      /\ \A i, j \in 1 .. n : (i < j => <<a[i], a[j]>> \in R) /\ (a[i] = a[j] => i = j)
  BY <1>7 DEF Arranges
<1> HIDE DEF n
<1>9. sorted = [k \in 1 .. n |-> sorted[k]] /\ \A k \in 1 .. n : sorted[k] = list[a[k]]
  BY <1>3, <1>8
<1>10. ASSUME NEW i \in 1 .. n, NEW j \in 1 .. n
       PROVE  /\ i < j => ~Outranks(sorted[j], sorted[i])
              /\ sorted[i] = sorted[j] => i = j
  <2>1. a[i] \in I /\ a[j] \in I /\ sorted[i] = list[a[i]] /\ sorted[j] = list[a[j]]
    BY <1>8, <1>9
  <2>2. i < j => ~Outranks(list[a[j]], list[a[i]])
    BY <1>1, <1>8, <2>1
  <2>3. list[a[i]] = list[a[j]] => i = j
    BY <1>4, <1>8, <2>1
  <2> QED
    BY <2>1, <2>2, <2>3
<1>11. ToSet(sorted) = K
  <2>1. DOMAIN sorted = 1 .. n
    BY <1>9
  <2> QED
    BY <2>1, <1>5, <1>6, <1>8, <1>9 DEF ToSet
<1>12. IsListing(sorted, ToSet(sorted))
  BY <1>8, <1>9, <1>10, DistinctLists
<1> QED
  BY <1>11, <1>12 DEF sorted
-----------------------------------------------------------------------------
(* The compressor's loop.                                                  *)

FoldsOf(list, b, g) ==
  g = [s \in SUBSET (DOMAIN list) |->
         IF s = {} THEN Pinned(list) ELSE Take(g[s \ {Max(s)}], list[Max(s)], b)]

Folded(list, b) == CHOOSE g : FoldsOf(list, b, g)

\* What is kept of the first k memories.
KeptTo(list, b, k) == Folded(list, b)[1 .. k]

LEMMA KeptIs ==
  ASSUME NEW list, NEW b
  PROVE  Kept(list, b) = Folded(list, b)[DOMAIN list]
  BY DEF Kept, FoldLeft, MapThenFoldSet, FoldsOf, Folded

LEMMA MaxIs ==
  ASSUME NEW k \in Nat, NEW s \in SUBSET (1 .. k + 1), k + 1 \in s
  PROVE  Max(s) = k + 1
<1>1. \A y \in s : y \in Int /\ k + 1 >= y
  OBVIOUS
<1>2. \A x \in s : (\A y \in s : x >= y) => x = k + 1
  BY <1>1
<1> DEFINE Top(x) == \A y \in s : x >= y
<1>3. Top(k + 1)
  BY <1>1
<1>4. Max(s) = CHOOSE x \in s : Top(x)
  BY DEF Max
<1>5. \A x \in s : Top(x) => x = k + 1
  BY <1>2
<1> HIDE DEF Top
<1> QED
  BY <1>3, <1>4, <1>5

LEMMA FoldExists ==
  ASSUME NEW list, NEW b, NEW n \in Nat, DOMAIN list = 1 .. n
  PROVE  FoldsOf(list, b, Folded(list, b))
<1> DEFINE Body(g, s) == IF s = {} THEN Pinned(list) ELSE Take(g[s \ {Max(s)}], list[Max(s)], b)
           G(k, g) == g = [s \in SUBSET (1 .. k) |-> Body(g, s)]
           P == {k \in Nat : \E g : G(k, g)}
<1>1. 0 \in P
  <2>1. \A s \in SUBSET (1 .. 0) : s = {}
    OBVIOUS
  <2> DEFINE g == [s \in SUBSET (1 .. 0) |-> Pinned(list)]
  <2>2. G(0, g)
    BY <2>1
  <2> HIDE DEF G, g
  <2> QED
    BY <2>2
<1>2. ASSUME NEW k \in Nat, k \in P PROVE k + 1 \in P
  <2>1. PICK g : G(k, g)
    BY <1>2
  <2> DEFINE h == [s \in SUBSET (1 .. k + 1) |->
                     IF k + 1 \in s THEN Take(g[s \ {k + 1}], list[k + 1], b) ELSE g[s]]
  <2>2. \A s \in SUBSET (1 .. k) : s \in SUBSET (1 .. k + 1) /\ k + 1 \notin s /\ h[s] = g[s]
    <3>1. \A s \in SUBSET (1 .. k) : s \in SUBSET (1 .. k + 1) /\ k + 1 \notin s
      OBVIOUS
    <3> QED
      BY <3>1
  <2>3. ASSUME NEW s \in SUBSET (1 .. k + 1) PROVE h[s] = Body(h, s)
    <3>1. CASE k + 1 \in s
      <4>1. Max(s) = k + 1 /\ s # {} /\ s \ {k + 1} \in SUBSET (1 .. k)
        BY <3>1, MaxIs
      <4>2. h[s \ {k + 1}] = g[s \ {k + 1}]
        BY <2>2, <4>1
      <4>3. h[s] = Take(g[s \ {k + 1}], list[k + 1], b)
        BY <3>1
      <4> HIDE DEF h
      <4> QED
        BY <4>1, <4>2, <4>3
    <3>2. CASE k + 1 \notin s
      <4>4. \A i \in s : i \in 1 .. k
        BY <3>2
      <4>1. s \in SUBSET (1 .. k) /\ s \ {Max(s)} \in SUBSET (1 .. k)
        BY <4>4
      <4>2. h[s] = g[s] /\ h[s \ {Max(s)}] = g[s \ {Max(s)}]
        BY <2>2, <4>1
      <4>3. g[s] = Body(g, s)
        BY <2>1, <4>1
      <4> HIDE DEF h
      <4> QED
        BY <4>2, <4>3
    <3> QED
      BY <3>1, <3>2
  <2>4. h = [s \in SUBSET (1 .. k + 1) |-> h[s]]
    OBVIOUS
  <2> HIDE DEF h, Body
  <2>5. G(k + 1, h)
    BY <2>3, <2>4
  <2> HIDE DEF G
  <2> QED
    BY <2>5
<1>3. Nat \subseteq P
  <2> HIDE DEF P
  <2> QED
    BY <1>1, <1>2, Induction
<1>4. \E g : FoldsOf(list, b, g)
  BY <1>3 DEF FoldsOf
<1> QED
  BY <1>4 DEF Folded

LEMMA KeptToSteps ==
  ASSUME NEW list, NEW b, NEW n \in Nat, DOMAIN list = 1 .. n
  PROVE  /\ KeptTo(list, b, 0) = Pinned(list)
         /\ \A k \in 0 .. n - 1 : KeptTo(list, b, k + 1) = Take(KeptTo(list, b, k), list[k + 1], b)
         /\ Kept(list, b) = KeptTo(list, b, n)
<1> DEFINE g == Folded(list, b)
<1>1. FoldsOf(list, b, g)
  BY FoldExists
<1> HIDE DEF g
<1>2. g[1 .. 0] = Pinned(list)
  BY <1>1 DEF FoldsOf
<1>3. ASSUME NEW k \in 0 .. n - 1 PROVE g[1 .. k + 1] = Take(g[1 .. k], list[k + 1], b)
  <2>1. Max(1 .. k + 1) = k + 1
    BY MaxIs
  <2>2. (1 .. k + 1) \ {k + 1} = 1 .. k /\ 1 .. k + 1 # {}
    OBVIOUS
  <2>3. 1 .. k + 1 \in SUBSET (DOMAIN list)
    OBVIOUS
  <2> QED
    BY <1>1, <2>1, <2>2, <2>3 DEF FoldsOf
<1> QED
  BY <1>2, <1>3, KeptIs DEF KeptTo, g

\* After k memories: what is pinned is kept, the cost is in bounds, none of the
\* rest is kept unless pinned, and what was passed over did not fit beside the
\* pinned memories and those kept that are no worse.
Loop(list, b, S, k) ==
  LET kept == KeptTo(list, b, k)
  IN  /\ Pinned(list) \subseteq kept /\ kept \subseteq S
      /\ Cost(kept) <= b \/ kept = Pinned(list)
      /\ \A i \in DOMAIN list : i > k /\ list[i] \in kept => list[i] \in Pinned(list)
      /\ \A i \in DOMAIN list : i <= k /\ list[i] \notin kept =>
           Cost(Pinned(list) \cup {m \in kept : ~Outranks(list[i], m)}) + ApproxTokens(list[i]) > b

LEMMA PinnedListed ==
  ASSUME NEW list, NEW S, ToSet(list) = S
  PROVE  Pinned(list) \subseteq S
  BY DEF Pinned, FirstOfTypes, ToSet

LEMMA LoopStep ==
  ASSUME NEW S, IsFiniteSet(S), Orderable(S), Priced(S), NEW list, IsListing(list, S),
         NEW b \in Int, NEW k \in 0 .. Cardinality(S) - 1, Loop(list, b, S, k)
  PROVE  Loop(list, b, S, k + 1)
<1> DEFINE n == Cardinality(S)
           old == KeptTo(list, b, k)
           new == KeptTo(list, b, k + 1)
           m == list[k + 1]
<1>1. /\ n \in Nat /\ DOMAIN list = 1 .. n /\ k \in Nat /\ k + 1 \in DOMAIN list
      /\ m \in S /\ \A i \in DOMAIN list : i \in Nat /\ list[i] \in S
  BY DEF IsListing
<1>2. new = Take(old, m, b)
  BY <1>1, KeptToSteps
<1>3. /\ Pinned(list) \subseteq old /\ old \subseteq S
      /\ Cost(old) <= b \/ old = Pinned(list)
      /\ \A i \in DOMAIN list : i > k /\ list[i] \in old => list[i] \in Pinned(list)
      /\ \A i \in DOMAIN list : i <= k /\ list[i] \notin old =>
           Cost(Pinned(list) \cup {x \in old : ~Outranks(list[i], x)}) + ApproxTokens(list[i]) > b
  BY DEF Loop
<1> HIDE DEF old, new
<1>4. \A i \in DOMAIN list : i <= k + 1 => i <= k \/ i = k + 1
  BY <1>1
<1>5. CASE m \in old \/ Cost(old) + ApproxTokens(m) > b
  <2>1. new = old
    BY <1>2, <1>5 DEF Take
  <2>2. ASSUME m \notin old
        PROVE  Cost(Pinned(list) \cup {x \in old : ~Outranks(m, x)}) + ApproxTokens(m) > b
    <3>1. ASSUME NEW x \in old PROVE x \in Pinned(list) \/ ~Outranks(m, x)
      <4>1. PICK j \in DOMAIN list : x = list[j]
        BY <1>3, <3>1 DEF IsListing, ToSet
      <4>2. j # k + 1
        BY <2>2, <3>1, <4>1
      <4>3. j > k \/ j < k + 1
        BY <1>1
      <4> QED
        BY <1>1, <1>3, <3>1, <4>1, <4>2, <4>3 DEF IsListing
    <3>2. Pinned(list) \cup {x \in old : ~Outranks(m, x)} = old
      BY <1>3, <3>1
    <3> QED
      BY <1>5, <2>2, <3>2
  <2>3. \A i \in DOMAIN list : i > k + 1 => i > k
    BY <1>1
  <2> HIDE DEF m
  <2>4. \A i \in DOMAIN list : i <= k + 1 /\ list[i] \notin old =>
          Cost(Pinned(list) \cup {x \in old : ~Outranks(list[i], x)}) + ApproxTokens(list[i]) > b
    BY <1>3, <1>4, <2>2 DEF m
  <2> QED
    BY <1>3, <2>1, <2>3, <2>4 DEF Loop, new
<1>6. CASE m \notin old /\ ~(Cost(old) + ApproxTokens(m) > b)
  <2>1. new = old \cup {m}
    BY <1>2, <1>6 DEF Take
  <2>2. Cost(new) = ApproxTokens(m) + Cost(old)
    <3>1. new \subseteq S /\ m \in new /\ new \ {m} = old
      BY <1>1, <1>3, <1>6, <2>1
    <3>2. IsFiniteSet(new) /\ Priced(new)
      BY <3>1, FS_Subset DEF Priced
    <3> QED
      BY <3>1, <3>2, CostAdds
  <2>3. Cost(old) \in Nat /\ ApproxTokens(m) \in Nat
    <3>1. IsFiniteSet(old) /\ Priced(old)
      BY <1>3, FS_Subset DEF Priced
    <3> QED
      BY <1>1, <3>1, CostAdds DEF Priced
  <2>4. Cost(new) <= b
    BY <1>6, <2>2, <2>3
  <2>5. ASSUME NEW i \in DOMAIN list, i > k + 1, list[i] \in new PROVE list[i] \in Pinned(list)
    <3>1. list[i] # m /\ i > k
      BY <1>1, <2>5 DEF IsListing
    <3> QED
      BY <1>3, <2>1, <2>5, <3>1
  <2>6. ASSUME NEW i \in DOMAIN list, i <= k + 1, list[i] \notin new
        PROVE  Cost(Pinned(list) \cup {x \in new : ~Outranks(list[i], x)}) + ApproxTokens(list[i]) > b
    <3>1. i <= k /\ list[i] \notin old
      BY <1>4, <2>1, <2>6
    <3> DEFINE A == Pinned(list) \cup {x \in old : ~Outranks(list[i], x)}
               B == Pinned(list) \cup {x \in new : ~Outranks(list[i], x)}
    <3>2. A \subseteq B /\ B \subseteq S
      BY <1>1, <1>3, <2>1
    <3>3. Cost(A) + ApproxTokens(list[i]) > b
      BY <1>3, <3>1
    <3> HIDE DEF A, B
    <3>4. IsFiniteSet(B) /\ Priced(B)
      BY <3>2, FS_Subset DEF Priced
    <3>5. Cost(A) \in Nat /\ Cost(B) \in Nat /\ Cost(A) <= Cost(B)
      BY <3>2, <3>4, CostGrows
    <3>6. ApproxTokens(list[i]) \in Nat
      BY <1>1 DEF Priced
    <3>7. Cost(B) + ApproxTokens(list[i]) > b
      BY <3>3, <3>5, <3>6
    <3> QED
      BY <3>7 DEF B
  <2>7. Pinned(list) \subseteq new /\ new \subseteq S
    BY <1>1, <1>3, <2>1
  <2> HIDE DEF m
  <2> QED
    BY <2>4, <2>5, <2>6, <2>7 DEF Loop, new
<1> QED
  BY <1>5, <1>6

LEMMA LoopHolds ==
  ASSUME NEW S, IsFiniteSet(S), Orderable(S), Priced(S), NEW list, IsListing(list, S),
         NEW b \in Int
  PROVE  Loop(list, b, S, Cardinality(S)) /\ Kept(list, b) = KeptTo(list, b, Cardinality(S))
<1> DEFINE n == Cardinality(S)
           P == {k \in Nat : k <= n => Loop(list, b, S, k)}
<1>1. n \in Nat /\ DOMAIN list = 1 .. n /\ ToSet(list) = S
  BY DEF IsListing
<1>2. KeptTo(list, b, 0) = Pinned(list) /\ Kept(list, b) = KeptTo(list, b, n)
  BY <1>1, KeptToSteps
<1>3. 0 \in P
  <2>1. Pinned(list) \subseteq S
    BY <1>1, PinnedListed
  <2>2. \A i \in DOMAIN list : ~(i <= 0)
    BY <1>1
  <2> QED
    BY <1>2, <2>1, <2>2 DEF Loop
<1>4. ASSUME NEW k \in Nat, k \in P PROVE k + 1 \in P
  <2> SUFFICES ASSUME k + 1 <= n PROVE Loop(list, b, S, k + 1)
    OBVIOUS
  <2>1. k \in 0 .. Cardinality(S) - 1 /\ k <= n
    BY <1>1
  <2>2. Loop(list, b, S, k)
    BY <1>4, <2>1
  <2> QED
    BY <2>1, <2>2, LoopStep
<1>5. Nat \subseteq P
  <2> HIDE DEF P
  <2> QED
    BY <1>3, <1>4, Induction
<1> QED
  BY <1>1, <1>2, <1>5

\* What the compressor promises of a list.
LEMMA CompressKeeps ==
  ASSUME NEW S, IsFiniteSet(S), Orderable(S), Priced(S), NEW list, IsListing(list, S),
         NEW b \in Int
  PROVE  LET kept == Kept(list, b)
         IN  /\ Pinned(list) \subseteq kept /\ kept \subseteq S
             /\ IsListing(Compress(list, b), kept)
             /\ Cost(kept) <= b \/ kept = Pinned(list)
             /\ \A m \in S \ kept :
                  Cost(Pinned(list) \cup {n \in kept : ~Outranks(m, n)}) + ApproxTokens(m) > b
<1> DEFINE kept == Kept(list, b)
<1>1. Loop(list, b, S, Cardinality(S)) /\ kept = KeptTo(list, b, Cardinality(S))
  BY LoopHolds
<1> HIDE DEF kept
<1>2. /\ Pinned(list) \subseteq kept /\ kept \subseteq S
      /\ Cost(kept) <= b \/ kept = Pinned(list)
  BY <1>1 DEF Loop
<1>3. ASSUME NEW m \in S \ kept
      PROVE  Cost(Pinned(list) \cup {n \in kept : ~Outranks(m, n)}) + ApproxTokens(m) > b
  <2>1. PICK i \in DOMAIN list : m = list[i] /\ i <= Cardinality(S)
    BY DEF IsListing, ToSet
  <2> QED
    BY <1>1, <1>3, <2>1 DEF Loop
<1>4. IsListing(Compress(list, b), kept)
  BY <1>2, SortedLists DEF Compress, kept
<1> QED
  BY <1>2, <1>3, <1>4 DEF kept

\* When all fit, all are kept.
LEMMA AllFit ==
  ASSUME NEW S, IsFiniteSet(S), Orderable(S), Priced(S), NEW list, IsListing(list, S),
         NEW b \in Int, Cost(S) <= b, NEW m \in S
  PROVE  m \in Kept(list, b)
<1> DEFINE kept == Kept(list, b)
           A == Pinned(list) \cup {n \in kept : ~Outranks(m, n)}
<1> SUFFICES ASSUME m \notin kept PROVE FALSE
  OBVIOUS
<1>1. /\ Pinned(list) \subseteq kept /\ kept \subseteq S
      /\ Cost(A) + ApproxTokens(m) > b
  BY CompressKeeps
<1>2. A \cup {m} \in SUBSET S /\ m \notin A
  BY <1>1
<1> HIDE DEF kept, A
<1> DEFINE B == A \cup {m}
<1>3. B \in SUBSET S /\ m \in B /\ B \ {m} = A
  BY <1>2
<1> HIDE DEF B
<1>4. Cost(B) \in Nat /\ Cost(S) \in Nat /\ Cost(B) <= Cost(S)
  BY <1>3, CostGrows
<1>5. IsFiniteSet(B) /\ Priced(B)
  BY <1>3, FS_Subset DEF Priced
<1>6. Cost(B) = ApproxTokens(m) + Cost(A)
  BY <1>3, <1>5, CostAdds
<1>7. Cost(A) \in Nat /\ ApproxTokens(m) \in Nat
  <2>1. A \in SUBSET S
    BY <1>2
  <2> QED
    BY <2>1, CostGrows DEF Priced
<1> QED
  BY <1>1, <1>4, <1>6, <1>7

-----------------------------------------------------------------------------
(* Numbers.                                                                *)

LEMMA MaxOf ==
  ASSUME NEW n \in Nat, NEW T \in SUBSET (0 .. n), T # {}
  PROVE  Max(T) \in T /\ \A y \in T : y <= Max(T)
<1> DEFINE Top(U, x) == \A y \in U : x >= y
           P == {k \in Nat : \A U \in SUBSET (0 .. k) : U # {} => \E x \in U : Top(U, x)}
<1>1. 0 \in P
  <2> SUFFICES ASSUME NEW U \in SUBSET (0 .. 0), U # {} PROVE \E x \in U : Top(U, x)
    OBVIOUS
  <2>1. \A y \in U : y = 0
    OBVIOUS
  <2>3. 0 \in U
    BY <2>1
  <2>2. Top(U, 0)
    BY <2>1
  <2> QED
    BY <2>2, <2>3
<1>2. ASSUME NEW k \in Nat, k \in P PROVE k + 1 \in P
  <2> SUFFICES ASSUME NEW U \in SUBSET (0 .. k + 1), U # {} PROVE \E x \in U : Top(U, x)
    OBVIOUS
  <2>1. CASE k + 1 \in U
    <3>1. Top(U, k + 1)
      OBVIOUS
    <3> QED
      BY <2>1, <3>1
  <2>2. CASE k + 1 \notin U
    <3>1. \A y \in U : y \in 0 .. k
      BY <2>2
    <3> QED
      BY <1>2, <3>1
  <2> QED
    BY <2>1, <2>2
<1>3. Nat \subseteq P
  <2> HIDE DEF P
  <2> QED
    BY <1>1, <1>2, Induction
<1>4. \E x \in T : Top(T, x)
  BY <1>3
<1>5. Max(T) = CHOOSE x \in T : Top(T, x)
  BY DEF Max
<1>6. Max(T) \in T /\ Top(T, Max(T))
  <2> HIDE DEF Top
  <2> QED
    BY <1>4, <1>5
<1> QED
  BY <1>6

LEMMA Thousandths ==
  ASSUME NEW a \in Nat, NEW n \in Nat \ {0}, a <= n
  PROVE  (a * 1000) \div n \in 0 .. 1000
<1> DEFINE q == (a * 1000) \div n
<1>1. q \in Int /\ n * q <= a * 1000 /\ a * 1000 < n * (q + 1)
  OBVIOUS
<1> HIDE DEF q
<1>2. q >= 0
  <2> SUFFICES ASSUME q + 1 <= 0 PROVE FALSE
    BY <1>1
  <2>1. n * (q + 1) <= 0
    BY <1>1
  <2> QED
    BY <1>1, <2>1
<1>3. q <= 1000
  <2> SUFFICES ASSUME q >= 1001 PROVE FALSE
    BY <1>1
  <2>1. n * q >= n * 1001
    BY <1>1
  <2> QED
    BY <1>1, <2>1
<1> QED
  BY <1>1, <1>2, <1>3 DEF q

-----------------------------------------------------------------------------
(* The channels.                                                           *)

LEMMA FirstOfBest ==
  ASSUME NEW S, NEW list, IsListing(list, S), NEW n \in Nat,
         NEW m \in S \ FirstOf(list, n), NEW x \in FirstOf(list, n)
  PROVE  ~Outranks(m, x)
<1>1. PICK i \in DOMAIN list : m = list[i]
  BY DEF IsListing, ToSet
<1>2. PICK j \in DOMAIN list : x = list[j] /\ j <= n
  BY DEF FirstOf
<1>3. ~(i <= n)
  BY <1>1 DEF FirstOf
<1> QED
  BY <1>1, <1>2, <1>3 DEF IsListing

LEMMA HowManyBefore ==
  ASSUME NEW k \in Nat \ {0}
  PROVE  Cardinality(1 .. k - 1) = k - 1
<1>1. 1 \in Int /\ k - 1 \in Int /\ k >= 1
  OBVIOUS
<1>2. Cardinality(1 .. k - 1) = IF 1 > k - 1 THEN 0 ELSE (k - 1) - 1 + 1
  BY <1>1, FS_Interval
<1>3. CASE k = 1
  BY <1>1, <1>2, <1>3
<1>4. CASE k > 1
  BY <1>1, <1>2, <1>4
<1> QED
  BY <1>1, <1>3, <1>4

LEMMA MostSalientFirst ==
  ASSUME NEW S, Orderable(S), NEW list, IsListing(list, S), NEW n \in Nat
  PROVE  MostSalient(list, n) = FirstOf(list, n)
<1> DEFINE before(j, k) == \/ list[j].salience > list[k].salience
                           \/ (list[j].salience = list[k].salience /\ j < k)
<1>1. ASSUME NEW j \in DOMAIN list, NEW k \in DOMAIN list PROVE before(j, k) <=> j < k
  <2>1. list[j] \in S /\ list[k] \in S /\ j \in Nat /\ k \in Nat
    BY DEF IsListing
  <2>2. j < k => ~(list[k].salience > list[j].salience)
    BY DEF IsListing, Outranks
  <2>3. k < j => ~(list[j].salience > list[k].salience)
    BY DEF IsListing, Outranks
  <2>4. list[j].salience \in Int /\ list[k].salience \in Int
    BY <2>1 DEF Orderable
  <2> QED
    BY <2>1, <2>2, <2>3, <2>4
<1>2. ASSUME NEW k \in DOMAIN list
      PROVE  Cardinality({j \in DOMAIN list : before(j, k)}) < n <=> k <= n
  <2>1. k \in Nat \ {0} /\ \A j : j \in DOMAIN list /\ j < k <=> j \in 1 .. k - 1
    BY DEF IsListing
  <2>2. {j \in DOMAIN list : before(j, k)} = 1 .. k - 1
    BY <1>1, <2>1
  <2>3. Cardinality(1 .. k - 1) = k - 1
    BY <2>1, HowManyBefore
  <2> DEFINE E == {j \in DOMAIN list : before(j, k)}
  <2>4. Cardinality(E) = k - 1
    BY <2>2, <2>3
  <2> HIDE DEF E
  <2>5. Cardinality(E) < n <=> k <= n
    BY <2>1, <2>4
  <2> QED
    BY <2>5 DEF E
<1> HIDE DEF before
<1>3. MostSalient(list, n)
        = {list[k] : k \in {k \in DOMAIN list : Cardinality({j \in DOMAIN list : before(j, k)}) < n}}
  BY DEF MostSalient, before
<1> QED
  BY <1>2, <1>3 DEF FirstOf

LEMMA FirstOfTypesBest ==
  ASSUME NEW S, NEW list, IsListing(list, S), NEW types, NEW n \in Nat,
         NEW m \in S \ FirstOfTypes(list, types, n), NEW x \in FirstOfTypes(list, types, n),
         m.type = x.type
  PROVE  ~Outranks(m, x)
<1> DEFINE Same(k) == {h \in 1 .. k - 1 : list[h].type = list[k].type}
<1>1. PICK i \in DOMAIN list : m = list[i]
  BY DEF IsListing, ToSet
<1>2. PICK j \in DOMAIN list : x = list[j] /\ x.type \in types /\ Cardinality(Same(j)) < n
  BY DEF FirstOfTypes
<1>3. ~(Cardinality(Same(i)) < n)
  BY <1>1, <1>2 DEF FirstOfTypes
<1>4. i \in Nat /\ j \in Nat /\ i # j
  BY <1>1, <1>2 DEF IsListing
<1> SUFFICES ASSUME i < j PROVE FALSE
  BY <1>1, <1>2, <1>4 DEF IsListing
<1>5. Same(i) \subseteq Same(j) /\ Same(j) \subseteq 1 .. j - 1
  BY <1>1, <1>2, <1>4
<1>6. IsFiniteSet(1 .. j - 1)
  BY <1>4, FS_Interval, 1 \in Int, j - 1 \in Int
<1> HIDE DEF Same
<1>7. IsFiniteSet(Same(j))
  BY <1>5, <1>6, FS_Subset
<1>8. IsFiniteSet(Same(i)) /\ Cardinality(Same(i)) <= Cardinality(Same(j))
  BY <1>5, <1>7, FS_Subset
<1> QED
  BY <1>2, <1>3, <1>7, <1>8, FS_CardinalityType

-----------------------------------------------------------------------------
(* The trace.                                                              *)

Fact(m) == m.words \in Seq(Words) \ {<<>>}
Output(d) == d.phrase \in Seq(Words) /\ IsFiniteSet(d.others)

LEMMA RunsIn ==
  ASSUME NEW w \in Seq(Words), NEW r \in SubSeqs(w)
  PROVE  r \in Seq(Words) /\ Len(r) \in Nat /\ Len(r) <= Len(w)
<1>1. PICK i \in 0 .. Len(w), j \in 0 .. Len(w) : r = SubSeq(w, i + 1, j)
  BY DEF SubSeqs
<1>2. i + 1 \in Int /\ j \in Int /\ \A k \in i + 1 .. j : w[k] \in Words
  OBVIOUS
<1>3. r \in Seq(Words) /\ Len(r) = IF i + 1 <= j THEN j - (i + 1) + 1 ELSE 0
  BY <1>1, <1>2, SubSeqProperties
<1> QED
  BY <1>3

LEMMA RunOfItself ==
  ASSUME NEW w \in Seq(Words)
  PROVE  w \in SubSeqs(w)
<1>1. SubSeq(w, 0 + 1, Len(w)) = w
  BY SubSeqFull
<1>2. 0 \in 0 .. Len(w) /\ Len(w) \in 0 .. Len(w)
  OBVIOUS
<1> QED
  BY <1>1, <1>2 DEF SubSeqs

LEMMA LongestPhrase ==
  ASSUME NEW m, Fact(m), NEW d
  PROVE  /\ Phrase(m, d) \in 0 .. Len(m.words)
         /\ \A r \in SubSeqs(m.words) \cap SubSeqs(d.phrase) :
              Len(r) >= MinPhrase => Len(r) <= Phrase(m, d)
<1> DEFINE runs == {run \in SubSeqs(m.words) \cap SubSeqs(d.phrase) : Len(run) >= MinPhrase}
           T == {0} \cup {Len(run) : run \in runs}
           n == Len(m.words)
<1>1. n \in Nat
  BY DEF Fact
<1>2. \A run \in runs : Len(run) \in 0 .. n
  <2> SUFFICES ASSUME NEW run \in runs PROVE Len(run) \in 0 .. n
    OBVIOUS
  <2>1. Len(run) \in Nat /\ Len(run) <= n
    BY RunsIn DEF Fact
  <2> QED
    BY <1>1, <2>1
<1>3. Phrase(m, d) = Max(T)
  BY DEF Phrase
<1>4. T \in SUBSET (0 .. n) /\ T # {}
  <2> HIDE DEF runs, n
  <2> QED
    BY <1>1, <1>2
<1>5. \A r \in runs : Len(r) \in T
  OBVIOUS
<1> HIDE DEF T, n
<1>6. Max(T) \in T /\ \A y \in T : y <= Max(T)
  BY <1>1, <1>4, MaxOf
<1>7. Max(T) \in 0 .. n
  BY <1>4, <1>6
<1> QED
  BY <1>3, <1>5, <1>6, <1>7 DEF n

LEMMA FiniteWords ==
  ASSUME NEW w \in Seq(Words)
  PROVE  IsFiniteSet(ToSet(w))
<1> DEFINE f == [i \in 1 .. Len(w) |-> w[i]]
<1>3. DOMAIN w = 1 .. Len(w) /\ Len(w) \in Nat
  OBVIOUS
<1>4. \A i \in 1 .. Len(w) : f[i] = w[i] /\ w[i] \in ToSet(w)
  BY <1>3 DEF ToSet
<1>5. \A x \in ToSet(w) : \E i \in 1 .. Len(w) : f[i] = x
  BY <1>3, <1>4 DEF ToSet
<1>1. f \in Surjection(1 .. Len(w), ToSet(w))
  <2>1. f \in [1 .. Len(w) -> ToSet(w)]
    BY <1>4
  <2> HIDE DEF f
  <2> QED
    BY <2>1, <1>5 DEF Surjection
<1>2. IsFiniteSet(1 .. Len(w))
  BY FS_Interval, 1 \in Int, Len(w) \in Int
<1> HIDE DEF f
<1> QED
  BY <1>1, <1>2, FS_Surjection

LEMMA JaccardRange ==
  ASSUME NEW m, Fact(m), NEW d, Output(d)
  PROVE  Jaccard(m, d) \in 0 .. 1000
<1> DEFINE out == ToSet(d.phrase) \cup d.others
           both == ToSet(m.words) \cap out
           all == ToSet(m.words) \cup out
<1>1. IsFiniteSet(ToSet(m.words)) /\ IsFiniteSet(ToSet(d.phrase))
  BY FiniteWords DEF Fact, Output
<1>2. IsFiniteSet(out)
  BY <1>1, FS_Union DEF Output
<1>3. IsFiniteSet(all)
  <2> HIDE DEF out
  <2> QED
    BY <1>1, <1>2, FS_Union
<1>4. both \subseteq all
  OBVIOUS
<1>5. all # {}
  <2>1. 1 \in DOMAIN m.words
    BY DEF Fact
  <2> QED
    BY <2>1 DEF ToSet
<1>6. Jaccard(m, d) = (Cardinality(both) * 1000) \div Cardinality(all)
  BY DEF Jaccard
<1> HIDE DEF both, all
<1>7. Cardinality(all) \in Nat /\ Cardinality(all) # 0
  BY <1>3, <1>5, FS_EmptySet, FS_CardinalityType
<1>8. Cardinality(both) \in Nat /\ Cardinality(both) <= Cardinality(all)
  BY <1>3, <1>4, FS_Subset, FS_CardinalityType
<1> DEFINE a == Cardinality(both)
           n == Cardinality(all)
<1>9. a \in Nat /\ n \in Nat \ {0} /\ a <= n
  BY <1>7, <1>8
<1> HIDE DEF a, n
<1>10. (a * 1000) \div n \in 0 .. 1000
  BY <1>9, Thousandths
<1> QED
  BY <1>6, <1>10 DEF a, n

LEMMA HitsAre ==
  ASSUME NEW m, Fact(m), NEW d, Output(d), NEW h \in HitsOf(m, d)
  PROVE  h.id = m.id /\ h.score \in 0 .. 1000 /\ h = [id |-> h.id, score |-> h.score]
<1>1. Phrase(m, d) \in 0 .. Len(m.words) /\ Len(m.words) \in Nat \ {0}
  BY LongestPhrase DEF Fact
<1>2. (Phrase(m, d) * 1000) \div Len(m.words) \in 0 .. 1000
  <2> DEFINE a == Phrase(m, d)
             n == Len(m.words)
  <2>1. a \in Nat /\ n \in Nat \ {0} /\ a <= n
    BY <1>1
  <2> HIDE DEF a, n
  <2>2. (a * 1000) \div n \in 0 .. 1000
    BY <2>1, Thousandths
  <2> QED
    BY <2>2 DEF a, n
<1>3. Jaccard(m, d) \in 0 .. 1000
  BY JaccardRange
<1>4. \/ h = [id |-> m.id, score |-> (Phrase(m, d) * 1000) \div Len(m.words)]
      \/ h = [id |-> m.id, score |-> Jaccard(m, d)]
  BY DEF HitsOf
<1> DEFINE quoted == (Phrase(m, d) * 1000) \div Len(m.words)
           overlap == Jaccard(m, d)
<1>6. \/ h = [id |-> m.id, score |-> quoted]
      \/ h = [id |-> m.id, score |-> overlap]
  BY <1>4
<1>7. quoted \in 0 .. 1000 /\ overlap \in 0 .. 1000
  BY <1>2, <1>3
<1> HIDE DEF quoted, overlap
<1>5. \E s \in 0 .. 1000 : h = [id |-> m.id, score |-> s]
  BY <1>6, <1>7
<1> QED
  BY <1>5

\* A fact of which the output quotes a phrase that is long enough has a hit.
LEMMA QuotedHits ==
  ASSUME NEW m, Fact(m), NEW d, Output(d), MinPhrase \in Nat \ {0},
         d.phrase \in SubSeqs(m.words), Len(d.phrase) >= MinPhrase
  PROVE  HitsOf(m, d) # {}
<1>1. d.phrase \in SubSeqs(d.phrase)
  BY RunOfItself DEF Output
<1>2. Len(d.phrase) <= Phrase(m, d) /\ Phrase(m, d) \in Nat
  BY <1>1, LongestPhrase
<1>3. Len(d.phrase) \in Nat
  BY DEF Output
<1>4. Phrase(m, d) > 0
  BY <1>2, <1>3
<1>5. [id |-> m.id, score |-> (Phrase(m, d) * 1000) \div Len(m.words)] \in HitsOf(m, d)
  BY <1>4 DEF HitsOf
<1> QED
  BY <1>5

\* One hit for each memory of K that has any, with a score in range.
HitsFor(hs, K, d) ==
  /\ \A h \in hs : h.id \in {m.id : m \in K} /\ h.score \in 0 .. 1000
  /\ Cardinality({h.id : h \in hs}) = Cardinality(hs)
  /\ \A m \in K : HitsOf(m, d) # {} => \E h \in hs : h.id = m.id

LEMMA TraceKeeps ==
  ASSUME NEW K, IsFiniteSet(K), \A m \in K : Fact(m), NEW list, ToSet(list) = K,
         NEW d, Output(d)
  PROVE  HitsFor(TraceOutput(d, list), K, d)
<1> DEFINE found == UNION {HitsOf(list[k], d) : k \in DOMAIN list}
           hs == {h \in found : \A g \in found : g.id = h.id => g.score <= h.score}
           ids == {m.id : m \in K}
<1>1. TraceOutput(d, list) = hs
  BY DEF TraceOutput
<1>2. \A k \in DOMAIN list : list[k] \in K
  BY DEF ToSet
<1>3. \A h \in found : /\ h.id \in ids /\ h.score \in 0 .. 1000
                       /\ h = [id |-> h.id, score |-> h.score]
  <2> SUFFICES ASSUME NEW k \in DOMAIN list, NEW h \in HitsOf(list[k], d)
               PROVE  /\ h.id \in ids /\ h.score \in 0 .. 1000
                      /\ h = [id |-> h.id, score |-> h.score]
    OBVIOUS
  <2>1. list[k] \in K
    BY <1>2
  <2> QED
    BY <2>1, HitsAre
<1>4. \A m \in K : \A h \in HitsOf(m, d) : h \in found /\ h.id = m.id
  <2> SUFFICES ASSUME NEW m \in K, NEW h \in HitsOf(m, d) PROVE h \in found /\ h.id = m.id
    OBVIOUS
  <2>1. PICK k \in DOMAIN list : m = list[k]
    BY DEF ToSet
  <2>2. h \in found
    BY <2>1
  <2>3. h.id = m.id
    BY HitsAre
  <2> QED
    BY <2>2, <2>3
<1> HIDE DEF found
<1>5. \A h, g \in hs : h.id = g.id => h = g
  <2> SUFFICES ASSUME NEW h \in hs, NEW g \in hs, h.id = g.id PROVE h = g
    OBVIOUS
  <2>1. h \in found /\ g \in found
    OBVIOUS
  <2>2. h.score <= g.score /\ g.score <= h.score
    BY <2>1
  <2> HIDE DEF hs
  <2>3. h.score \in 0 .. 1000 /\ g.score \in 0 .. 1000
    BY <1>3, <2>1
  <2> DEFINE a == h.score
             b == g.score
  <2>6. a <= b /\ b <= a /\ a \in 0 .. 1000 /\ b \in 0 .. 1000
    BY <2>2, <2>3
  <2> HIDE DEF a, b
  <2>7. a = b
    BY <2>6
  <2>4. h.score = g.score
    BY <2>7 DEF a, b
  <2>5. h = [id |-> h.id, score |-> h.score] /\ g = [id |-> g.id, score |-> g.score]
    BY <1>3, <2>1
  <2> QED
    BY <2>4, <2>5
<1>6. IsFiniteSet(ids)
  <2> DEFINE f == [m \in K |-> m.id]
  <2>1. f \in Surjection(K, ids)
    BY DEF Surjection
  <2> HIDE DEF f, ids
  <2> QED
    BY <2>1, FS_Surjection
<1>7. Cardinality({h.id : h \in hs}) = Cardinality(hs)
  <2> DEFINE f == [h \in hs |-> h.id]
             I == {h.id : h \in hs}
  <2>1. I \subseteq ids
    BY <1>3
  <2>2. IsFiniteSet(I)
    <3> HIDE DEF I, ids
    <3> QED
      BY <1>6, <2>1, FS_Subset
  <2> HIDE DEF hs
  <2>3. f \in Injection(hs, I) /\ f \in Surjection(hs, I)
    BY <1>5 DEF Injection, IsInjective, Surjection
  <2> HIDE DEF I, f
  <2>4. Cardinality(hs) = Cardinality(I)
    BY <2>2, <2>3, FS_Injection
  <2> QED
    BY <2>4 DEF I
<1>8. ASSUME NEW m \in K, HitsOf(m, d) # {}
      PROVE  \E h \in hs : h.id = m.id
  <2> DEFINE mine == {g \in found : g.id = m.id}
             T == {g.score : g \in mine}
  <2>1. T # {} /\ T \in SUBSET (0 .. 1000)
    BY <1>3, <1>4, <1>8
  <2> HIDE DEF T, mine
  <2> DEFINE n == 1000
  <2>5. n \in Nat
    OBVIOUS
  <2>6. T \in SUBSET (0 .. n) /\ T # {}
    BY <2>1
  <2> HIDE DEF n
  <2>2. Max(T) \in T /\ \A y \in T : y <= Max(T)
    BY <2>5, <2>6, MaxOf
  <2> USE DEF mine
  <2>3. PICK h \in mine : h.score = Max(T)
    BY <2>2 DEF T
  <2>4. \A g \in found : g.id = h.id => g.score <= h.score
    BY <2>2, <2>3 DEF T
  <2> QED
    BY <2>3, <2>4
<1> HIDE DEF hs, ids
<1>9. \A h \in hs : h.id \in ids /\ h.score \in 0 .. 1000
  BY <1>3 DEF hs
<1> QED
  BY <1>1, <1>7, <1>8, <1>9 DEF ids, HitsFor

-----------------------------------------------------------------------------
(* What is stored, listed and shown.                                       *)

\* The catalog as this backend returns it.
AsReads == {AsRead(m) : m \in Catalog}

LEMMA Readable ==
  ASSUME NEW c \in Catalog
  PROVE  LET m == AsRead(c)
         IN  /\ m.id = c.id /\ m.type = c.type /\ m.words = c.words /\ m.nonces = c.nonces
             /\ m.salience = c.salience /\ m.created = c.created
             /\ m.trust = c.trust \/ m.trust = Nil
             /\ m \in Memories /\ Fact(m) /\ ApproxTokens(m) \in Nat
             /\ m.salience \in Int /\ m.created \in Int /\ m.type \in Types
<1> DEFINE m == AsRead(c)
<1>1. c \in [id : STRING, type : Types, words : Seq(Words) \ {<<>>}, salience : Int,
             created : Int, trust : Nat \cup {Nil}, nonces : SUBSET Nonces]
  BY RenderAssumption DEF Memories
<1>2. /\ m \in Memories /\ m.id = c.id /\ m.type = c.type /\ m.words = c.words /\ m.nonces = c.nonces
      /\ m.salience = c.salience /\ m.created = c.created
      /\ m.trust = c.trust \/ m.trust = Nil
  BY <1>1 DEF AsRead, Memories
<1>3. Len(c.words) \in Nat
  BY <1>1
<1>4. (Len(c.words) * 4) \div 3 + 1 \in Nat
  <2> DEFINE n == Len(c.words)
  <2> HIDE DEF n
  <2>1. n \in Nat
    BY <1>3 DEF n
  <2>2. (n * 4) \div 3 + 1 \in Nat
    BY <2>1
  <2> QED
    BY <2>2 DEF n
<1> HIDE DEF m
<1>5. ApproxTokens(m) \in Nat
  BY <1>2, <1>4 DEF ApproxTokens
<1> QED
  BY <1>1, <1>2, <1>5 DEF m, Fact

LEMMA CatalogAsRead ==
  /\ IsFiniteSet(AsReads) /\ Orderable(AsReads) /\ Priced(AsReads)
  /\ AsReads \subseteq Memories
  /\ \A m \in AsReads : Fact(m) /\ \E c \in Catalog : m.id = c.id
<1>1. IsFiniteSet(AsReads)
  <2> DEFINE f == [m \in Catalog |-> AsRead(m)]
  <2>1. f \in Surjection(Catalog, AsReads)
    BY DEF Surjection, AsReads
  <2> HIDE DEF f
  <2> QED
    BY <2>1, FS_Surjection, RenderAssumption
<1>2. Orderable(AsReads) /\ AsReads \subseteq Memories
  BY Readable DEF Orderable, AsReads
<1>3. Priced(AsReads)
  BY Readable DEF Priced, AsReads
<1>4. \A m \in AsReads : Fact(m) /\ \E c \in Catalog : m.id = c.id
  BY Readable DEF AsReads
<1> QED
  BY <1>1, <1>2, <1>3, <1>4

\* Lists of distinct memories, none after one that it outranks.
Listings == {list \in Seq(Memories) : \E S \in SUBSET AsReads : IsListing(list, S)}

LEMMA ListingsAre ==
  ASSUME NEW S \in SUBSET AsReads, NEW list, IsListing(list, S)
  PROVE  list \in Listings /\ list # Nil /\ IsFiniteSet(S) /\ Orderable(S) /\ Priced(S)
<1>1. list \in Seq(Memories)
  <2>1. S \subseteq Memories
    BY CatalogAsRead
  <2>2. Cardinality(S) \in Nat /\ list \in [1 .. Cardinality(S) -> Memories]
    BY <2>1 DEF IsListing
  <2> QED
    BY <2>2
<1>2. IsFiniteSet(S) /\ Orderable(S) /\ Priced(S)
  BY CatalogAsRead, FS_Subset DEF Orderable, Priced
<1> QED
  BY <1>1, <1>2, RenderAssumption DEF Listings

\* What the store returns is such a list.
LEMMA StoreLists ==
  ASSUME stored \subseteq Catalog, NEW type, NEW order \in Orders
  PROVE  \E S \in SUBSET AsReads : IsListing(Listing(type, order), S)
<1> DEFINE T == {m \in stored : type = Nil \/ m.type = type}
           rows == Arranged(T, order)
           c == Cardinality(T)
           list == Listing(type, order)
<1>1. PICK place \in [Catalog -> 1 .. Cardinality(Catalog)] :
        /\ \A m, n \in Catalog : /\ place[m] = place[n] => m = n
                                 /\ Outranks(m, n) => place[m] < place[n]
        /\ order = {p \in Catalog \X Catalog : place[p[1]] < place[p[2]]}
  BY DEF Orders
<1>2. T \in SUBSET Catalog /\ IsFiniteSet(T)
  BY RenderAssumption, FS_Subset
<1>3. list = [k \in {k \in DOMAIN rows : k <= ListLimit} |-> AsRead(rows[k])]
  BY DEF Listing
<1> HIDE DEF T, list
<1>4. /\ TotalOrder(order, T)
      /\ \A m, n \in T : <<m, n>> \in order => ~Outranks(n, m)
  <2>1. \A m \in Catalog : place[m] \in Int
    <3>1. Cardinality(Catalog) \in Nat
      BY RenderAssumption, FS_CardinalityType
    <3> QED
      BY <3>1
  <2>2. \A m, n \in T : <<m, n>> \in order <=> place[m] < place[n]
    <3> SUFFICES ASSUME NEW m \in T, NEW n \in T
                 PROVE  <<m, n>> \in order <=> place[m] < place[n]
      OBVIOUS
    <3>1. m \in Catalog /\ n \in Catalog
      BY <1>2
    <3> QED
      BY <1>1, <3>1
  <2>3. \A m, n \in T : place[m] = place[n] => m = n
    BY <1>1, <1>2
  <2>4. \A m, n \in T : Outranks(m, n) => place[m] < place[n]
    BY <1>1, <1>2
  <2>5. \A m \in T : place[m] \in Int
    BY <1>2, <2>1
  <2>6. TotalOrder(order, T)
    BY <2>2, <2>3, <2>5 DEF TotalOrder
  <2>7. \A m, n \in T : <<m, n>> \in order => ~Outranks(n, m)
    BY <2>2, <2>4, <2>5
  <2> QED
    BY <2>6, <2>7
<1>5. Arranges(rows, T, order)
  BY <1>2, <1>4, ArrangedSorts
<1> HIDE DEF rows
<1>6. /\ c \in Nat /\ DOMAIN rows = 1 .. c /\ \A k \in 1 .. c : rows[k] \in T
      /\ \A i, j \in 1 .. c : /\ i < j => <<rows[i], rows[j]>> \in order
                              /\ rows[i] = rows[j] => i = j
  BY <1>5 DEF Arranges
<1> HIDE DEF c
<1> DEFINE n == IF c <= ListLimit THEN c ELSE ListLimit
<1>7. n \in Nat /\ n <= c /\ {k \in DOMAIN rows : k <= ListLimit} = 1 .. n
  BY <1>6, RenderAssumption
<1> HIDE DEF n
<1>8. list = [k \in 1 .. n |-> list[k]] /\ \A k \in 1 .. n : list[k] = AsRead(rows[k])
  BY <1>3, <1>7
<1>9. ASSUME NEW i \in 1 .. n, NEW j \in 1 .. n
      PROVE  /\ i < j => ~Outranks(list[j], list[i])
             /\ list[i] = list[j] => i = j
  <2>1. i \in 1 .. c /\ j \in 1 .. c
    BY <1>6, <1>7
  <2>2. rows[i] \in T /\ rows[j] \in T /\ rows[i] \in Catalog /\ rows[j] \in Catalog
    BY <1>2, <1>6, <2>1
  <2>3. Outranks(list[j], list[i]) <=> Outranks(rows[j], rows[i])
    BY <1>8, <2>2, Readable DEF Outranks
  <2>4. list[i] = list[j] => rows[i] = rows[j]
    BY <1>8, <2>2, Readable, RenderAssumption
  <2>5. i < j => ~Outranks(rows[j], rows[i])
    BY <1>4, <1>6, <2>1, <2>2
  <2>6. rows[i] = rows[j] => i = j
    BY <1>6, <2>1
  <2> QED
    BY <2>3, <2>4, <2>5, <2>6
<1>10. IsListing(list, ToSet(list))
  BY <1>7, <1>8, <1>9, DistinctLists
<1>11. ToSet(list) \subseteq AsReads
  <2>1. DOMAIN list = 1 .. n
    BY <1>8
  <2>2. \A k \in 1 .. n : list[k] \in AsReads
    <3> SUFFICES ASSUME NEW k \in 1 .. n PROVE list[k] \in AsReads
      OBVIOUS
    <3>1. rows[k] \in Catalog
      BY <1>2, <1>6, <1>7
    <3> QED
      BY <1>8, <3>1 DEF AsReads
  <2> QED
    BY <2>1, <2>2 DEF ToSet
<1> QED
  BY <1>10, <1>11 DEF list

\* And so is what a read works on, if what is cached is one.
LEMMA ReadsListed ==
  ASSUME stored \subseteq Catalog, cache = Nil \/ cache \in Listings,
         NEW type, NEW list, ReadList(type, list)
  PROVE  list \in Listings
<1>1. CASE cache # Nil
  BY <1>1 DEF ReadList
<1>2. CASE cache = Nil
  <2>1. PICK order \in Orders : list = Listing(type, order)
    BY <1>2 DEF ReadList
  <2> QED
    BY <2>1, StoreLists, ListingsAre
<1> QED
  BY <1>1, <1>2

\* What a read of such a list returns.
LEMMA ReadsReturn ==
  ASSUME NEW list \in Listings, NEW b \in Int
  PROVE  LET kept == Kept(list, b)
             S == ToSet(list)
         IN  /\ S \subseteq AsReads /\ IsFiniteSet(S) /\ Orderable(S) /\ Priced(S)
             /\ IsListing(list, S) /\ list # Nil
             /\ Pinned(list) \subseteq kept /\ kept \subseteq S
             /\ IsListing(Compress(list, b), kept)
             /\ Cost(kept) <= b \/ kept = Pinned(list)
             /\ \A m \in S \ kept :
                  Cost(Pinned(list) \cup {n \in kept : ~Outranks(m, n)}) + ApproxTokens(m) > b
<1>1. PICK S \in SUBSET AsReads : IsListing(list, S)
  BY DEF Listings
<1>2. S = ToSet(list)
  BY <1>1 DEF IsListing
<1>3. list # Nil /\ IsFiniteSet(S) /\ Orderable(S) /\ Priced(S)
  BY <1>1, ListingsAre
<1>4. LET kept == Kept(list, b)
      IN  /\ Pinned(list) \subseteq kept /\ kept \subseteq S
          /\ IsListing(Compress(list, b), kept)
          /\ Cost(kept) <= b \/ kept = Pinned(list)
          /\ \A m \in S \ kept :
               Cost(Pinned(list) \cup {n \in kept : ~Outranks(m, n)}) + ApproxTokens(m) > b
  BY <1>1, <1>3, CompressKeeps
<1> QED
  BY <1>1, <1>2, <1>3, <1>4

-----------------------------------------------------------------------------
(* The invariant.                                                          *)

\* What was shown is the last read's result of what it listed, which is what is
\* cached still, or nothing is.
ShownInv ==
  /\ stored \subseteq Catalog /\ budget \in Int
  /\ listed \in Listings /\ traced \in Listings
  /\ cache = Nil \/ cache \in Listings
  /\ shown \in Listings
  /\ text.by # Nil => shown = Compress(listed, budget) /\ (~uncached => cache = listed)

\* The text is the channel's of what was shown, or its envelopes.
TextInv ==
  /\ text.by \in Channels \cup {"wrapped", Nil}
  /\ text.by \in Channels => text.lines = Format(text.by, shown)
  /\ text.by = "wrapped" => \E nonce \in Nonces : text.lines = Wrapped(shown, nonce)
  /\ text.by = Nil => text.lines = {} /\ draft = Nil

\* A draft is a channel's reader's, and the hits are those of a read after it, of what
\* the reader listed unless the cache was dropped in between.
DraftInv ==
  /\ draft # Nil => text.by \in Channels /\ Output(draft)
  /\ hits # Nil => /\ draft # Nil /\ hits = TraceOutput(draft, Compress(traced, DefaultBudget))
                   /\ ~uncached => traced = listed

RenderInv == ShownInv /\ TextInv /\ DraftInv

LEMMA ChannelsShowSome ==
  ASSUME NEW S, NEW list, IsListing(list, S), NEW channel \in Channels
  PROVE  Format(channel, list) \subseteq S
<1>1. ToSet(list) = S /\ \A k \in DOMAIN list : list[k] \in S
  BY DEF IsListing, ToSet
<1>2. /\ FirstOf(list, Lines) \subseteq S
      /\ MostSalient(list, 2) \subseteq S
      /\ FirstOfTypes(list, Types, PerType) \subseteq S
      /\ FirstOfTypes(list, VoiceTypes, 1) \subseteq S
  BY <1>1 DEF FirstOf, MostSalient, FirstOfTypes
<1>3. channel \in {"whatsapp", "sms", "web", "voice", "app"}
  BY DEF Channels
<1> QED
  BY <1>1, <1>2, <1>3 DEF Format

LEMMA EmptyList == <<>> \in Listings
<1>1. Cardinality({}) = 0 /\ {} \in SUBSET AsReads
  BY FS_EmptySet
<1>2. <<>> \in [1 .. 0 -> {}] /\ DOMAIN <<>> = {} /\ ToSet(<<>>) = {}
  BY DEF ToSet
<1>3. IsListing(<<>>, {})
  BY <1>1, <1>2 DEF IsListing
<1> QED
  BY <1>1, <1>3, ListingsAre

LEMMA RenderInit == Init => RenderInv
<1> SUFFICES ASSUME Init PROVE RenderInv
  OBVIOUS
<1>1. /\ text = [by |-> Nil, lines |-> {}] /\ draft = Nil /\ hits = Nil /\ cache = Nil
      /\ stored \subseteq Catalog /\ budget = DefaultBudget
      /\ shown = <<>> /\ listed = <<>> /\ traced = <<>>
  BY DEF Init
<1>2. ShownInv
  BY <1>1, EmptyList, RenderAssumption DEF ShownInv
<1>3. TextInv
  BY <1>1, RenderAssumption DEF TextInv, Channels
<1> QED
  BY <1>1, <1>2, <1>3 DEF RenderInv, DraftInv

LEMMA SameBackend ==
  ASSUME UNCHANGED backend PROVE AsReads' = AsReads /\ Listings' = Listings
<1>1. AsReads' = AsReads
  BY DEF AsReads, AsRead
<1> QED
  BY <1>1 DEF Listings

LEMMA ReadKeeps ==
  ASSUME RenderInv, NEW b \in Budgets, NEW type, draft = Nil, Returned(b, type),
         NEW by \in Channels \cup {"wrapped"}, text'.by = by,
         by \in Channels => text'.lines = Format(by, shown'),
         by = "wrapped" => \E nonce \in Nonces : text'.lines = Wrapped(shown', nonce)
  PROVE  RenderInv'
<1>1. /\ budget' = IF b \in {0, Nil} THEN DefaultBudget ELSE b
      /\ ReadList(type, listed') /\ cache' = listed' /\ shown' = Compress(listed', budget')
      /\ draft' = draft /\ hits' = hits /\ stored' = stored /\ backend' = backend
      /\ traced' = traced
  BY DEF Returned
<1>2. /\ stored \subseteq Catalog /\ traced \in Listings /\ hits = Nil
      /\ cache = Nil \/ cache \in Listings
  BY DEF RenderInv, ShownInv, DraftInv
<1>3. by # Nil
  BY RenderAssumption
<1>4. Listings' = Listings
  BY <1>1, SameBackend
<1>5. budget' \in Int
  BY <1>1, RenderAssumption
<1>6. listed' \in Listings
  BY <1>1, <1>2, ReadsListed
<1>7. Compress(listed', budget') \in Listings
  <2>1. /\ Kept(listed', budget') \in SUBSET AsReads
        /\ IsListing(Compress(listed', budget'), Kept(listed', budget'))
    BY <1>5, <1>6, ReadsReturn
  <2> QED
    BY <2>1, ListingsAre
<1>8. ShownInv'
  BY <1>1, <1>2, <1>4, <1>5, <1>6, <1>7 DEF ShownInv
<1>9. TextInv'
  BY <1>1, <1>3 DEF TextInv
<1>10. DraftInv'
  BY <1>1, <1>2 DEF DraftInv
<1> QED
  BY <1>8, <1>9, <1>10 DEF RenderInv

LEMMA ChangeKeeps ==
  ASSUME RenderInv, Change, stored' \subseteq Catalog,
         UNCHANGED <<cache, uncached>> \/ Uncache
  PROVE  RenderInv'
<1>1. hits = Nil /\ UNCHANGED <<backend, listed, budget, shown, text, draft, traced, hits>>
  BY DEF Change
<1>2. Listings' = Listings
  BY <1>1, SameBackend
<1>3. /\ cache' = cache \/ cache' = Nil
      /\ ~uncached' => cache' = cache /\ ~uncached
  BY DEF Uncache
<1>4. ShownInv'
  BY <1>1, <1>2, <1>3 DEF RenderInv, ShownInv
<1>5. TextInv' /\ DraftInv'
  BY <1>1 DEF RenderInv, TextInv, DraftInv
<1> QED
  BY <1>4, <1>5 DEF RenderInv

LEMMA RenderStep == RenderInv /\ [Next]_vars => RenderInv'
<1> SUFFICES ASSUME RenderInv, [Next]_vars PROVE RenderInv'
  OBVIOUS
<1>0. stored \subseteq Catalog
  BY DEF RenderInv, ShownInv
<1>1. ASSUME NEW b \in Budgets, NEW type \in Filters, NEW channel \in Channels,
             Read(b, type, channel)
      PROVE  RenderInv'
  <2>1. draft = Nil /\ Returned(b, type)
    BY <1>1 DEF Read
  <2>2. text'.by = channel /\ text'.lines = Format(channel, shown')
    BY <1>1 DEF Read
  <2>3. channel # "wrapped"
    BY DEF Channels
  <2> QED
    BY <2>1, <2>2, <2>3, ReadKeeps
<1>2. ASSUME NEW b \in Budgets, NEW nonce \in Nonces, ReadWrapped(b, nonce)
      PROVE  RenderInv'
  <2>1. draft = Nil /\ Returned(b, Nil)
    BY <1>2 DEF ReadWrapped
  <2>2. text'.by = "wrapped" /\ text'.lines = Wrapped(shown', nonce)
    BY <1>2 DEF ReadWrapped
  <2>3. "wrapped" \notin Channels
    BY DEF Channels
  <2> QED
    BY <2>1, <2>2, <2>3, ReadKeeps
<1>3. ASSUME NEW m \in Catalog, Retire(m)
      PROVE  RenderInv'
  <2>1. Change /\ stored' \subseteq Catalog /\ UNCHANGED <<cache, uncached>>
    BY <1>0, <1>3 DEF Retire
  <2> QED
    BY <2>1, ChangeKeeps
<1>4. ASSUME NEW m \in Catalog, NEW order \in Orders, Write(m, order)
      PROVE  RenderInv'
  <2>1. Change /\ stored' \subseteq Catalog /\ Uncache
    BY <1>0, <1>4 DEF Write
  <2> QED
    BY <2>1, ChangeKeeps
<1>5. CASE Forget
  <2>1. Change /\ stored' \subseteq Catalog /\ Uncache
    BY <1>0, <1>5 DEF Forget
  <2> QED
    BY <2>1, ChangeKeeps
<1>6. CASE Expire
  <2>1. Change /\ stored' \subseteq Catalog /\ Uncache
    BY <1>0, <1>6 DEF Expire
  <2> QED
    BY <2>1, ChangeKeeps
<1>7. ASSUME NEW c \in Catalog, NEW others \in Fillers,
             NEW i \in DOMAIN c.words, NEW j \in DOMAIN c.words, Draft(AsRead(c), i, j, others)
      PROVE  RenderInv'
  <2>1. /\ text.by \in Channels /\ draft = Nil
        /\ draft' = [phrase |-> SubSeq(AsRead(c).words, i, j), others |-> others]
        /\ UNCHANGED <<backend, stored, cache, listed, budget, shown, text, traced, hits, uncached>>
    BY <1>7 DEF Draft
  <2>2. Listings' = Listings
    BY <2>1, SameBackend
  <2>3. ShownInv'
    BY <2>1, <2>2 DEF RenderInv, ShownInv
  <2>4. TextInv'
    BY <2>1, RenderAssumption DEF RenderInv, TextInv
  <2>5. Output(draft')
    <3>1. AsRead(c).words \in Seq(Words) /\ AsRead(c).words = c.words
      BY Readable DEF Fact
    <3>2. i \in Int /\ j \in Int /\ \A k \in i .. j : c.words[k] \in Words
      BY <3>1
    <3>3. SubSeq(c.words, i, j) \in Seq(Words)
      BY <3>2, SubSeqProperties
    <3> QED
      BY <2>1, <3>1, <3>3, RenderAssumption DEF Output
  <2>6. DraftInv'
    BY <2>1, <2>5 DEF RenderInv, DraftInv
  <2> QED
    BY <2>3, <2>4, <2>6 DEF RenderInv
<1>8. CASE Trace
  <2>1. /\ draft # Nil /\ ReadList(Nil, traced') /\ cache' = traced'
        /\ hits' = TraceOutput(draft, Compress(traced', DefaultBudget))
        /\ UNCHANGED <<backend, stored, listed, budget, shown, text, draft, uncached>>
    BY <1>8 DEF Trace
  <2>2. Listings' = Listings
    BY <2>1, SameBackend
  <2>3. traced' \in Listings
    BY <2>1, ReadsListed DEF RenderInv, ShownInv
  <2>4. text.by # Nil /\ listed # Nil
    <3>1. text.by \in Channels
      BY <2>1 DEF RenderInv, DraftInv
    <3>2. listed \in Listings /\ DefaultBudget \in Int
      BY RenderAssumption DEF RenderInv, ShownInv
    <3> QED
      BY <3>1, <3>2, ReadsReturn, RenderAssumption
  <2>5. ~uncached => traced' = listed
    BY <2>1, <2>4 DEF RenderInv, ShownInv, ReadList
  <2>6. ShownInv'
    BY <2>1, <2>2, <2>3, <2>5 DEF RenderInv, ShownInv
  <2>7. TextInv' /\ DraftInv'
    BY <2>1, <2>5 DEF RenderInv, TextInv, DraftInv
  <2> QED
    BY <2>6, <2>7 DEF RenderInv
<1>9. CASE UNCHANGED vars
  <2>1. Listings' = Listings
    BY <1>9, SameBackend DEF vars
  <2> QED
    BY <1>9, <2>1 DEF vars, RenderInv, ShownInv, TextInv, DraftInv
<1> QED
  BY <1>1, <1>2, <1>3, <1>4, <1>5, <1>6, <1>7, <1>8, <1>9 DEF Next

LEMMA RenderAlways == Spec => []RenderInv
  BY RenderInit, RenderStep, PTL DEF Spec

-----------------------------------------------------------------------------
(* What it comes to.                                                       *)

LEMMA BudgetIsKept == RenderInv => BudgetKept
<1> SUFFICES ASSUME RenderInv, text.by # Nil
             PROVE  LET pinned == Pinned(listed)
                        kept == ToSet(shown)
                    IN  /\ pinned \subseteq kept
                        /\ Cost(kept) <= budget \/ kept = pinned
                        /\ \A m \in ToSet(listed) \ kept :
                             Cost(pinned \cup {n \in kept : ~Outranks(m, n)}) + ApproxTokens(m)
                               > budget
  BY DEF BudgetKept
<1>1. listed \in Listings /\ budget \in Int /\ shown = Compress(listed, budget)
  BY DEF RenderInv, ShownInv
<1>2. ToSet(shown) = Kept(listed, budget)
  BY <1>1, ReadsReturn DEF IsListing
<1> QED
  BY <1>1, <1>2, ReadsReturn

LEMMA TheTopIsShown == RenderInv => ShowsTheTop
<1> SUFFICES ASSUME RenderInv, text.by \in Channels,
                    NEW m \in ToSet(shown) \ text.lines, NEW n \in text.lines,
                    text.by \in {"web", "voice"} => m.type = n.type
             PROVE  ~Outranks(m, n)
  BY DEF ShowsTheTop
<1>1. text.lines = Format(text.by, shown)
  BY DEF RenderInv, TextInv
<1>2. PICK S \in SUBSET AsReads : IsListing(shown, S)
  BY DEF RenderInv, ShownInv, Listings
<1>3. ToSet(shown) = S /\ Orderable(S) /\ m \in S
  BY <1>2, CatalogAsRead DEF IsListing, Orderable
<1>4. Lines \in Nat /\ PerType \in Nat
  BY RenderAssumption
<1>5. CASE text.by = "whatsapp"
  <2>1. text.lines = FirstOf(shown, Lines)
    BY <1>1, <1>5 DEF Format
  <2> QED
    BY <1>2, <1>3, <1>4, <2>1, FirstOfBest
<1>6. CASE text.by = "sms"
  <2>1. text.lines = FirstOf(shown, 2)
    BY <1>1, <1>2, <1>3, <1>6, MostSalientFirst DEF Format
  <2> QED
    BY <1>2, <1>3, <2>1, FirstOfBest
<1>7. CASE text.by = "web"
  <2>1. text.lines = FirstOfTypes(shown, Types, PerType) /\ m.type = n.type
    BY <1>1, <1>7 DEF Format
  <2> QED
    BY <1>2, <1>3, <1>4, <2>1, FirstOfTypesBest
<1>8. CASE text.by = "voice"
  <2>1. text.lines = FirstOfTypes(shown, VoiceTypes, 1) /\ m.type = n.type
    BY <1>1, <1>8 DEF Format
  <2> QED
    BY <1>2, <1>3, <2>1, FirstOfTypesBest
<1>9. CASE text.by = "app"
  BY <1>1, <1>9 DEF Format
<1> QED
  BY <1>5, <1>6, <1>7, <1>8, <1>9 DEF Channels

LEMMA UntrustedAreWrapped == RenderInv => UntrustedWrapped
<1> SUFFICES ASSUME RenderInv, text.by = "wrapped", NEW c \in Catalog, NEW line \in text.lines,
                    c.id = line.id, c.trust < RenderMinTrust
             PROVE  line.envelope # Nil /\ line.envelope \notin line.nonces
  BY DEF UntrustedWrapped
<1>1. PICK nonce \in Nonces : text.lines = Wrapped(shown, nonce)
  BY DEF RenderInv, TextInv
<1>2. PICK S \in SUBSET AsReads : IsListing(shown, S)
  BY DEF RenderInv, ShownInv, Listings
<1>3. PICK m \in AsReads :
        line = IF TrustOf(m) >= RenderMinTrust
               THEN [id |-> m.id, envelope |-> Nil, nonces |-> m.nonces]
               ELSE [id |-> m.id, envelope |-> nonce, nonces |-> m.nonces \ {nonce}]
  BY <1>1, <1>2 DEF Wrapped, IsListing
<1>4. PICK d \in Catalog : m = AsRead(d)
  BY DEF AsReads
<1>5. m.id = d.id /\ (m.trust = d.trust \/ m.trust = Nil)
  BY <1>4, Readable
<1>6. d = c
  <2>1. line.id = m.id
    BY <1>3
  <2> QED
    BY <1>5, <2>1, RenderAssumption
<1>7. ~(TrustOf(m) >= RenderMinTrust)
  <2>1. c.trust \in Nat /\ UserContent <= c.trust /\ UserContent \in Nat /\ RenderMinTrust \in Nat
    BY RenderAssumption
  <2> QED
    BY <1>5, <1>6, <2>1 DEF TrustOf
<1>8. nonce # Nil
  BY RenderAssumption
<1> QED
  BY <1>3, <1>7, <1>8

\* What the hits of a trace are.
LEMMA TraceFinds ==
  ASSUME RenderInv, hits # Nil
  PROVE  /\ text.by \in Channels /\ Output(draft)
         /\ \A h \in hits : h.id \in {m.id : m \in Catalog} /\ h.score \in 0 .. 1000
         /\ Cardinality({h.id : h \in hits}) = Cardinality(hits)
         /\ \A m \in Kept(traced, DefaultBudget) :
              Fact(m) /\ (HitsOf(m, draft) # {} => \E h \in hits : h.id = m.id)
<1>1. /\ text.by \in Channels /\ Output(draft)
      /\ hits = TraceOutput(draft, Compress(traced, DefaultBudget))
      /\ traced \in Listings /\ DefaultBudget \in Int
  BY RenderAssumption DEF RenderInv, DraftInv, ShownInv
<1> DEFINE K == Kept(traced, DefaultBudget)
           list == Compress(traced, DefaultBudget)
<1>2. K \subseteq AsReads /\ ToSet(list) = K
  BY <1>1, ReadsReturn DEF IsListing
<1>3. IsFiniteSet(K) /\ \A m \in K : Fact(m)
  BY <1>2, CatalogAsRead, FS_Subset
<1>4. {m.id : m \in K} \subseteq {m.id : m \in Catalog}
  BY <1>2, CatalogAsRead
<1> HIDE DEF K, list
<1>5. HitsFor(TraceOutput(draft, list), K, draft)
  BY <1>1, <1>2, <1>3, TraceKeeps
<1>6. HitsFor(hits, K, draft)
  BY <1>1, <1>5 DEF list
<1>7. /\ \A h \in hits : h.id \in {m.id : m \in K} /\ h.score \in 0 .. 1000
      /\ \A m \in K : HitsOf(m, draft) # {} => \E h \in hits : h.id = m.id
  BY <1>6 DEF HitsFor
<1>8. Cardinality({h.id : h \in hits}) = Cardinality(hits)
  BY <1>6 DEF HitsFor
<1>9. \A h \in hits : h.id \in {m.id : m \in Catalog} /\ h.score \in 0 .. 1000
  BY <1>4, <1>7
<1>10. \A m \in Kept(traced, DefaultBudget) :
         Fact(m) /\ (HitsOf(m, draft) # {} => \E h \in hits : h.id = m.id)
  BY <1>3, <1>7 DEF K
<1> QED
  BY <1>1, <1>8, <1>9, <1>10

LEMMA NoFalseAlarms == RenderInv => NoFalseAlarm
<1> SUFFICES ASSUME RenderInv, hits # Nil, Len(draft.phrase) >= MinPhrase, NEW m \in text.lines,
                    draft.phrase \in SubSeqs(m.words),
                    \/ m \in Pinned(traced)
                    \/ m \in ToSet(traced) /\ Cost(ToSet(traced)) <= DefaultBudget
                    \/ budget = DefaultBudget /\ ~uncached
             PROVE  \E h \in hits : h.id = m.id
  BY DEF NoFalseAlarm
<1>1. text.by \in Channels /\ Output(draft)
  BY TraceFinds
<1>2. /\ traced \in Listings /\ listed \in Listings
      /\ DefaultBudget \in Int /\ MinPhrase \in Nat \ {0}
  BY RenderAssumption DEF RenderInv, ShownInv
<1>3. m \in Kept(traced, DefaultBudget)
  <2>1. CASE m \in Pinned(traced)
    BY <1>2, <2>1, ReadsReturn
  <2>2. CASE m \in ToSet(traced) /\ Cost(ToSet(traced)) <= DefaultBudget
    <3> DEFINE S == ToSet(traced)
    <3>1. IsFiniteSet(S) /\ Orderable(S) /\ Priced(S) /\ IsListing(traced, S)
      BY <1>2, ReadsReturn
    <3>2. m \in S /\ Cost(S) <= DefaultBudget
      BY <2>2
    <3> HIDE DEF S
    <3> QED
      BY <1>2, <3>1, <3>2, AllFit
  <2>3. CASE budget = DefaultBudget /\ ~uncached
    <3>1. text.by # Nil /\ traced = listed
      BY <1>1, <2>3, RenderAssumption DEF RenderInv, DraftInv
    <3>2. shown = Compress(traced, DefaultBudget) /\ text.lines = Format(text.by, shown)
      BY <1>1, <2>3, <3>1 DEF RenderInv, ShownInv, TextInv
    <3>3. IsListing(shown, Kept(traced, DefaultBudget))
      BY <1>2, <3>2, ReadsReturn
    <3> QED
      BY <1>1, <3>2, <3>3, ChannelsShowSome
  <2> QED
    BY <2>1, <2>2, <2>3
<1>4. Fact(m) /\ (HitsOf(m, draft) # {} => \E h \in hits : h.id = m.id)
  BY <1>3, TraceFinds
<1> QED
  BY <1>1, <1>2, <1>4, QuotedHits

LEMMA TypesAreOK == RenderInv => TypeOK
<1> SUFFICES ASSUME RenderInv PROVE TypeOK
  OBVIOUS
<1>1. PICK S \in SUBSET AsReads : IsListing(shown, S)
  BY DEF RenderInv, ShownInv, Listings
<1>2. ToSet(shown) = S
  BY <1>1 DEF IsListing
<1>3. {m.id : m \in ToSet(shown)} \subseteq {m.id : m \in Catalog}
  BY <1>2, CatalogAsRead
<1>4. Cardinality(ToSet(shown)) = Len(shown)
  BY <1>1, <1>2 DEF IsListing
<1>5. {l.id : l \in text.lines} \subseteq {m.id : m \in ToSet(shown)}
  <2>1. CASE text.by \in Channels
    BY <1>1, <1>2, <2>1, ChannelsShowSome DEF RenderInv, TextInv
  <2>2. CASE text.by = "wrapped"
    BY <2>2 DEF RenderInv, TextInv, Wrapped
  <2>3. CASE text.by = Nil
    BY <2>3 DEF RenderInv, TextInv
  <2> QED
    BY <2>1, <2>2, <2>3 DEF RenderInv, TextInv
<1>6. hits # Nil =>
        /\ \A h \in hits : h.id \in {m.id : m \in Catalog} /\ h.score \in 0 .. 1000
        /\ Cardinality({h.id : h \in hits}) = Cardinality(hits)
  BY TraceFinds
<1> QED
  BY <1>3, <1>4, <1>5, <1>6 DEF TypeOK

-----------------------------------------------------------------------------
(* Theorems.                                                               *)

\* Only memories of the catalog are shown, none twice; the text has only what was
\* shown; a trace has one hit for each memory, with a score in range.
THEOREM Typed == Spec => []TypeOK
  BY RenderAlways, TypesAreOK, PTL

\* Whatever the memories, ties among them included, and whatever the budget, a read
\* keeps the pinned memories of its list, and beyond them spends no more than the
\* budget and passes over only what did not fit beside those no worse.
THEOREM Budgeted == Spec => []BudgetKept
  BY RenderAlways, BudgetIsKept, PTL

\* No channel leaves out a memory for a less salient one.
THEOREM TopShown == Spec => []ShowsTheTop
  BY RenderAlways, TheTopIsShown, PTL

\* Whatever the nonce and the backend, a memory of too little trust is in an envelope
\* that its text cannot close.
THEOREM Wrappings == Spec => []UntrustedWrapped
  BY RenderAlways, UntrustedAreWrapped, PTL

\* A quoted memory that was shown has a hit if it is pinned in the list the trace works
\* on, if that list fits, or if the reader's own list with the reader's own budget is it.
THEOREM Grounded == Spec => []NoFalseAlarm
  BY RenderAlways, NoFalseAlarms, PTL
=============================================================================
