---------------------------- MODULE IntakeProofs ----------------------------
(***************************************************************************)
(* Proofs about Intake, for any calls, texts, thresholds and replies of a  *)
(* language model: a fact is taken only from text that the floor or the    *)
(* filter passed, a library's dicts aside (NoTaintedFact), behind the      *)
(* tool's floor the manager's filter never                                 *)
(* raises an alert (FloorSuffices), every item of a list leaves a fact     *)
(* (EveryItemExtracted), exactly the right facts are kept                  *)
(* (KeepsTheRightFacts), and masking replaces exactly the hits             *)
(* (MaskedExactly).                                                        *)
(***************************************************************************)
EXTENDS Intake, FiniteSetTheorems, SequenceTheorems, TLAPS

-----------------------------------------------------------------------------
(* Induction over the naturals, as a fact about sets: a set that has 0 and is *)
(* closed under successor has them all, or it had an injection into a proper  *)
(* part of one of its finite parts.                                           *)

LEMMA Induction ==
  ASSUME NEW S, 0 \in S, \A n \in Nat : n \in S => n + 1 \in S
  PROVE  Nat \subseteq S
<1> SUFFICES ASSUME NEW n \in Nat, n \notin S PROVE FALSE
  OBVIOUS
<1> DEFINE T == S \cap 0 .. n
           f == [i \in T |-> i + 1]
<1>1. IsFiniteSet(T)
  BY FS_Interval, FS_Subset, 0 \in Int, n \in Int
<1>2. 0 \in T /\ \A i \in T : i + 1 \in T \ {0}
  <2>1. \A i \in T : i # n /\ i \in Nat /\ i <= n /\ i + 1 \in S
    OBVIOUS
  <2> QED
    BY <2>1
<1>3. IsFiniteSet(T \ {0}) /\ Cardinality(T \ {0}) < Cardinality(T)
  <2>1. Cardinality(T) \in Nat /\ T # {}
     BY <1>1, <1>2, FS_CardinalityType
  <2> HIDE DEF T
  <2>2. 0 \in T
    BY <1>2
  <2>3. IsFiniteSet(T \ {0}) /\ Cardinality(T \ {0}) = Cardinality(T) - 1
    BY <1>1, <2>2, FS_RemoveElement, Zenon
  <2> QED
    BY <2>1, <2>3
<1>4. f \in [T -> T \ {0}]
  <2>1. \A i \in T : i + 1 \in T \ {0}
    BY <1>2
  <2> HIDE DEF T
  <2> QED
    BY <2>1
<1> HIDE DEF T, f
<1>5. PICK x, y \in T : x # y /\ f[x] = f[y]
  BY <1>1, <1>3, <1>4, FS_PigeonHole, Zenon
<1>6. x + 1 = y + 1 /\ x \in Nat /\ y \in Nat
  <2>1. T \subseteq Nat
    BY DEF T
  <2> QED
    BY <1>5, <2>1 DEF f
<1> QED
  BY <1>5, <1>6

-----------------------------------------------------------------------------
(* Orders.                                                                 *)

\* R is a strict total order on S.
Orders(R, S) ==
  /\ \A x \in S : <<x, x>> \notin R
  /\ \A x, y \in S : <<x, y>> \in R \/ <<y, x>> \in R \/ x = y
  /\ \A x, y, z \in S : <<x, y>> \in R /\ <<y, z>> \in R => <<x, z>> \in R

Before(S, R, x) == {y \in S : <<y, x>> \in R}
Place(S, R, x) == Cardinality(Before(S, R, x))

LEMMA PlaceOrder ==
  ASSUME NEW S, NEW R, IsFiniteSet(S), Orders(R, S), NEW x \in S, NEW y \in S, <<y, x>> \in R
  PROVE  Place(S, R, y) < Place(S, R, x)
<1>1. /\ Before(S, R, y) \subseteq Before(S, R, x)
      /\ y \in Before(S, R, x) /\ y \notin Before(S, R, y)
  BY DEF Orders, Before
<1>2. IsFiniteSet(Before(S, R, x)) /\ IsFiniteSet(Before(S, R, y))
  BY FS_Subset DEF Before
<1>3. /\ Cardinality(Before(S, R, y)) <= Cardinality(Before(S, R, x))
      /\ Cardinality(Before(S, R, y)) = Cardinality(Before(S, R, x))
           => Before(S, R, y) = Before(S, R, x)
  BY <1>1, <1>2, FS_Subset
<1> QED
  BY <1>1, <1>2, <1>3, FS_CardinalityType DEF Place

LEMMA PlaceRange ==
  ASSUME NEW S, NEW R, IsFiniteSet(S), Orders(R, S), NEW x \in S
  PROVE  Place(S, R, x) \in 0 .. Cardinality(S) - 1
<1>1. Before(S, R, x) \subseteq S \ {x}
  BY DEF Orders, Before
<1>2. IsFiniteSet(S \ {x}) /\ Cardinality(S \ {x}) = Cardinality(S) - 1
  BY FS_RemoveElement
<1>3. /\ IsFiniteSet(Before(S, R, x))
      /\ Cardinality(Before(S, R, x)) <= Cardinality(S \ {x})
  BY <1>1, <1>2, FS_Subset
<1> QED
  BY <1>2, <1>3, FS_CardinalityType DEF Place

\* Every place is somebody's.
LEMMA PlaceTaken ==
  ASSUME NEW S, NEW R, IsFiniteSet(S), Orders(R, S), NEW k \in 0 .. Cardinality(S) - 1
  PROVE  \E x \in S : Place(S, R, x) = k
<1> SUFFICES ASSUME \A x \in S : Place(S, R, x) # k PROVE FALSE
  OBVIOUS
<1> DEFINE T == 0 .. Cardinality(S) - 1
           f == [x \in S |-> Place(S, R, x)]
<1>1. Cardinality(S) \in Nat
  BY FS_CardinalityType
<1>2. IsFiniteSet(T) /\ Cardinality(T) = Cardinality(S)
  <2>1. 0 \in Int /\ Cardinality(S) - 1 \in Int /\ 0 <= Cardinality(S) - 1
    BY <1>1
  <2>2. /\ IsFiniteSet(T)
        /\ Cardinality(T) = IF 0 > Cardinality(S) - 1 THEN 0 ELSE (Cardinality(S) - 1) - 0 + 1
    BY <2>1, FS_Interval
  <2> QED
    BY <1>1, <2>1, <2>2
<1>3. k \in T
  OBVIOUS
<1> HIDE DEF T
<1>4. IsFiniteSet(T \ {k}) /\ Cardinality(T \ {k}) = Cardinality(T) - 1
  BY <1>2, <1>3, FS_RemoveElement
<1>5. f \in [S -> T \ {k}]
  BY PlaceRange DEF T
<1>6. Cardinality(T \ {k}) < Cardinality(S)
  BY <1>1, <1>2, <1>4
<1> HIDE DEF f
<1>7. PICK x, y \in S : x # y /\ f[x] = f[y]
  BY <1>4, <1>5, <1>6, FS_PigeonHole, Zenon
<1>8. Place(S, R, x) = Place(S, R, y)
  BY <1>7 DEF f
<1>9. <<x, y>> \in R \/ <<y, x>> \in R
  BY <1>7 DEF Orders
<1>10. Place(S, R, x) \in Int /\ Place(S, R, y) \in Int
  BY PlaceRange
<1> QED
  BY <1>8, <1>9, <1>10, PlaceOrder

Arranges(a, S, R) ==
  /\ Cardinality(S) \in Nat
  /\ a \in [1 .. Cardinality(S) -> S]
  /\ \A x \in S : \E k \in 1 .. Cardinality(S) : a[k] = x
  /\ \A k \in 1 .. Cardinality(S) : Place(S, R, a[k]) = k - 1
  /\ \A i, j \in 1 .. Cardinality(S) : /\ <<a[i], a[j]>> \in R <=> i < j
                                       /\ a[i] = a[j] => i = j

LEMMA ArrangedSorts ==
  ASSUME NEW S, NEW R, IsFiniteSet(S), Orders(R, S)
  PROVE  Arranges(Arranged(S, R), S, R)
<1> DEFINE a == Arranged(S, R)
           P(x) == Place(S, R, x)
<1>1. Cardinality(S) \in Nat
  BY FS_CardinalityType
<1>2. a = [k \in 1 .. Cardinality(S) |-> CHOOSE x \in S : P(x) = k - 1]
  BY DEF Arranged, Place, Before
<1> HIDE DEF a, P
<1>3. ASSUME NEW k \in 1 .. Cardinality(S) PROVE a[k] \in S /\ P(a[k]) = k - 1
  <2>1. k - 1 \in 0 .. Cardinality(S) - 1
    BY <1>1
  <2>2. \E x \in S : P(x) = k - 1
    BY <2>1, PlaceTaken DEF P
  <2> QED
    BY <1>2, <2>2
<1>4. a \in [1 .. Cardinality(S) -> S]
  BY <1>2, <1>3
<1>5. ASSUME NEW x \in S PROVE P(x) + 1 \in 1 .. Cardinality(S) /\ a[P(x) + 1] = x
  <2>1. P(x) \in 0 .. Cardinality(S) - 1
    BY PlaceRange DEF P
  <2>2. P(x) + 1 \in 1 .. Cardinality(S) /\ (P(x) + 1) - 1 = P(x)
    BY <1>1, <2>1
  <2> DEFINE y == a[P(x) + 1]
  <2>3. y \in S /\ P(y) = P(x)
    BY <1>3, <2>2
  <2> HIDE DEF y
  <2>4. <<x, y>> \notin R /\ <<y, x>> \notin R
    BY <2>1, <2>3, PlaceOrder DEF P
  <2>5. y = x
    BY <2>3, <2>4 DEF Orders
  <2> QED
    BY <2>2, <2>5 DEF y
<1>6. ASSUME NEW i \in 1 .. Cardinality(S), NEW j \in 1 .. Cardinality(S)
      PROVE  (<<a[i], a[j]>> \in R <=> i < j) /\ (a[i] = a[j] => i = j)
  <2>1. /\ a[i] \in S /\ P(a[i]) = i - 1 /\ i \in Int
        /\ a[j] \in S /\ P(a[j]) = j - 1 /\ j \in Int
    BY <1>1, <1>3
  <2>2. <<a[i], a[j]>> \in R => i < j
    BY <2>1, PlaceOrder DEF P
  <2>3. <<a[j], a[i]>> \in R => j < i
    BY <2>1, PlaceOrder DEF P
  <2>4. a[i] = a[j] => i = j
    BY <2>1
  <2> QED
    BY <2>1, <2>2, <2>3, <2>4 DEF Orders
<1>7. /\ \A x \in S : \E k \in 1 .. Cardinality(S) : a[k] = x
      /\ \A k \in 1 .. Cardinality(S) : Place(S, R, a[k]) = k - 1
  BY <1>3, <1>5 DEF P
<1> QED
  BY <1>1, <1>4, <1>6, <1>7 DEF a, Arranges

\* Who is at a place.
LEMMA PlaceIs ==
  ASSUME NEW S, NEW R, NEW a, Arranges(a, S, R), NEW x \in S, NEW k \in 1 .. Cardinality(S),
         Place(S, R, x) = k - 1
  PROVE  a[k] = x
<1>1. PICK j \in 1 .. Cardinality(S) : a[j] = x
  BY DEF Arranges
<1>2. Place(S, R, x) = j - 1
  BY <1>1 DEF Arranges
<1> QED
  BY <1>1, <1>2

LEMMA UpwardsOrders ==
  ASSUME NEW S \in SUBSET Nat
  PROVE  Orders(Upwards(S), S) /\ \A x, y \in S : <<x, y>> \in Upwards(S) <=> x < y
<1>1. \A x, y \in S : <<x, y>> \in Upwards(S) <=> x < y
  BY DEF Upwards
<1>2. S \subseteq Int
  OBVIOUS
<1> QED
  BY <1>1, <1>2 DEF Orders

\* The indices I in their order.
Order(I) == Arranged(I, Upwards(I))

LEMMA OrderSorts ==
  ASSUME NEW I \in SUBSET Nat, IsFiniteSet(I)
  PROVE  Arranges(Order(I), I, Upwards(I))
  BY UpwardsOrders, ArrangedSorts DEF Order

LEMMA AtIs ==
  ASSUME NEW s, NEW I \in SUBSET Nat, IsFiniteSet(I)
  PROVE  /\ Cardinality(I) \in Nat
         /\ At(s, I) = [k \in 1 .. Cardinality(I) |-> s[Order(I)[k]]]
<1>1. Cardinality(I) \in Nat /\ DOMAIN Order(I) = 1 .. Cardinality(I)
  BY OrderSorts DEF Arranges
<1> QED
  BY <1>1 DEF At, Order

\* An index below n many of I is the n + 1st of them.
Below(I, i) == {j \in I : j < i}

LEMMA BelowIs ==
  ASSUME NEW I \in SUBSET Nat, NEW i \in I
  PROVE  Place(I, Upwards(I), i) = Cardinality(Below(I, i))
<1>1. Before(I, Upwards(I), i) = Below(I, i)
  BY UpwardsOrders DEF Before, Below
<1> QED
  BY <1>1 DEF Place

\* Taking from what was taken.
LEMMA AtOfAt ==
  ASSUME NEW s, NEW I \in SUBSET Nat, IsFiniteSet(I), NEW J \in SUBSET (1 .. Cardinality(I))
  PROVE  At(At(s, I), J) = At(s, {Order(I)[j] : j \in J})
<1> DEFINE a == Order(I)
           b == Order(J)
           K == {a[j] : j \in J}
           c == Order(K)
           n == Cardinality(J)
<1>1. Arranges(a, I, Upwards(I)) /\ Cardinality(I) \in Nat
  BY OrderSorts DEF Arranges
<1>2. \A j \in J : j \in 1 .. Cardinality(I) /\ j \in Nat /\ a[j] \in I /\ a[j] \in Nat
  <2> HIDE DEF a
  <2> SUFFICES ASSUME NEW j \in J
               PROVE  j \in 1 .. Cardinality(I) /\ j \in Nat /\ a[j] \in I /\ a[j] \in Nat
    OBVIOUS
  <2>1. j \in 1 .. Cardinality(I)
    OBVIOUS
  <2>2. j \in Nat
    BY <1>1, <2>1
  <2>3. a[j] \in I
    BY <1>1, <2>1 DEF Arranges
  <2> QED
    BY <2>1, <2>2, <2>3
<1>3. J \subseteq Nat /\ IsFiniteSet(J)
  <2>1. IsFiniteSet(1 .. Cardinality(I))
    BY <1>1, FS_Interval, 1 \in Int, Cardinality(I) \in Int
  <2> QED
    BY <1>2, <2>1, FS_Subset
<1>4. Arranges(b, J, Upwards(J)) /\ n \in Nat
  BY <1>3, OrderSorts DEF Arranges
<1>5. \A i, j \in J : /\ a[i] < a[j] <=> i < j
                      /\ a[i] = a[j] => i = j
  BY <1>1, <1>2, UpwardsOrders DEF Arranges
<1> HIDE DEF a, b, n
<1>6. K \in SUBSET Nat
  BY <1>2
<1>7. ASSUME NEW T \in SUBSET J
      PROVE  IsFiniteSet({a[j] : j \in T}) /\ Cardinality({a[j] : j \in T}) = Cardinality(T)
  <2> DEFINE f == [j \in T |-> a[j]]
             U == {a[j] : j \in T}
  <2>1. IsFiniteSet(T)
    BY <1>3, FS_Subset
  <2>2. f \in Bijection(T, U)
    <3>1. f \in Surjection(T, U)
      BY DEF Surjection
    <3>2. f \in Injection(T, U)
      BY <1>5 DEF Injection, IsInjective
    <3> QED
      BY <3>1, <3>2 DEF Bijection
  <2> HIDE DEF f, U
  <2>3. IsFiniteSet(U) /\ Cardinality(U) = Cardinality(T)
    BY <2>1, <2>2, FS_Bijection DEF ExistsBijection
  <2> QED
    BY <2>3 DEF U
<1>8. IsFiniteSet(K) /\ Cardinality(K) = n
  BY <1>7 DEF n
<1>9. Arranges(c, K, Upwards(K))
  BY <1>6, <1>8, OrderSorts
<1>10. ASSUME NEW k \in 1 .. n PROVE c[k] = a[b[k]]
  <2>1. b[k] \in J /\ Place(J, Upwards(J), b[k]) = k - 1
    BY <1>4 DEF Arranges, n
  <2>2. Cardinality(Below(J, b[k])) = k - 1
    BY <1>3, <2>1, BelowIs
  <2>3. Below(K, a[b[k]]) = {a[j] : j \in Below(J, b[k])}
    BY <1>5, <2>1 DEF Below
  <2>4. Below(J, b[k]) \subseteq J
    BY DEF Below
  <2>5. Cardinality(Below(K, a[b[k]])) = k - 1
    BY <1>7, <2>2, <2>3, <2>4
  <2>6. a[b[k]] \in K
    BY <2>1
  <2> HIDE DEF K, c
  <2>7. Place(K, Upwards(K), a[b[k]]) = k - 1
    BY <1>6, <2>5, <2>6, BelowIs
  <2>8. k \in 1 .. Cardinality(K)
    BY <1>8
  <2> QED
    BY <1>9, <2>6, <2>7, <2>8, PlaceIs
<1>11. At(s, K) = [k \in 1 .. n |-> s[c[k]]]
  BY <1>6, <1>8, AtIs DEF c
<1>12. At(s, I) = [k \in 1 .. Cardinality(I) |-> s[a[k]]]
  BY AtIs DEF a
<1>13. At(At(s, I), J) = [k \in 1 .. n |-> At(s, I)[b[k]]]
  BY <1>3, AtIs DEF b, n
<1>14. \A k \in 1 .. n : b[k] \in 1 .. Cardinality(I)
  BY <1>2, <1>4 DEF Arranges, n
<1>15. \A k \in 1 .. n : At(s, I)[b[k]] = s[c[k]]
  BY <1>10, <1>12, <1>14
<1> HIDE DEF K, c
<1>16. At(At(s, I), J) = At(s, K)
  BY <1>11, <1>13, <1>15
<1> QED
  BY <1>16 DEF K, a

-----------------------------------------------------------------------------
(* The call and its configuration.                                         *)

\* The call's items are of forms that the filter reads the text of.
Legible(c) == \A f \in ToSet(Items(c)) : f.form \in {"string", "fact"}

CallInv ==
  /\ call \in WriteCalls
  /\ call \in Calls \/ (call.entry = "mcp" /\ Legible(call))
  /\ config \in Configs
  /\ pc \in {"memory_write", "write", "extract", "mask", "select", "plan"} \cup Ended
  /\ pc = "memory_write" => call.entry = "mcp"
  /\ call.entry = "mcp" => pc \in {"memory_write", "bad_request"} \/ Legible(call)
  /\ pc = "extract" => call.facts # Nil \/ call.raw # Nil

LEMMA CallInit == Init => CallInv
<1> SUFFICES ASSUME Init PROVE CallInv
  OBVIOUS
<1>1. call \in Calls /\ call \in WriteCalls /\ config \in Configs
  BY IntakeAssumption DEF Init
<1>2. pc = IF call.entry = "mcp" THEN "memory_write" ELSE "write"
  BY DEF Init
<1> QED
  BY <1>1, <1>2 DEF CallInv

\* What the tool hands on: no text that the floor did not read, and every dict a
\* Fact.
LEMMA HandedOn ==
  ASSUME NEW c \in WriteCalls, Valid(c)
  PROVE  /\ Handed(c) \in WriteCalls /\ Handed(c).raw = c.raw /\ Handed(c).entry = c.entry
         /\ FloorTexts(Handed(c)) \subseteq FloorTexts(c) /\ Legible(Handed(c))
<1> DEFINE listed == [i \in DOMAIN c.facts |-> AsFact(c.facts[i])]
<1>1. CASE Items(c) = <<>>
  <2>1. Handed(c) = [c EXCEPT !.facts = Nil]
    BY <1>1 DEF Handed
  <2>2. Handed(c) \in WriteCalls /\ Handed(c).raw = c.raw /\ Handed(c).entry = c.entry
    BY <2>1 DEF WriteCalls
  <2>3. Handed(c).facts = Nil
    BY <2>1 DEF WriteCalls
  <2>4. Items(Handed(c)) = <<>>
    BY <2>3 DEF Items
  <2>5. ToSet(Items(Handed(c))) = {}
    BY <2>4 DEF ToSet
  <2> QED
    BY <2>2, <2>5 DEF FloorTexts, Legible
<1>2. CASE Items(c) # <<>>
  <2>1. c.facts \in Seq(GivenFacts) /\ Items(c) = c.facts
    BY <1>2 DEF Items, WriteCalls
  <2>2. \A i \in DOMAIN c.facts : c.facts[i] \in GivenFacts /\ c.facts[i].form \in {"string", "dict"}
    BY <2>1 DEF Valid, ToSet
  <2>3. \A f \in GivenFacts : f.form \in {"string", "dict"} =>
          AsFact(f) \in GivenFacts /\ AsFact(f).text = f.text /\ AsFact(f).form \in {"string", "fact"}
    BY DEF AsFact, GivenFacts
  <2>4. \A i \in DOMAIN c.facts :
          /\ listed[i] \in GivenFacts /\ listed[i].text = c.facts[i].text
          /\ listed[i].form \in {"string", "fact"}
    BY <2>2, <2>3
  <2>5. listed \in Seq(GivenFacts) /\ DOMAIN listed = DOMAIN c.facts
    <3>1. Len(c.facts) \in Nat /\ DOMAIN c.facts = 1..Len(c.facts)
      BY <2>1
    <3>2. \A i \in 1..Len(c.facts) : listed[i] \in GivenFacts
      BY <2>4, <3>1
    <3>3. listed = [i \in 1..Len(c.facts) |-> listed[i]]
      BY <3>1
    <3> HIDE DEF listed
    <3> QED
      BY <3>1, <3>2, <3>3
  <2> HIDE DEF listed
  <2>6. Handed(c) = [c EXCEPT !.facts = listed]
    BY <1>2 DEF Handed, listed
  <2>7. Handed(c) \in WriteCalls /\ Handed(c).raw = c.raw /\ Handed(c).entry = c.entry
    BY <2>5, <2>6 DEF WriteCalls
  <2>8. Items(Handed(c)) = listed \/ Items(Handed(c)) = <<>>
    BY <2>6 DEF Items, WriteCalls
  <2>9. \A f \in ToSet(Items(Handed(c))) : \E i \in DOMAIN c.facts : f = listed[i]
    BY <2>5, <2>8 DEF ToSet
  <2>10. Legible(Handed(c))
    BY <2>4, <2>9 DEF Legible
  <2>11. \A f \in ToSet(Items(Handed(c))) : \E g \in ToSet(Items(c)) : f.text = g.text
    BY <2>1, <2>4, <2>9 DEF ToSet
  <2> QED
    BY <2>7, <2>10, <2>11 DEF FloorTexts
<1> QED
  BY <1>1, <1>2

LEMMA CallStep == CallInv /\ [Next]_vars => CallInv'
<1> SUFFICES ASSUME CallInv, [Next]_vars PROVE CallInv'
  OBVIOUS
<1> USE DEF CallInv, Ended
<1>1. CASE MemoryWrite
  <2>1. CASE pc' = "bad_request" /\ UNCHANGED <<call, config>>
    BY <2>1
  <2>2. CASE pc' = "write" /\ UNCHANGED config /\ Valid(call) /\ call' = Handed(call)
    <3>1. call' \in WriteCalls /\ call'.entry = "mcp" /\ Legible(call')
      BY <1>1, <2>2, HandedOn DEF MemoryWrite
    <3> QED
      BY <2>2, <3>1
  <2> QED
    BY <1>1, <2>1, <2>2 DEF MemoryWrite
<1>2. CASE Write
  BY <1>2 DEF Write
<1>3. CASE Extract
  BY <1>3 DEF Extract, Ask
<1>4. CASE MaskFacts
  BY <1>4 DEF MaskFacts
<1>5. CASE Select
  BY <1>5 DEF Select
<1>6. CASE Plan
  BY <1>6 DEF Plan
<1>7. CASE UNCHANGED vars
  BY <1>7 DEF vars
<1> QED
  BY <1>1, <1>2, <1>3, <1>4, <1>5, <1>6, <1>7 DEF Next

LEMMA ConfigTyped ==
  ASSUME CallInv
  PROVE  config.llm \in BOOLEAN /\ config.pii \in BOOLEAN /\ config.presidio \in BOOLEAN
<1>1. config \in [llm : BOOLEAN, pii : BOOLEAN, presidio : BOOLEAN, reject : BOOLEAN]
  BY IntakeAssumption DEF CallInv
<1> QED
  BY <1>1

-----------------------------------------------------------------------------
(* What was scanned.                                                       *)

\* The steps after the manager's filter.
Filtered == {"extract", "mask", "select", "plan", "done"}

\* The texts that the facts of call c are taken from, a dict's left out.
Source(c) ==
  IF c.raw # Nil THEN {c.raw}
  ELSE {f.text : f \in {g \in ToSet(c.facts) : g.form # "dict"}}

\* A list is read when there is one and no item of it is a stray.
Readable(c) == c.raw = Nil => c.facts # Nil /\ \A f \in ToSet(c.facts) : f.form # "malformed"

\* Nothing is kept before the cut; what the filter passed is clean; and what was
\* extracted could be read.
FilterInv ==
  /\ pc \notin {"plan", "done"} => kept = <<>>
  /\ pc \in Filtered /\ config.reject => ~Tainted(FilterTexts(call))
  /\ pc \in Filtered \ {"extract"} => Readable(call)

\* Of raw text and facts the filter scans what the extractor will read, but for
\* dicts: only an empty raw text, from which nothing is extracted, goes unscanned.
LEMMA SourceFiltered ==
  ASSUME NEW c, ~Tainted(FilterTexts(c)), Readable(c),
         \A f \in ToSet(Items(c)) : f.form \in {"string", "fact", "dict", "malformed"}
  PROVE  ~Tainted(Source(c))
<1>1. CASE c.raw # Nil
  BY <1>1 DEF Tainted, FilterTexts, Source, Present
<1>2. CASE c.raw = Nil
  <2>1. Items(c) = c.facts /\ ~Present(c.raw)
    BY <1>2 DEF Items, Readable, Present
  <2>2. \A f \in ToSet(c.facts) : f.form # "dict" => Scanned(f) = f.text
    BY <1>2, <2>1 DEF Scanned, Readable
  <2>3. Source(c) \subseteq FilterTexts(c)
    BY <1>2, <2>1, <2>2 DEF Source, FilterTexts
  <2> QED
    BY <2>3 DEF Tainted
<1> QED
  BY <1>1, <1>2

\* The floor scans everything that a write is made of.
LEMMA FloorCoversSource ==
  ASSUME NEW c, ~Tainted(FloorTexts(c)), Readable(c)
  PROVE  ~Tainted(Source(c))
<1>1. CASE c.raw # Nil
  BY <1>1 DEF Tainted, FloorTexts, Source
<1>2. CASE c.raw = Nil
  BY <1>2 DEF Tainted, FloorTexts, Source, Items, Readable
<1> QED
  BY <1>1, <1>2

\* The floor scans everything that the filter does, once every dict is a Fact.
LEMMA FloorCoversFilter ==
  ASSUME NEW c, ~Tainted(FloorTexts(c)), Legible(c)
  PROVE  ~Tainted(FilterTexts(c))
  BY DEF Tainted, FilterTexts, FloorTexts, Scanned, Legible

LEMMA FilterStep == CallInv /\ FilterInv /\ [Next]_vars => FilterInv'
<1> SUFFICES ASSUME CallInv, FilterInv, [Next]_vars PROVE FilterInv'
  OBVIOUS
<1> USE DEF FilterInv, Filtered
<1>1. CASE MemoryWrite
  BY <1>1 DEF MemoryWrite
<1>2. CASE Write
  BY <1>2 DEF Write
<1>3. CASE Extract
  <2>1. pc' = "mask" => Readable(call)
    BY <1>3 DEF Extract, Readable, CallInv
  <2> QED
    BY <1>3, <2>1 DEF Extract, Ask
<1>4. CASE MaskFacts
  BY <1>4 DEF MaskFacts
<1>5. CASE Select
  BY <1>5 DEF Select
<1>6. CASE Plan
  BY <1>6 DEF Plan
<1>7. CASE UNCHANGED vars
  BY <1>7 DEF vars
<1> QED
  BY <1>1, <1>2, <1>3, <1>4, <1>5, <1>6, <1>7 DEF Next

-----------------------------------------------------------------------------
(* The tool's floor.                                                       *)

\* A call that has passed the floor is clean in every text it carries.
FloorInv ==
  call.entry = "mcp" =>
    /\ pc \notin {"memory_write", "bad_request"} => ~Tainted(FloorTexts(call))
    /\ \A a \in alerts : a.reason # "injection_pattern"

\* The tool hands on the texts it has scanned.
LEMMA FloorStep == CallInv /\ FloorInv /\ [Next]_vars => FloorInv'
<1> SUFFICES ASSUME CallInv, FloorInv, [Next]_vars, call'.entry = "mcp"
             PROVE  /\ pc' \notin {"memory_write", "bad_request"} => ~Tainted(FloorTexts(call'))
                    /\ \A a \in alerts' : a.reason # "injection_pattern"
  BY DEF FloorInv
<1> USE DEF FloorInv
<1>1. CASE MemoryWrite
  <2>1. CASE pc' = "bad_request" /\ UNCHANGED <<call, alerts>>
    BY <2>1
  <2>2. CASE Valid(call) /\ ~Tainted(FloorTexts(call)) /\ UNCHANGED alerts /\ call' = Handed(call)
    <3>1. FloorTexts(call') \subseteq FloorTexts(call) /\ call'.entry = call.entry
      BY <2>2, HandedOn DEF CallInv
    <3> QED
      BY <2>2, <3>1 DEF Tainted
  <2> QED
    BY <1>1, <2>1, <2>2 DEF MemoryWrite
<1>2. CASE Write
  <2>1. call' = call /\ ~Tainted(FilterTexts(call))
    BY <1>2, FloorCoversFilter DEF Write, CallInv
  <2> QED
    BY <1>2, <2>1 DEF Write
<1>3. CASE Extract
  BY <1>3 DEF Extract
<1>4. CASE MaskFacts
  BY <1>4 DEF MaskFacts
<1>5. CASE Select
  BY <1>5 DEF Select
<1>6. CASE Plan
  BY <1>6 DEF Plan
<1>7. CASE UNCHANGED vars
  BY <1>7 DEF vars
<1> QED
  BY <1>1, <1>2, <1>3, <1>4, <1>5, <1>6, <1>7 DEF Next

\* What the tool's injection floor lets through the manager's filter never
\* refuses: the caller sees bad_request, not an internal error
\* (tools.py:45-61, manager.py:112-128).
THEOREM FloorIsEnough == Spec => []FloorSuffices
<1>1. Init => CallInv /\ FloorInv
  BY CallInit DEF Init, FloorInv
<1>2. FloorInv => FloorSuffices
  BY DEF FloorInv, FloorSuffices
<1> QED
  BY <1>1, <1>2, CallStep, FloorStep, PTL DEF Spec

\* Behind the tool's floor, and behind the manager's filter while the policy has
\* it on, nothing is kept of a call whose raw text, strings or Fact objects the
\* filter finds a hit in; a library's dicts are outside it (tools.py:78-94,
\* manager.py:111-157).
THEOREM NothingTaintedKept == Spec => []NoTaintedFact
<1>1. Init => CallInv /\ FilterInv /\ FloorInv
  BY CallInit DEF Init, FilterInv, FloorInv, Filtered
<1>2. CallInv /\ FilterInv /\ FloorInv => NoTaintedFact
  <2> SUFFICES ASSUME CallInv, FilterInv, FloorInv, kept # <<>>, config.reject \/ call.entry = "mcp"
               PROVE  ~Tainted(Source(call))
    BY DEF NoTaintedFact, Source
  <2>1. pc \in {"plan", "done"} /\ Readable(call)
    BY DEF FilterInv, Filtered
  <2>2. CASE config.reject
    <3>1. ~Tainted(FilterTexts(call))
      BY <2>1, <2>2 DEF FilterInv, Filtered
    <3>2. \A f \in ToSet(Items(call)) : f.form \in {"string", "fact", "dict", "malformed"}
      <4>1. Items(call) \in Seq(GivenFacts)
        BY DEF CallInv, WriteCalls, Items
      <4>2. \A f \in ToSet(Items(call)) : f \in GivenFacts
        BY <4>1 DEF ToSet
      <4> QED
        BY <4>2 DEF GivenFacts
    <3> QED
      BY <2>1, <3>1, <3>2, SourceFiltered
  <2>3. CASE call.entry = "mcp"
    BY <2>1, <2>3, FloorCoversSource DEF FloorInv
  <2> QED
    BY <2>2, <2>3
<1> QED
  BY <1>1, <1>2, CallStep, FilterStep, FloorStep, PTL DEF Spec

-----------------------------------------------------------------------------
(* What the recursive functions are.                                       *)

\* out is what Dedupe has taken after each of the first n hits.
Taking(hits, n, out) ==
  out = [k \in 0..n |->
          IF k = 0 THEN <<>>
          ELSE IF \E g \in ToSet(out[k - 1]) :
                    Overlap(hits[Arranged(DOMAIN hits, WideFirst(hits))[k]], g)
          THEN out[k - 1]
          ELSE Append(out[k - 1], hits[Arranged(DOMAIN hits, WideFirst(hits))[k]])]

LEMMA DedupeIs ==
  ASSUME NEW hits
  PROVE  Dedupe(hits) = (CHOOSE out : Taking(hits, Len(hits), out))[Len(hits)]
  BY DEF Dedupe, Taking

LEMMA TakingExists ==
  ASSUME NEW hits, NEW n \in Nat
  PROVE  \E out : Taking(hits, n, out)
<1> DEFINE a == Arranged(DOMAIN hits, WideFirst(hits))
           F(s, k) == IF \E g \in ToSet(s) : Overlap(hits[a[k]], g) THEN s
                      ELSE Append(s, hits[a[k]])
           G(m, g) == g = [k \in 0..m |-> IF k = 0 THEN <<>> ELSE F(g[k - 1], k)]
           P == {m \in Nat : \E g : G(m, g)}
<1> HIDE DEF a, F
<1>1. 0 \in P
  <2>1. G(0, [k \in 0..0 |-> <<>>])
    OBVIOUS
  <2> QED
    BY <2>1
<1>2. ASSUME NEW m \in Nat, m \in P PROVE m + 1 \in P
  <2>1. PICK g : G(m, g)
    BY <1>2
  <2> DEFINE h == [k \in 0..(m + 1) |-> IF k = 0 THEN <<>> ELSE F(g[k - 1], k)]
  <2>2. \A k \in 0..m : h[k] = g[k]
    BY <2>1
  <2>3. \A k \in 0..(m + 1) : k # 0 => k - 1 \in 0..m
    OBVIOUS
  <2>4. h = [k \in 0..(m + 1) |-> IF k = 0 THEN <<>> ELSE F(h[k - 1], k)]
    <3>1. \A k \in 0..(m + 1) : k # 0 => h[k - 1] = g[k - 1]
      BY <2>2, <2>3
    <3> QED
      BY <3>1
  <2>5. G(m + 1, h)
    BY <2>4
  <2> HIDE DEF G, h
  <2> QED
    BY <2>5
<1>3. Nat \subseteq P
  <2> HIDE DEF P
  <2> QED
    BY <1>1, <1>2, Induction
<1>4. PICK g : G(n, g)
  BY <1>3
<1>5. Taking(hits, n, g)
  BY <1>4 DEF Taking, F, a
<1> QED
  BY <1>5

\* out is the text after each of the first n replacements, in the order a.
Masking(body, hits, a, n, out) ==
  out = [k \in 0..n |-> IF k = 0 THEN body ELSE Replace(out[k - 1], hits[a[k]])]

LEMMA MaskInOrderIs ==
  ASSUME NEW body, NEW hits, NEW R
  PROVE  MaskInOrder(body, hits, R) =
           (CHOOSE out : Masking(body, hits, Arranged(DOMAIN hits, R), Len(hits), out))[Len(hits)]
  BY DEF MaskInOrder, Masking

LEMMA MaskingExists ==
  ASSUME NEW body, NEW hits, NEW a, NEW n \in Nat
  PROVE  \E out : Masking(body, hits, a, n, out)
<1> DEFINE P == {m \in Nat : \E g : Masking(body, hits, a, m, g)}
<1>1. 0 \in P
  <2>1. Masking(body, hits, a, 0, [k \in 0..0 |-> body])
    BY DEF Masking
  <2> QED
    BY <2>1
<1>2. ASSUME NEW m \in Nat, m \in P PROVE m + 1 \in P
  <2>1. PICK g : Masking(body, hits, a, m, g)
    BY <1>2
  <2> DEFINE h == [k \in 0..(m + 1) |-> IF k = 0 THEN body ELSE Replace(g[k - 1], hits[a[k]])]
  <2>2. \A k \in 0..m : h[k] = g[k]
    BY <2>1 DEF Masking
  <2>3. \A k \in 0..(m + 1) : k # 0 => k - 1 \in 0..m
    OBVIOUS
  <2>4. h = [k \in 0..(m + 1) |-> IF k = 0 THEN body ELSE Replace(h[k - 1], hits[a[k]])]
    <3>1. \A k \in 0..(m + 1) : k # 0 => h[k - 1] = g[k - 1]
      BY <2>2, <2>3
    <3> QED
      BY <3>1
  <2>5. Masking(body, hits, a, m + 1, h)
    BY <2>4 DEF Masking
  <2> HIDE DEF h
  <2> QED
    BY <2>5
<1>3. Nat \subseteq P
  <2> HIDE DEF P
  <2> QED
    BY <1>1, <1>2, Induction
<1> QED
  BY <1>3

\* f is what the first sequences of s flatten to.
Flattening(s, n, f) == f = [i \in 1..n |-> IF i = 1 THEN s[i] ELSE f[i - 1] \o s[i]]

LEMMA FlattenIs ==
  ASSUME NEW s
  PROVE  FlattenSeq(s) = IF Len(s) = 0 THEN s ELSE (CHOOSE f : Flattening(s, Len(s), f))[Len(s)]
  BY DEF FlattenSeq, Flattening

LEMMA FlatteningExists ==
  ASSUME NEW s, NEW n \in Nat
  PROVE  \E f : Flattening(s, n, f)
<1> DEFINE P == {m \in Nat : \E g : Flattening(s, m, g)}
<1>1. 0 \in P
  <2>1. Flattening(s, 0, [i \in 1..0 |-> s])
    BY DEF Flattening
  <2> QED
    BY <2>1
<1>2. ASSUME NEW m \in Nat, m \in P PROVE m + 1 \in P
  <2>1. PICK g : Flattening(s, m, g)
    BY <1>2
  <2> DEFINE h == [i \in 1..(m + 1) |-> IF i = 1 THEN s[i] ELSE g[i - 1] \o s[i]]
  <2>2. \A i \in 1..m : h[i] = g[i]
    <3>1. \A i \in 1..m : g[i] = IF i = 1 THEN s[i] ELSE g[i - 1] \o s[i]
      BY <2>1, Zenon DEF Flattening
    <3>2. \A i \in 1..m : i \in 1..(m + 1)
      OBVIOUS
    <3> QED
      BY <3>1, <3>2
  <2>3. \A i \in 1..(m + 1) : i # 1 => i - 1 \in 1..m
    OBVIOUS
  <2>4. h = [i \in 1..(m + 1) |-> IF i = 1 THEN s[i] ELSE h[i - 1] \o s[i]]
    <3>1. \A i \in 1..(m + 1) : i # 1 => h[i - 1] = g[i - 1]
      BY <2>2, <2>3
    <3> QED
      BY <3>1
  <2>5. Flattening(s, m + 1, h)
    BY <2>4 DEF Flattening
  <2> HIDE DEF h
  <2> QED
    BY <2>5
<1>3. Nat \subseteq P
  <2> HIDE DEF P
  <2> QED
    BY <1>1, <1>2, Induction
<1> QED
  BY <1>3

LEMMA FlattenSteps ==
  ASSUME NEW s, Len(s) \in Nat \ {0}
  PROVE  \E f : Flattening(s, Len(s), f) /\ FlattenSeq(s) = f[Len(s)]
<1> DEFINE f == CHOOSE f : Flattening(s, Len(s), f)
<1>1. Flattening(s, Len(s), f)
  BY FlatteningExists
<1>2. FlattenSeq(s) = f[Len(s)]
  BY FlattenIs
<1> QED
  BY <1>1, <1>2

LEMMA DedupeSteps ==
  ASSUME NEW hits, Len(hits) \in Nat
  PROVE  \E out : Taking(hits, Len(hits), out) /\ Dedupe(hits) = out[Len(hits)]
<1> DEFINE out == CHOOSE out : Taking(hits, Len(hits), out)
<1>1. Taking(hits, Len(hits), out)
  BY TakingExists
<1>2. Dedupe(hits) = out[Len(hits)]
  BY DedupeIs
<1> QED
  BY <1>1, <1>2

LEMMA MaskSteps ==
  ASSUME NEW body, NEW hits, Len(hits) \in Nat
  PROVE  \E out : /\ Masking(body, hits, Arranged(DOMAIN hits, FromRight(hits)), Len(hits), out)
                  /\ Mask(body, hits) = out[Len(hits)]
<1> DEFINE a == Arranged(DOMAIN hits, FromRight(hits))
           out == CHOOSE out : Masking(body, hits, a, Len(hits), out)
<1>1. Masking(body, hits, a, Len(hits), out)
  BY MaskingExists
<1>2. Mask(body, hits) = out[Len(hits)]
  BY MaskInOrderIs DEF Mask
<1> QED
  BY <1>1, <1>2

\* What the sequences of s flatten to, one more at a time.
Flattens(s, n, F) ==
  /\ F[0] = <<>>
  /\ F[n] = FlattenSeq(s)
  /\ \A i \in 1..n : F[i] = F[i - 1] \o s[i]

LEMMA FlattenStepwise ==
  ASSUME NEW X, NEW n \in Nat, NEW s \in [1..n -> Seq(X)]
  PROVE  \E F : Flattens(s, n, F) /\ \A i \in 0..n : F[i] \in Seq(X)
<1>1. Len(s) = n
  OBVIOUS
<1>2. PICK F : F[0] = <<>> /\ F[n] = FlattenSeq(s) /\ \A i \in 1..n : F[i] = F[i - 1] \o s[i]
  <2>1. CASE n = 0
    <3> DEFINE F == [i \in 0..0 |-> <<>>]
    <3>1. s = <<>> /\ FlattenSeq(s) = s
      BY <1>1, <2>1, FlattenIs
    <3>2. F[0] = <<>> /\ F[n] = FlattenSeq(s) /\ \A i \in 1..n : F[i] = F[i - 1] \o s[i]
      BY <2>1, <3>1
    <3> QED
      BY <3>2
  <2>2. CASE n # 0
    <3>1. PICK f : Flattening(s, n, f) /\ FlattenSeq(s) = f[n]
      BY <1>1, <2>2, FlattenSteps
    <3> DEFINE F == [i \in 0..n |-> IF i = 0 THEN <<>> ELSE f[i]]
    <3>2. \A i \in 1..n : f[i] = IF i = 1 THEN s[i] ELSE f[i - 1] \o s[i]
      BY <3>1, Zenon DEF Flattening
    <3>3. F[0] = <<>> /\ F[n] = FlattenSeq(s)
      BY <2>2, <3>1
    <3>4. ASSUME NEW i \in 1..n PROVE F[i] = F[i - 1] \o s[i]
      <4>1. i \in 0..n /\ i - 1 \in 0..n /\ i # 0
        OBVIOUS
      <4>2. CASE i = 1
        <5>1. F[i] = s[1] /\ F[i - 1] = <<>>
          BY <3>2, <4>1, <4>2
        <5>2. s[1] \in Seq(X)
          BY <4>2
        <5> QED
          BY <4>2, <5>1, <5>2
      <4>3. CASE i # 1
        <5>1. F[i] = f[i] /\ F[i - 1] = f[i - 1]
          BY <4>1, <4>3
        <5> QED
          BY <3>2, <4>3, <5>1
      <4> QED
        BY <4>2, <4>3
    <3> HIDE DEF F
    <3> QED
      BY <3>3, <3>4
  <2> QED
    BY <2>1, <2>2
<1> DEFINE P == {k \in Nat : k \in 0..n => F[k] \in Seq(X)}
<1>3. 0 \in P
  <2>1. F[0] \in Seq(X)
    BY <1>2
  <2> QED
    BY <2>1
<1>4. ASSUME NEW k \in Nat, k \in P PROVE k + 1 \in P
  <2> SUFFICES ASSUME k + 1 \in 0..n PROVE F[k + 1] \in Seq(X)
    OBVIOUS
  <2>1. k \in 0..n /\ k + 1 \in 1..n /\ (k + 1) - 1 = k
    OBVIOUS
  <2>2. F[k + 1] = F[k] \o s[k + 1]
    BY <1>2, <2>1
  <2>3. F[k] \in Seq(X) /\ s[k + 1] \in Seq(X)
    BY <1>4, <2>1
  <2> QED
    BY <2>2, <2>3
<1>5. Nat \subseteq P
  <2> HIDE DEF P
  <2> QED
    BY <1>3, <1>4, Induction
<1>6. \A i \in 0..n : F[i] \in Seq(X)
  BY <1>5
<1> QED
  BY <1>2, <1>6 DEF Flattens

-----------------------------------------------------------------------------
(* What is extracted.                                                      *)

\* Facts as they are extracted: nothing of their text is replaced yet.
FreshFacts == {f \in Facts : f.body = Units(f.said)}

LEMMA AtTyped ==
  ASSUME NEW S, NEW s \in Seq(S), NEW I \in SUBSET DOMAIN s
  PROVE  /\ IsFiniteSet(I) /\ I \in SUBSET Nat
         /\ At(s, I) \in Seq(S) /\ Len(At(s, I)) = Cardinality(I)
         /\ \A k \in DOMAIN At(s, I) : /\ Order(I)[k] \in I
                                       /\ At(s, I)[k] = s[Order(I)[k]]
<1>1. DOMAIN s = 1..Len(s) /\ Len(s) \in Nat
  OBVIOUS
<1>2. IsFiniteSet(I) /\ I \in SUBSET Nat
  <2>1. IsFiniteSet(1..Len(s))
    BY <1>1, FS_Interval, 1 \in Int, Len(s) \in Int
  <2> QED
    BY <1>1, <2>1, FS_Subset
<1>3. /\ Cardinality(I) \in Nat
      /\ At(s, I) = [k \in 1..Cardinality(I) |-> s[Order(I)[k]]]
  BY <1>2, AtIs
<1>4. \A k \in 1..Cardinality(I) : Order(I)[k] \in I
  BY <1>2, OrderSorts DEF Arranges
<1>5. \A k \in 1..Cardinality(I) : s[Order(I)[k]] \in S
  BY <1>1, <1>4
<1>6. At(s, I) \in Seq(S) /\ Len(At(s, I)) = Cardinality(I)
  BY <1>3, <1>5
<1> QED
  BY <1>2, <1>3, <1>4, <1>6

LEMMA UnitsTyped ==
  ASSUME NEW s \in Sentences
  PROVE  Units(s) \in Seq([at : Nat, field : STRING \cup {Nil}]) /\ Len(Units(s)) = s.length
<1>1. s.length \in Nat
  BY DEF Sentences
<1> DEFINE U == [at : Nat, field : STRING \cup {Nil}]
           n == s.length
<1>2. \A i \in 1..n : Unit(i) \in U
  BY <1>1 DEF Unit
<1>3. Units(s) = [i \in 1..n |-> Unit(i)]
  BY DEF Units
<1> HIDE DEF U, n
<1>4. n \in Nat
  BY <1>1 DEF n
<1>5. Units(s) \in Seq(U) /\ Len(Units(s)) = n
  BY <1>2, <1>3, <1>4
<1> QED
  BY <1>5 DEF U, n

LEMMA NewFactFresh ==
  ASSUME NEW item \in Nat, NEW s \in Sentences, NEW type \in Types, NEW entities \in BOOLEAN,
         NEW confidence \in 0..100
  PROVE  NewFact(item, s, type, entities, confidence) \in FreshFacts
<1>1. NewFact(item, s, type, entities, confidence) \in Facts
  BY UnitsTyped DEF NewFact, Facts
<1>2. NewFact(item, s, type, entities, confidence).body = Units(s)
  BY DEF NewFact
<1>3. NewFact(item, s, type, entities, confidence).said = s
  BY DEF NewFact
<1> QED
  BY <1>1, <1>2, <1>3 DEF FreshFacts

LEMMA SpokenTyped ==
  ASSUME NEW t \in Texts \cup {Empty}
  PROVE  Spoken(t) \in Seq(Sentences)
<1>1. CASE t = Empty
  BY <1>1 DEF Spoken
<1>2. CASE t # Empty
  <2>1. t.sentences \in Seq(Sentences)
    BY <1>2 DEF Texts
  <2> DEFINE I == {i \in DOMAIN t.sentences : ~t.sentences[i].noise}
  <2>2. At(t.sentences, I) \in Seq(Sentences)
    BY <2>1, AtTyped
  <2> QED
    BY <1>2, <2>2 DEF Spoken
<1> QED
  BY <1>1, <1>2

LEMMA SentenceTyped ==
  ASSUME NEW s \in Sentences
  PROVE  /\ s.length \in Nat /\ s.hits \in Seq(Hits) /\ s.presidio \in Seq(Hits)
         /\ s.cue \in Types /\ s.entities \in BOOLEAN
         /\ s.fuzzy.type \in Types /\ s.fuzzy.score \in 0..100
         /\ \A h \in ToSet(s.hits) \cup ToSet(s.presidio) : h.first <= h.last /\ h.last <= s.length
  BY DEF Sentences

LEMMA RuleBasedFresh ==
  ASSUME NEW item \in Nat, NEW t \in Texts \cup {Empty}
  PROVE  RuleBased(item, t) \in Seq(FreshFacts) /\ Len(RuleBased(item, t)) = Len(Spoken(t))
<1>1. Spoken(t) \in Seq(Sentences)
  BY SpokenTyped
<1>2. ASSUME NEW s \in Sentences
      PROVE  NewFact(item, s, s.cue, s.entities, RuleConfidence(s)) \in FreshFacts
  <2>1. RuleConfidence(s) \in 0..100
    BY DEF RuleConfidence
  <2> QED
    BY <2>1, SentenceTyped, NewFactFresh
<1> DEFINE n == Len(Spoken(t))
<1>3. n \in Nat /\ DOMAIN Spoken(t) = 1..n /\ \A i \in 1..n : Spoken(t)[i] \in Sentences
  BY <1>1
<1>4. RuleBased(item, t) =
        [i \in 1..n |-> NewFact(item, Spoken(t)[i], Spoken(t)[i].cue, Spoken(t)[i].entities,
                                RuleConfidence(Spoken(t)[i]))]
  BY <1>3 DEF RuleBased
<1> HIDE DEF n
<1> QED
  BY <1>2, <1>3, <1>4 DEF n

LEMMA HybridFresh ==
  ASSUME NEW t \in Texts \cup {Empty}
  PROVE  Hybrid(t) \in Seq(FreshFacts)
<1>1. Spoken(t) \in Seq(Sentences)
  BY SpokenTyped
<1>2. ASSUME NEW s \in Sentences
      PROVE  HybridFact(s) \in FreshFacts
  <2>1. RuleConfidence(s) \in 0..100
    BY DEF RuleConfidence
  <2>2. 55 + (40 * s.fuzzy.score) \div 100 \in 0..100
    <3> DEFINE x == s.fuzzy.score
    <3>1. x \in 0..100
      BY SentenceTyped
    <3> HIDE DEF x
    <3>2. (40 * x) \div 100 \in 0..40
      BY <3>1
    <3> QED
      BY <3>2 DEF x
  <2>3. NewFact(0, s, s.cue, s.entities, RuleConfidence(s)) \in FreshFacts
    BY <2>1, SentenceTyped, NewFactFresh
  <2>4. NewFact(0, s, s.fuzzy.type, s.entities, 55 + (40 * s.fuzzy.score) \div 100) \in FreshFacts
    BY <2>2, SentenceTyped, NewFactFresh
  <2> QED
    BY <2>3, <2>4, Zenon DEF HybridFact
<1> DEFINE n == Len(Spoken(t))
<1>3. n \in Nat /\ DOMAIN Spoken(t) = 1..n /\ \A i \in 1..n : Spoken(t)[i] \in Sentences
  BY <1>1
<1>4. Hybrid(t) = [i \in 1..n |-> HybridFact(Spoken(t)[i])]
  BY <1>3 DEF Hybrid
<1> HIDE DEF n
<1> QED
  BY <1>2, <1>3, <1>4

\* An item leaves facts of its own, at least one.
LEMMA FromItemFresh ==
  ASSUME NEW i \in Nat, NEW f \in GivenFacts
  PROVE  /\ FromItem(i, f) \in Seq(FreshFacts) /\ Len(FromItem(i, f)) \in Nat \ {0}
         /\ \A k \in 1..Len(FromItem(i, f)) : FromItem(i, f)[k].item = i
<1>1. f.text \in Texts /\ f.text.whole \in Sentences
  BY DEF GivenFacts, Texts
<1>2. f.type \in Types /\ f.entities \in BOOLEAN /\ f.confidence \in 0..100
  BY DEF GivenFacts
<1>3. CASE f.form \in {"fact", "dict"}
  <2> DEFINE g == NewFact(i, f.text.whole, f.type, f.entities, f.confidence)
  <2>1. g \in FreshFacts
    BY <1>1, <1>2, NewFactFresh
  <2>2. g.item = i
    BY DEF NewFact
  <2>3. FromItem(i, f) = <<g>>
    BY <1>3 DEF FromItem
  <2> HIDE DEF g
  <2> QED
    BY <2>1, <2>2, <2>3
<1>4. CASE f.form \notin {"fact", "dict"} /\ Spoken(f.text) # <<>>
  <2>1. FromItem(i, f) = RuleBased(i, f.text)
    BY <1>4 DEF FromItem
  <2>2. RuleBased(i, f.text) \in Seq(FreshFacts)
    BY <1>1, RuleBasedFresh
  <2>3. Len(RuleBased(i, f.text)) # 0
    <3>1. Spoken(f.text) \in Seq(Sentences)
      BY <1>1, SpokenTyped
    <3>2. Len(Spoken(f.text)) # 0
      BY <1>4, <3>1
    <3> QED
      BY <1>1, <3>2, RuleBasedFresh
  <2>4. \A k \in DOMAIN RuleBased(i, f.text) : RuleBased(i, f.text)[k].item = i
    BY DEF RuleBased, NewFact
  <2> QED
    BY <2>1, <2>2, <2>3, <2>4
<1>5. CASE f.form \notin {"fact", "dict"} /\ Spoken(f.text) = <<>>
  <2> DEFINE g == NewFact(i, f.text.whole, "event", FALSE, 90)
  <2>1. g \in FreshFacts
    <3>1. "event" \in Types
      BY DEF Types
    <3>2. 90 \in 0..100 /\ FALSE \in BOOLEAN
      OBVIOUS
    <3> QED
      BY <1>1, <3>1, <3>2, NewFactFresh, Zenon
  <2>2. g.item = i
    BY DEF NewFact
  <2>3. FromItem(i, f) = <<g>>
    BY <1>5 DEF FromItem
  <2> HIDE DEF g
  <2> QED
    BY <2>1, <2>2, <2>3
<1> QED
  BY <1>3, <1>4, <1>5

\* What a facts list of n items leaves: facts of every item, in their order.
ItemsIn(w, n) ==
  /\ w \in Seq(FreshFacts)
  /\ \A k \in 1..n : \E i \in 1..Len(w) : w[i].item = k
  /\ \A i \in 1..Len(w) : w[i].item \in 1..n
  /\ \A i, j \in 1..Len(w) : i < j => w[i].item <= w[j].item

LEMMA FromItemsFresh ==
  ASSUME NEW facts \in Seq(GivenFacts)
  PROVE  ItemsIn(FromItems(facts), Len(facts))
<1> DEFINE s == [i \in DOMAIN facts |-> FromItem(i, facts[i])]
           n == Len(facts)
<1>1. n \in Nat /\ s = [i \in 1..n |-> FromItem(i, facts[i])] /\ \A i \in 1..n : facts[i] \in GivenFacts
  OBVIOUS
<1> HIDE DEF s
<1>2. \A i \in 1..n : /\ s[i] \in Seq(FreshFacts) /\ Len(s[i]) \in Nat \ {0}
                      /\ \A k \in 1..Len(s[i]) : s[i][k].item = i
  <2> SUFFICES ASSUME NEW i \in 1..n
               PROVE  /\ s[i] \in Seq(FreshFacts) /\ Len(s[i]) \in Nat \ {0}
                      /\ \A k \in 1..Len(s[i]) : s[i][k].item = i
    OBVIOUS
  <2> DEFINE g == facts[i]
  <2>1. g \in GivenFacts /\ i \in Nat
    BY <1>1
  <2>2. s[i] = FromItem(i, g)
    BY <1>1
  <2> HIDE DEF g
  <2>3. /\ FromItem(i, g) \in Seq(FreshFacts) /\ Len(FromItem(i, g)) \in Nat \ {0}
        /\ \A k \in 1..Len(FromItem(i, g)) : FromItem(i, g)[k].item = i
    BY <2>1, FromItemFresh, Zenon
  <2> QED
    BY <2>2, <2>3, Zenon
<1>3. s \in [1..n -> Seq(FreshFacts)]
  BY <1>1, <1>2
<1>4. FromItems(facts) = FlattenSeq(s)
  BY DEF FromItems, s
<1> HIDE DEF n
<1>5. PICK F : Flattens(s, n, F) /\ \A i \in 0..n : F[i] \in Seq(FreshFacts)
  BY <1>1, <1>3, FlattenStepwise
<1> DEFINE P == {k \in Nat : k \in 0..n => ItemsIn(F[k], k)}
<1>6. 0 \in P
  BY <1>5 DEF Flattens, ItemsIn
<1>7. ASSUME NEW k \in Nat, k \in P PROVE k + 1 \in P
  <2> SUFFICES ASSUME k + 1 \in 0..n PROVE ItemsIn(F[k + 1], k + 1)
    OBVIOUS
  <2>0. k \in 0..n /\ k + 1 \in 1..n
    BY <1>1
  <2> DEFINE u == F[k]
             v == s[k + 1]
  <2>1. ItemsIn(u, k)
    BY <2>0, <1>7
  <2>2. F[k + 1] = u \o v
    <3>1. (k + 1) - 1 = k
      OBVIOUS
    <3> QED
      BY <1>5, <2>0, <3>1 DEF Flattens
  <2>3. v \in Seq(FreshFacts) /\ Len(v) \in Nat \ {0} /\ \A i \in 1..Len(v) : v[i].item = k + 1
    BY <1>2, <2>0
  <2> HIDE DEF u, v, P
  <2>4. u \in Seq(FreshFacts)
    BY <2>1 DEF ItemsIn
  <2> DEFINE w == u \o v
  <2>5. /\ w \in Seq(FreshFacts) /\ Len(w) = Len(u) + Len(v)
        /\ \A i \in 1..Len(u) : w[i] = u[i]
        /\ \A i \in 1..Len(w) : i > Len(u) => i - Len(u) \in 1..Len(v) /\ w[i] = v[i - Len(u)]
    BY <2>3, <2>4
  <2> HIDE DEF w
  <2>6. Len(u) \in Nat /\ Len(v) \in Nat /\ k \in Nat
    BY <2>3, <2>4
  <2>7. \A i \in 1..Len(w) : i <= Len(u) => i \in 1..Len(u) /\ w[i].item = u[i].item
    BY <2>5, <2>6
  <2>8. \A i \in 1..Len(w) : i > Len(u) => w[i].item = k + 1
    BY <2>3, <2>5
  <2>9. \A i \in 1..Len(u) : u[i].item \in 1..k
    BY <2>1 DEF ItemsIn
  <2>10. \A i \in 1..Len(w) : w[i].item \in 1..(k + 1)
    BY <2>6, <2>7, <2>8, <2>9
  <2>11. \A i, j \in 1..Len(w) : i < j => w[i].item <= w[j].item
    <3> SUFFICES ASSUME NEW i \in 1..Len(w), NEW j \in 1..Len(w), i < j
                 PROVE  w[i].item <= w[j].item
      OBVIOUS
    <3>1. CASE j > Len(u)
      BY <3>1, <2>6, <2>8, <2>10
    <3>2. CASE ~(j > Len(u))
      <4>1. i \in 1..Len(u) /\ j \in 1..Len(u)
        BY <3>2, <2>5, <2>6
      <4> QED
        BY <4>1, <2>1, <2>5 DEF ItemsIn
    <3> QED
      BY <3>1, <3>2
  <2>12. \A m \in 1..(k + 1) : \E i \in 1..Len(w) : w[i].item = m
    <3> SUFFICES ASSUME NEW m \in 1..(k + 1) PROVE \E i \in 1..Len(w) : w[i].item = m
      OBVIOUS
    <3>1. CASE m = k + 1
      <4>1. Len(u) + 1 \in 1..Len(w) /\ Len(u) + 1 > Len(u)
        BY <2>3, <2>5, <2>6
      <4> QED
        BY <3>1, <4>1, <2>8
    <3>2. CASE m # k + 1
      <4>1. m \in 1..k
        BY <3>2, <2>6
      <4>2. PICK i \in 1..Len(u) : u[i].item = m
        BY <4>1, <2>1 DEF ItemsIn
      <4>3. i \in 1..Len(w) /\ w[i] = u[i]
        BY <4>2, <2>5, <2>6
      <4> QED
        BY <4>2, <4>3
    <3> QED
      BY <3>1, <3>2
  <2> QED
    BY <2>2, <2>5, <2>10, <2>11, <2>12 DEF ItemsIn, w
<1>8. Nat \subseteq P
  <2> HIDE DEF P
  <2> QED
    BY <1>6, <1>7, Induction
<1>9. ItemsIn(F[n], n)
  BY <1>1, <1>8
<1> QED
  BY <1>4, <1>5, <1>9 DEF Flattens, n

-----------------------------------------------------------------------------
(* Masking.                                                                *)

Marks == [at : Nat, field : STRING \cup {Nil}]

\* The hits a detector may report of a text of length n.
Within(hits, n) ==
  hits \in Seq(Hits) /\ \A i \in DOMAIN hits : hits[i].first <= hits[i].last /\ hits[i].last <= n

LEMMA HitTyped ==
  ASSUME NEW hits, NEW n \in Nat, Within(hits, n), NEW i \in DOMAIN hits
  PROVE  /\ hits[i] \in Hits
         /\ hits[i].first \in Nat \ {0} /\ hits[i].last \in Nat /\ hits[i].field \in STRING
         /\ hits[i].first <= hits[i].last /\ hits[i].last <= n
<1>1. hits[i] \in Hits
  BY DEF Within
<1>2. hits[i].first \in Nat \ {0} /\ hits[i].last \in Nat /\ hits[i].field \in STRING
  BY <1>1 DEF Hits
<1> QED
  BY <1>1, <1>2 DEF Within

LEMMA DomainFinite ==
  ASSUME NEW X, NEW s \in Seq(X)
  PROVE  /\ IsFiniteSet(DOMAIN s) /\ Cardinality(DOMAIN s) = Len(s)
         /\ Len(s) \in Nat /\ DOMAIN s = 1..Len(s)
<1>1. Len(s) \in Nat /\ DOMAIN s = 1..Len(s)
  OBVIOUS
<1> DEFINE n == Len(s)
<1> HIDE DEF n
<1>2. 1 \in Int /\ n \in Int
  BY <1>1 DEF n
<1>3. IsFiniteSet(1..n) /\ Cardinality(1..n) = IF 1 > n THEN 0 ELSE n - 1 + 1
  BY <1>2, FS_Interval
<1>4. Cardinality(1..n) = n
  BY <1>1, <1>3 DEF n
<1> QED
  BY <1>1, <1>3, <1>4 DEF n

LEMMA HitPlaces ==
  ASSUME NEW hits \in Seq(Hits)
  PROVE  /\ \A i \in DOMAIN hits : i \in Int /\ hits[i].first \in Int /\ hits[i].last \in Int
<1> SUFFICES ASSUME NEW i \in DOMAIN hits
             PROVE  i \in Int /\ hits[i].first \in Int /\ hits[i].last \in Int
  OBVIOUS
<1>1. DOMAIN hits = 1..Len(hits) /\ Len(hits) \in Nat
  OBVIOUS
<1>2. i \in Int
  BY <1>1
<1>3. hits[i] \in Hits
  BY <1>1
<1> DEFINE h == hits[i]
<1> HIDE DEF h
<1>4. h.first \in Int /\ h.last \in Int
  BY <1>3 DEF Hits, h
<1> QED
  BY <1>2, <1>4 DEF h

LEMMA WideFirstOrders ==
  ASSUME NEW hits \in Seq(Hits)
  PROVE  Orders(WideFirst(hits), DOMAIN hits)
<1>1. \A i \in DOMAIN hits : hits[i].first \in Int /\ hits[i].last \in Int /\ i \in Int
  BY HitPlaces
<1>2. \A i, j \in DOMAIN hits :
        <<i, j>> \in WideFirst(hits) <=>
          \/ hits[i].first < hits[j].first
          \/ hits[i].first = hits[j].first /\ hits[i].last > hits[j].last
          \/ hits[i].first = hits[j].first /\ hits[i].last = hits[j].last /\ i < j
  BY DEF WideFirst
<1> DEFINE D == DOMAIN hits
           R == WideFirst(hits)
           B(i) == hits[i].first
           E(i) == hits[i].last
<1>3. /\ \A i \in D : B(i) \in Int /\ E(i) \in Int /\ i \in Int
      /\ \A i, j \in D :
           <<i, j>> \in R <=>
             \/ B(i) < B(j)
             \/ B(i) = B(j) /\ E(i) > E(j)
             \/ B(i) = B(j) /\ E(i) = E(j) /\ i < j
  BY <1>1, <1>2
<1> HIDE DEF D, R, B, E
<1>4. \A i \in D : <<i, i>> \notin R
  BY <1>3
<1>5. ASSUME NEW i \in D, NEW j \in D PROVE <<i, j>> \in R \/ <<j, i>> \in R \/ i = j
  <2> DEFINE bi == B(i)
             bj == B(j)
             ei == E(i)
             ej == E(j)
  <2>1. bi \in Int /\ bj \in Int /\ ei \in Int /\ ej \in Int /\ i \in Int /\ j \in Int
    BY <1>3
  <2>2. <<i, j>> \in R <=> bi < bj \/ (bi = bj /\ ei > ej) \/ (bi = bj /\ ei = ej /\ i < j)
    BY <1>3
  <2>3. <<j, i>> \in R <=> bj < bi \/ (bj = bi /\ ej > ei) \/ (bj = bi /\ ej = ei /\ j < i)
    BY <1>3
  <2> HIDE DEF bi, bj, ei, ej
  <2> QED
    BY <2>1, <2>2, <2>3
<1>6. \A i, j, k \in D : <<i, j>> \in R /\ <<j, k>> \in R => <<i, k>> \in R
  BY <1>3
<1> QED
  BY <1>4, <1>5, <1>6 DEF Orders, D, R

LEMMA FromRightOrders ==
  ASSUME NEW hits \in Seq(Hits)
  PROVE  /\ Orders(FromRight(hits), DOMAIN hits)
         /\ \A i, j \in DOMAIN hits :
              <<i, j>> \in FromRight(hits) => hits[i].first >= hits[j].first
<1>1. \A i \in DOMAIN hits : hits[i].first \in Int /\ i \in Int
  BY HitPlaces
<1>2. \A i, j \in DOMAIN hits :
        <<i, j>> \in FromRight(hits) <=>
          \/ hits[i].first > hits[j].first
          \/ hits[i].first = hits[j].first /\ i < j
  BY DEF FromRight
<1> QED
  BY <1>1, <1>2 DEF Orders

LEMMA DedupeKeeps ==
  ASSUME NEW hits, NEW n \in Nat, Within(hits, n)
  PROVE  Within(Dedupe(hits), n) /\ Disjoint(Dedupe(hits))
<1> DEFINE m == Len(hits)
           a == Arranged(DOMAIN hits, WideFirst(hits))
           Good(s) == Within(s, n) /\ Disjoint(s)
<1>1. hits \in Seq(Hits)
  BY DEF Within
<1>2. IsFiniteSet(DOMAIN hits) /\ Cardinality(DOMAIN hits) = m /\ m \in Nat /\ DOMAIN hits = 1..m
  BY <1>1, DomainFinite
<1>3. a \in [1..m -> DOMAIN hits]
  BY <1>1, <1>2, WideFirstOrders, ArrangedSorts DEF Arranges
<1>4. PICK out : Taking(hits, m, out) /\ Dedupe(hits) = out[m]
  BY <1>2, DedupeSteps
<1>5. \A k \in 0..m : out[k] = IF k = 0 THEN <<>>
                              ELSE IF \E g \in ToSet(out[k - 1]) : Overlap(hits[a[k]], g)
                              THEN out[k - 1] ELSE Append(out[k - 1], hits[a[k]])
  BY <1>4, Zenon DEF Taking
<1> HIDE DEF m, a
<1>6. Good(<<>>)
  BY DEF Within, Disjoint
<1>7. ASSUME NEW s, Good(s), NEW h \in Hits, h.first <= h.last, h.last <= n,
             ~ \E g \in ToSet(s) : Overlap(h, g)
      PROVE  Good(Append(s, h))
  <2>1. s \in Seq(Hits) /\ Len(s) \in Nat /\ DOMAIN s = 1..Len(s)
    BY <1>7 DEF Within
  <2> DEFINE t == Append(s, h)
  <2>2. /\ t \in Seq(Hits) /\ DOMAIN t = 1..(Len(s) + 1)
        /\ \A i \in 1..Len(s) : t[i] = s[i]
        /\ t[Len(s) + 1] = h
    BY <2>1
  <2> HIDE DEF t
  <2>3. \A i \in DOMAIN t : i \in 1..Len(s) \/ i = Len(s) + 1
    BY <2>1, <2>2
  <2>4. Within(t, n)
    BY <1>7, <2>1, <2>2, <2>3 DEF Within
  <2>5. \A i \in 1..Len(s) : ~Overlap(h, s[i])
    BY <1>7, <2>1 DEF ToSet
  <2>6. \A i \in 1..Len(s) : ~Overlap(h, t[i]) /\ ~Overlap(t[i], h)
    BY <2>2, <2>5 DEF Overlap
  <2>7. \A i, j \in 1..Len(s) : i # j => ~Overlap(t[i], t[j])
    BY <1>7, <2>1, <2>2 DEF Disjoint
  <2>8. Disjoint(t)
    BY <2>2, <2>3, <2>6, <2>7 DEF Disjoint
  <2> QED
    BY <2>4, <2>8 DEF t
<1> DEFINE P == {k \in Nat : k \in 0..m => Good(out[k])}
<1> HIDE DEF Good
<1>8. 0 \in P
  BY <1>2, <1>5, <1>6
<1>9. ASSUME NEW k \in Nat, k \in P PROVE k + 1 \in P
  <2> SUFFICES ASSUME k + 1 \in 0..m PROVE Good(out[k + 1])
    OBVIOUS
  <2>1. k \in 0..m /\ k + 1 \in 1..m /\ k + 1 # 0 /\ (k + 1) - 1 = k
    BY <1>2
  <2> DEFINE h == hits[a[k + 1]]
             s == out[k]
  <2>2. Good(s)
    BY <1>9, <2>1
  <2>3. out[k + 1] = IF \E g \in ToSet(s) : Overlap(h, g) THEN s ELSE Append(s, h)
    BY <1>5, <2>1
  <2>4. h \in Hits /\ h.first <= h.last /\ h.last <= n
    <3>1. a[k + 1] \in DOMAIN hits
      BY <1>3, <2>1
    <3> QED
      BY <3>1, HitTyped
  <2> HIDE DEF h, s
  <2> QED
    BY <1>7, <2>2, <2>3, <2>4
<1>10. Nat \subseteq P
  <2> HIDE DEF P
  <2> QED
    BY <1>8, <1>9, Induction
<1>11. Good(out[m])
  BY <1>2, <1>10
<1> QED
  BY <1>4, <1>11 DEF Good

LEMMA DetectWithin ==
  ASSUME NEW s \in Sentences, config.presidio \in BOOLEAN
  PROVE  Within(Detect(s), s.length) /\ (config.presidio => Disjoint(Detect(s)))
<1>1. /\ s.hits \in Seq(Hits) /\ s.presidio \in Seq(Hits) /\ s.length \in Nat
      /\ \A h \in ToSet(s.hits) \cup ToSet(s.presidio) : h.first <= h.last /\ h.last <= s.length
  BY SentenceTyped
<1>2. Within(s.hits, s.length)
  BY <1>1 DEF Within, ToSet
<1>3. Within(s.presidio, s.length)
  BY <1>1 DEF Within, ToSet
<1> DEFINE both == s.hits \o s.presidio
           a == s.hits
           b == s.presidio
<1>4. /\ both \in Seq(Hits) /\ Len(both) = Len(a) + Len(b)
      /\ \A i \in DOMAIN both : \/ i \in DOMAIN a /\ both[i] = a[i]
                                \/ i - Len(a) \in DOMAIN b /\ both[i] = b[i - Len(a)]
  <2>1. a \in Seq(Hits) /\ b \in Seq(Hits) /\ both = a \o b
    BY <1>1
  <2> HIDE DEF a, b, both
  <2> QED
    BY <2>1
<1> HIDE DEF both
<1>5. Within(both, s.length)
  BY <1>2, <1>3, <1>4 DEF Within
<1>6. Within(Dedupe(both), s.length) /\ Disjoint(Dedupe(both))
  BY <1>1, <1>5, DedupeKeeps
<1> QED
  BY <1>2, <1>6 DEF Detect, both

LEMMA RenderTyped ==
  ASSUME NEW h \in Hits
  PROVE  Render(h) \in Seq(Marks) /\ Len(Render(h)) = Placeholder
<1>1. Placeholder \in Nat \ {0}
  BY IntakeAssumption
<1>2. [at |-> 0, field |-> h.field] \in Marks
  BY DEF Hits, Marks
<1> HIDE DEF Marks
<1> DEFINE p == Placeholder
           u == [at |-> 0, field |-> h.field]
<1>3. Render(h) = [i \in 1..p |-> u]
  BY DEF Render
<1>4. p \in Nat /\ u \in Marks
  BY <1>1, <1>2
<1> HIDE DEF p, u
<1>5. Render(h) \in Seq(Marks) /\ Len(Render(h)) = p
  BY <1>3, <1>4
<1> QED
  BY <1>5 DEF p

LEMMA ReplaceTyped ==
  ASSUME NEW body \in Seq(Marks), NEW h \in Hits, h.first <= h.last, h.first - 1 <= Len(body)
  PROVE  Replace(body, h) \in Seq(Marks) /\ h.first - 1 <= Len(Replace(body, h))
<1> DEFINE l == SubSeq(body, 1, h.first - 1)
           r == SubSeq(body, h.last + 1, Len(body))
           p == Render(h)
<1>1. h.first \in Nat \ {0} /\ h.last \in Nat /\ Len(body) \in Nat
  BY DEF Hits
<1> HIDE DEF Marks
<1>2. l \in Seq(Marks) /\ Len(l) = h.first - 1
  BY <1>1, SubSeqProperties
<1>3. r \in Seq(Marks)
  BY <1>1, SubSeqProperties
<1>4. p \in Seq(Marks)
  BY RenderTyped
<1>5. Replace(body, h) = l \o p \o r
  BY DEF Replace
<1> HIDE DEF l, r, p
<1> QED
  BY <1>1, <1>2, <1>3, <1>4, <1>5

LEMMA MaskTyped ==
  ASSUME NEW body \in Seq(Marks), NEW hits, Within(hits, Len(body))
  PROVE  Mask(body, hits) \in Seq(Marks)
<1> DEFINE m == Len(hits)
           a == Arranged(DOMAIN hits, FromRight(hits))
           Good(t, k) == /\ t \in Seq(Marks)
                         /\ \A j \in (k + 1)..m : hits[a[j]].first - 1 <= Len(t)
<1>1. hits \in Seq(Hits) /\ Len(body) \in Nat
  BY DEF Within
<1>2. IsFiniteSet(DOMAIN hits) /\ Cardinality(DOMAIN hits) = m /\ m \in Nat /\ DOMAIN hits = 1..m
  BY <1>1, DomainFinite
<1>3. Arranges(a, DOMAIN hits, FromRight(hits))
  BY <1>1, <1>2, FromRightOrders, ArrangedSorts
<1>4. a \in [1..m -> DOMAIN hits]
  BY <1>2, <1>3 DEF Arranges
<1>5. \A i, j \in 1..m : i < j => hits[a[i]].first >= hits[a[j]].first
  BY <1>1, <1>2, <1>3, <1>4, FromRightOrders DEF Arranges
<1>6. PICK out : Masking(body, hits, a, m, out) /\ Mask(body, hits) = out[m]
  BY <1>2, MaskSteps
<1>7. \A k \in 0..m : out[k] = IF k = 0 THEN body ELSE Replace(out[k - 1], hits[a[k]])
  BY <1>6, Zenon DEF Masking
<1> HIDE DEF m, a, Marks
<1>8. \A j \in 1..m : /\ hits[a[j]] \in Hits /\ hits[a[j]].first \in Nat /\ hits[a[j]].last \in Nat
                      /\ hits[a[j]].first <= hits[a[j]].last /\ hits[a[j]].last <= Len(body)
  BY <1>1, <1>4, HitTyped
<1> DEFINE P == {k \in Nat : k \in 0..m => Good(out[k], k)}
<1>9. 0 \in P
  <2>1. Good(body, 0)
    BY <1>1, <1>8
  <2> QED
    BY <1>2, <1>7, <2>1
<1>10. ASSUME NEW k \in Nat, k \in P PROVE k + 1 \in P
  <2> SUFFICES ASSUME k + 1 \in 0..m PROVE Good(out[k + 1], k + 1)
    OBVIOUS
  <2>1. k \in 0..m /\ k + 1 \in 1..m /\ k + 1 # 0 /\ (k + 1) - 1 = k
    BY <1>2
  <2> DEFINE h == hits[a[k + 1]]
             t == out[k]
  <2>2. Good(t, k)
    BY <1>10, <2>1
  <2>3. out[k + 1] = Replace(t, h)
    BY <1>7, <2>1
  <2>4. h \in Hits /\ h.first <= h.last /\ h.first - 1 <= Len(t) /\ h.first \in Nat
    <3>1. k + 1 \in (k + 1)..m
      BY <1>2, <2>1
    <3> QED
      BY <1>8, <2>1, <2>2, <3>1
  <2>5. \A j \in (k + 2)..m : hits[a[j]].first <= h.first /\ hits[a[j]].first \in Nat
    <3>1. \A j \in (k + 2)..m : j \in 1..m /\ k + 1 < j
      BY <1>2
    <3> QED
      BY <1>5, <1>8, <2>1, <3>1
  <2> HIDE DEF h, t
  <2>6. Replace(t, h) \in Seq(Marks) /\ h.first - 1 <= Len(Replace(t, h))
    BY <2>2, <2>4, ReplaceTyped
  <2>7. Len(Replace(t, h)) \in Nat /\ (k + 1) + 1 = k + 2
    BY <2>6
  <2> QED
    BY <2>3, <2>4, <2>5, <2>6, <2>7
<1>11. Nat \subseteq P
  <2> HIDE DEF P
  <2> QED
    BY <1>9, <1>10, Induction
<1>12. Good(out[m], m)
  BY <1>2, <1>11
<1> QED
  BY <1>6, <1>12

-----------------------------------------------------------------------------
(* Masking replaces exactly the hits.                                      *)

\* The units i + 1 .. j of a text.
Span(i, j) == [k \in 1..(j - i) |-> Unit(i + k)]

LEMMA SpanTyped ==
  ASSUME NEW i \in Nat, NEW j \in Nat, i <= j
  PROVE  /\ Span(i, j) \in Seq(Marks) /\ Len(Span(i, j)) = j - i
         /\ \A k \in 1..(j - i) : Span(i, j)[k] = Unit(i + k)
<1>1. \A k \in 1..(j - i) : Unit(i + k) \in Marks
  BY DEF Unit, Marks
<1> HIDE DEF Marks
<1> DEFINE n == j - i
<1>2. n \in Nat /\ Span(i, j) = [k \in 1..n |-> Unit(i + k)]
  BY DEF Span
<1>3. \A k \in 1..n : Unit(i + k) \in Marks
  BY <1>1
<1> HIDE DEF n
<1>4. Span(i, j) \in Seq(Marks) /\ Len(Span(i, j)) = n /\ \A k \in 1..n : Span(i, j)[k] = Unit(i + k)
  BY <1>2, <1>3
<1> QED
  BY <1>4 DEF n

LEMMA FirstUnits ==
  ASSUME NEW m \in Nat
  PROVE  /\ Span(0, m) \in Seq(Marks) /\ Len(Span(0, m)) = m
         /\ \A k \in 1..m : Span(0, m)[k] = Unit(k)
<1>1. Span(0, m) = [k \in 1..m |-> Unit(k)]
  BY DEF Span
<1>2. \A k \in 1..m : Unit(k) \in Marks
  BY DEF Unit, Marks
<1> HIDE DEF Marks
<1> QED
  BY <1>1, <1>2

\* Two sequences that agree everywhere.
LEMMA SameSeq ==
  ASSUME NEW S, NEW s \in Seq(S), NEW t \in Seq(S), Len(s) = Len(t),
         \A i \in 1..Len(s) : s[i] = t[i]
  PROVE  s = t
  OBVIOUS

LEMMA SpanAdd ==
  ASSUME NEW i \in Nat, NEW j \in Nat, i <= j
  PROVE  Span(i, j) \o <<Unit(j + 1)>> = Span(i, j + 1)
<1> DEFINE s == Span(i, j)
           t == Span(i, j + 1)
           u == Unit(j + 1)
           n == j - i
<1>1. s \in Seq(Marks) /\ Len(s) = n /\ \A k \in 1..n : s[k] = Unit(i + k)
  BY SpanTyped
<1>2. /\ j + 1 \in Nat /\ i <= j + 1 /\ (j + 1) - i = n + 1 /\ n \in Nat /\ i + (n + 1) = j + 1
      /\ \A k \in 1..(n + 1) : k \in 1..n \/ k = n + 1
  OBVIOUS
<1>3. t \in Seq(Marks) /\ Len(t) = n + 1 /\ \A k \in 1..(n + 1) : t[k] = Unit(i + k)
  BY <1>2, SpanTyped
<1>4. u \in Marks
  BY DEF Marks, Unit
<1>5. t[n + 1] = u
  BY <1>2, <1>3
<1> HIDE DEF s, t, u, n, Marks
<1>6. /\ s \o <<u>> \in Seq(Marks) /\ Len(s \o <<u>>) = n + 1
      /\ \A k \in 1..n : (s \o <<u>>)[k] = s[k]
      /\ (s \o <<u>>)[n + 1] = u
  BY <1>1, <1>2, <1>4
<1>7. \A k \in 1..(n + 1) : (s \o <<u>>)[k] = t[k]
  BY <1>1, <1>2, <1>3, <1>5, <1>6
<1>8. s \o <<u>> = t
  BY <1>3, <1>6, <1>7, SameSeq
<1> QED
  BY <1>8 DEF s, t, u

\* A replacement in the part of the text that nothing has replaced yet.
LEMMA ReplaceInSpan ==
  ASSUME NEW m \in Nat, NEW tail \in Seq(Marks), NEW h \in Hits, h.first <= h.last, h.last <= m
  PROVE  Replace(Span(0, m) \o tail, h)
           = Span(0, h.first - 1) \o (Render(h) \o (Span(h.last, m) \o tail))
<1> DEFINE b == h.first
           e == h.last
           body == Span(0, m) \o tail
           n == Len(tail)
           l == SubSeq(body, 1, b - 1)
           r == SubSeq(body, e + 1, Len(body))
           p == Render(h)
           x == Span(0, b - 1)
           y == Span(e, m)
           z == y \o tail
<1>1. b \in Nat \ {0} /\ e \in Nat /\ b <= e /\ e <= m /\ b - 1 \in Nat /\ n \in Nat /\ m - 0 = m
  BY DEF Hits
<1>2. /\ Span(0, m) \in Seq(Marks) /\ Len(Span(0, m)) = m
      /\ \A k \in 1..m : Span(0, m)[k] = Unit(k)
  BY FirstUnits
<1>3. x \in Seq(Marks) /\ Len(x) = b - 1 /\ \A k \in 1..(b - 1) : x[k] = Unit(k)
  BY <1>1, FirstUnits
<1>4. y \in Seq(Marks) /\ Len(y) = m - e /\ \A k \in 1..(m - e) : y[k] = Unit(e + k)
  BY <1>1, SpanTyped
<1>5. p \in Seq(Marks)
  BY RenderTyped
<1>6. Replace(body, h) = (l \o p) \o r
  BY DEF Replace
<1> HIDE DEF Marks, x, y, p, b, e
<1>7. /\ body \in Seq(Marks) /\ Len(body) = m + n
      /\ \A k \in 1..m : body[k] = Unit(k)
      /\ \A k \in 1..n : body[m + k] = tail[k]
  BY <1>1, <1>2
<1>8. /\ z \in Seq(Marks) /\ Len(z) = (m - e) + n
      /\ \A k \in 1..(m - e) : z[k] = Unit(e + k)
      /\ \A k \in 1..n : z[(m - e) + k] = tail[k]
  BY <1>1, <1>4
<1> HIDE DEF body, z, n
<1>9. l \in Seq(Marks) /\ Len(l) = b - 1 /\ \A k \in 1..(b - 1) : l[k] = body[k]
  <2>1. \A i \in 1..(b - 1) : body[i] \in Marks /\ i \in Int /\ 1 + i - 1 = i
    BY <1>1, <1>7
  <2>2. /\ l \in Seq(Marks) /\ Len(l) = IF 1 <= b - 1 THEN (b - 1) - 1 + 1 ELSE 0
        /\ \A i \in 1..((b - 1) - 1 + 1) : l[i] = body[1 + i - 1]
    BY <1>1, <2>1, SubSeqProperties
  <2> QED
    BY <1>1, <2>1, <2>2
<1>10. l = x
  <2>1. \A k \in 1..(b - 1) : k \in 1..m
    BY <1>1
  <2> HIDE DEF l
  <2>2. \A k \in 1..Len(l) : l[k] = x[k]
    BY <1>3, <1>7, <1>9, <2>1
  <2> QED
    BY <1>3, <1>9, <2>2, SameSeq
<1>11. /\ r \in Seq(Marks) /\ Len(r) = (m - e) + n
       /\ \A k \in 1..((m - e) + n) : r[k] = body[e + k]
  <2> DEFINE w == m + n
  <2>1. \A i \in (e + 1)..w : body[i] \in Marks
    BY <1>1, <1>7
  <2>2. e + 1 \in Int /\ w \in Int
    BY <1>1
  <2>3. r = SubSeq(body, e + 1, w)
    BY <1>7
  <2> HIDE DEF w, r
  <2>4. /\ r \in Seq(Marks) /\ Len(r) = IF e + 1 <= w THEN w - (e + 1) + 1 ELSE 0
        /\ \A i \in 1..(w - (e + 1) + 1) : r[i] = body[(e + 1) + i - 1]
    BY <2>1, <2>2, <2>3, SubSeqProperties
  <2>5. w - (e + 1) + 1 = (m - e) + n /\ (~(e + 1 <= w) => (m - e) + n = 0)
    BY <1>1 DEF w
  <2>6. \A i \in 1..((m - e) + n) : (e + 1) + i - 1 = e + i
    BY <1>1
  <2> QED
    BY <2>4, <2>5, <2>6
<1>12. r = z
  <2> HIDE DEF r
  <2>1. ASSUME NEW k \in 1..((m - e) + n) PROVE r[k] = z[k]
    <3>1. CASE k <= m - e
      <4>1. k \in 1..(m - e) /\ e + k \in 1..m
        BY <1>1, <3>1
      <4> QED
        BY <1>7, <1>8, <1>11, <4>1
    <3>2. CASE ~(k <= m - e)
      <4> DEFINE j == k - (m - e)
      <4>1. j \in 1..n /\ m + j = e + k /\ (m - e) + j = k
        BY <1>1, <3>2
      <4> HIDE DEF j
      <4>2. z[(m - e) + j] = tail[j] /\ body[m + j] = tail[j]
        BY <1>7, <1>8, <4>1
      <4> QED
        BY <1>11, <4>1, <4>2
    <3> QED
      BY <3>1, <3>2
  <2> QED
    BY <1>8, <1>11, <2>1, SameSeq
<1> HIDE DEF l, r
<1>13. (l \o p) \o r = x \o (p \o z)
  <2>1. x \in Seq(Marks) /\ p \in Seq(Marks) /\ z \in Seq(Marks)
    BY <1>3, <1>5, <1>8
  <2>2. (x \o p) \o z = x \o (p \o z)
    BY <2>1, ConcatAssociative
  <2> QED
    BY <1>10, <1>12, <2>2
<1> QED
  BY <1>6, <1>13 DEF body, x, p, z, y, b, e, l, r

\* What Replaced puts in the place of each unit.
Pieces(s, hits) ==
  [i \in 1..s.length |->
    IF \E h \in ToSet(hits) : h.first = i
    THEN Render(CHOOSE h \in ToSet(hits) : h.first = i)
    ELSE IF \E h \in ToSet(hits) : h.first < i /\ i <= h.last THEN <<>> ELSE <<Unit(i)>>]

\* p puts a placeholder at the start of each hit, nothing in its place after
\* that, and the text's own units elsewhere.
Fits(p, s, hits) ==
  /\ p \in [1..s.length -> Seq(Marks)]
  /\ \A j \in DOMAIN hits :
       /\ p[hits[j].first] = Render(hits[j])
       /\ \A i \in (hits[j].first + 1)..hits[j].last : p[i] = <<>>
  /\ \A i \in 1..s.length :
       (\A j \in DOMAIN hits : i < hits[j].first \/ hits[j].last < i) => p[i] = <<Unit(i)>>

LEMMA PiecesAre ==
  ASSUME NEW s, NEW hits, s.length \in Nat, Within(hits, s.length), Disjoint(hits)
  PROVE  Fits(Pieces(s, hits), s, hits)
<1> DEFINE n == s.length
           p == Pieces(s, hits)
           D == DOMAIN hits
<1>1. \A h \in ToSet(hits) : \E j \in D : hits[j] = h
  BY DEF ToSet
<1>2. \A j \in D : hits[j] \in ToSet(hits)
  BY DEF ToSet
<1>3. \A j \in D : /\ hits[j] \in Hits
                   /\ hits[j].first \in Nat \ {0} /\ hits[j].last \in Nat
                   /\ hits[j].first <= hits[j].last /\ hits[j].last <= n
  BY HitTyped
<1>4. p = [i \in 1..n |->
             IF \E h \in ToSet(hits) : h.first = i
             THEN Render(CHOOSE h \in ToSet(hits) : h.first = i)
             ELSE IF \E h \in ToSet(hits) : h.first < i /\ i <= h.last THEN <<>> ELSE <<Unit(i)>>]
  BY DEF Pieces
<1>5. \A i, j \in D : i # j => ~(hits[i].first <= hits[j].last /\ hits[j].first <= hits[i].last)
  BY DEF Disjoint, Overlap
<1> HIDE DEF n, p, D, Marks
<1>6. ASSUME NEW j \in D, NEW i \in Nat, hits[j].first <= i, i <= hits[j].last,
             NEW k \in D, hits[k].first <= i, i <= hits[k].last
      PROVE  k = j
  BY <1>3, <1>5, <1>6
<1>7. ASSUME NEW j \in D PROVE p[hits[j].first] = Render(hits[j])
  <2> DEFINE i == hits[j].first
  <2>1. i \in 1..n /\ i \in Nat /\ hits[j].first <= i /\ i <= hits[j].last
    BY <1>3 DEF n
  <2>2. \A h \in ToSet(hits) : h.first = i => h = hits[j]
    <3> SUFFICES ASSUME NEW h \in ToSet(hits), h.first = i PROVE h = hits[j]
      OBVIOUS
    <3>1. PICK k \in D : hits[k] = h
      BY <1>1
    <3>2. hits[k].first <= i /\ i <= hits[k].last
      BY <1>3, <2>1, <3>1
    <3>3. k = j
      BY <1>6, <2>1, <3>2
    <3> QED
      BY <3>1, <3>3
  <2>3. hits[j] \in ToSet(hits) /\ hits[j].first = i
    BY <1>2
  <2> HIDE DEF i
  <2>4. (CHOOSE h \in ToSet(hits) : h.first = i) = hits[j]
    BY <2>2, <2>3
  <2>5. p[i] = Render(hits[j])
    BY <1>4, <2>1, <2>3, <2>4
  <2> QED
    BY <2>5 DEF i
<1>8. ASSUME NEW j \in D, NEW i \in (hits[j].first + 1)..hits[j].last PROVE p[i] = <<>>
  <2>1. i \in 1..n /\ i \in Nat /\ hits[j].first < i /\ i <= hits[j].last
    BY <1>3 DEF n
  <2>2. ~ \E h \in ToSet(hits) : h.first = i
    <3> SUFFICES ASSUME NEW h \in ToSet(hits), h.first = i PROVE FALSE
      OBVIOUS
    <3>1. PICK k \in D : hits[k] = h
      BY <1>1
    <3>2. hits[k].first <= i /\ i <= hits[k].last
      BY <1>3, <2>1, <3>1
    <3>3. k = j
      BY <1>3, <1>6, <2>1, <3>2
    <3> QED
      BY <1>3, <2>1, <3>1, <3>3
  <2>3. \E h \in ToSet(hits) : h.first < i /\ i <= h.last
    BY <1>2, <2>1
  <2> QED
    BY <1>4, <2>1, <2>2, <2>3
<1>9. ASSUME NEW i \in 1..n, \A j \in D : i < hits[j].first \/ hits[j].last < i
      PROVE  p[i] = <<Unit(i)>>
  <2>1. \A j \in D : hits[j].first # i /\ ~(hits[j].first < i /\ i <= hits[j].last)
    BY <1>3, <1>9
  <2>2. ~ \E h \in ToSet(hits) : h.first = i
    BY <1>1, <2>1
  <2>3. ~ \E h \in ToSet(hits) : h.first < i /\ i <= h.last
    BY <1>1, <2>1
  <2> QED
    BY <1>4, <2>2, <2>3
<1>10. p \in [1..n -> Seq(Marks)]
  <2>1. ASSUME NEW i \in 1..n PROVE p[i] \in Seq(Marks)
    <3>1. CASE \E h \in ToSet(hits) : h.first = i
      <4>1. PICK h \in ToSet(hits) : h.first = i
        BY <3>1
      <4>2. PICK j \in D : hits[j] = h
        BY <1>1
      <4>3. p[i] = Render(hits[j])
        BY <1>7, <4>1, <4>2
      <4> QED
        BY <1>3, <4>3, RenderTyped
    <3>2. CASE ~ \E h \in ToSet(hits) : h.first = i
      <4>1. p[i] = <<>> \/ p[i] = <<Unit(i)>>
        BY <1>4, <3>2
      <4>2. s.length \in Nat
        OBVIOUS
      <4>3. Unit(i) \in Marks
        BY <4>2 DEF n, Unit, Marks
      <4>4. <<>> \in Seq(Marks) /\ <<Unit(i)>> \in Seq(Marks)
        BY <4>3
      <4> QED
        BY <4>1, <4>4
    <3> QED
      BY <3>1, <3>2
  <2> QED
    BY <1>4, <2>1
<1> QED
  BY <1>7, <1>8, <1>9, <1>10 DEF n, p, D, Fits

\* F[i] is what the first i pieces make together.
Built(F, p, n) ==
  /\ \A i \in 0..n : F[i] \in Seq(Marks)
  /\ \A i \in 1..n : F[i] = F[i - 1] \o p[i]

Gone(p, i, j) == \A k \in (i + 1)..j : p[k] = <<>>
Plain(p, i, j) == \A k \in (i + 1)..j : p[k] = <<Unit(k)>>

\* Pieces that are gone.
LEMMA GonePieces ==
  ASSUME NEW n \in Nat, NEW p, NEW F, Built(F, p, n), NEW b \in 0..n, NEW e \in b..n, Gone(p, b, e)
  PROVE  F[e] = F[b]
<1> DEFINE Q(k) == b + k <= e => F[b + k] = F[b]
           P == {k \in Nat : Q(k)}
<1> HIDE DEF Marks
<1>1. 0 \in P
  OBVIOUS
<1> HIDE DEF Q
<1>2. ASSUME NEW k \in Nat, k \in P PROVE k + 1 \in P
  <2> SUFFICES Q(k + 1)
    OBVIOUS
  <2> SUFFICES ASSUME b + (k + 1) <= e PROVE F[b + (k + 1)] = F[b]
    BY DEF Q
  <2>1. /\ b + (k + 1) \in 1..n /\ b + (k + 1) \in (b + 1)..e /\ b \in 0..n
        /\ (b + (k + 1)) - 1 = b + k /\ b + k <= e
    OBVIOUS
  <2>2. F[b + (k + 1)] = F[b + k] \o <<>>
    BY <2>1 DEF Built, Gone
  <2>3. F[b + k] = F[b] /\ F[b] \in Seq(Marks)
    BY <1>2, <2>1 DEF Built, Q
  <2> QED
    BY <2>2, <2>3, ConcatEmptySeq
<1>3. Nat \subseteq P
  <2> HIDE DEF P
  <2> QED
    BY <1>1, <1>2, Induction
<1> DEFINE d == e - b
<1>4. d \in Nat /\ b + d = e /\ b + d <= e
  OBVIOUS
<1> HIDE DEF d, P
<1>5. d \in P
  BY <1>3, <1>4
<1> QED
  BY <1>4, <1>5 DEF P, Q

\* Pieces that are the text's own units.
LEMMA PlainPieces ==
  ASSUME NEW n \in Nat, NEW p, NEW F, Built(F, p, n), NEW b \in 0..n, NEW e \in b..n, Plain(p, b, e)
  PROVE  F[e] = F[b] \o Span(b, e)
<1> DEFINE Q(k) == b + k <= e => F[b + k] = F[b] \o Span(b, b + k)
           P == {k \in Nat : Q(k)}
<1> HIDE DEF Marks
<1>1. 0 \in P
  <2> SUFFICES Q(0)
    OBVIOUS
  <2>1. Span(b, b + 0) = <<>> /\ b + 0 = b
    <3>1. Span(b, b) = <<>>
      <4>1. 1..(b - b) = {}
        OBVIOUS
      <4> QED
        BY <4>1 DEF Span
    <3> QED
      BY <3>1
  <2>2. F[b] \o <<>> = F[b]
    BY ConcatEmptySeq DEF Built
  <2> QED
    BY <2>1, <2>2
<1> HIDE DEF Q
<1>2. ASSUME NEW k \in Nat, k \in P PROVE k + 1 \in P
  <2> SUFFICES Q(k + 1)
    OBVIOUS
  <2> SUFFICES ASSUME b + (k + 1) <= e PROVE F[b + (k + 1)] = F[b] \o Span(b, b + (k + 1))
    BY DEF Q
  <2> DEFINE j == b + k
             u == <<Unit(j + 1)>>
  <2>1. /\ j + 1 \in 1..n /\ j + 1 \in (b + 1)..e /\ b \in Nat /\ j \in Nat /\ b <= j
        /\ (j + 1) - 1 = j /\ j <= e /\ b + (k + 1) = j + 1
    OBVIOUS
  <2>2. F[j] = F[b] \o Span(b, j)
    BY <1>2, <2>1 DEF Q
  <2> HIDE DEF j
  <2>3. F[j + 1] = F[j] \o u
    BY <2>1 DEF Built, Plain
  <2>4. Span(b, j) \o u = Span(b, j + 1)
    BY <2>1, SpanAdd
  <2> DEFINE x == F[b]
             y == Span(b, j)
  <2>5. x \in Seq(Marks) /\ y \in Seq(Marks) /\ u \in Seq(Marks)
    <3>1. Unit(j + 1) \in Marks
      BY <2>1 DEF Unit, Marks
    <3>2. u \in Seq(Marks)
      BY <3>1
    <3> QED
      BY <2>1, <3>2, SpanTyped DEF Built
  <2> HIDE DEF u, x, y
  <2>6. (x \o y) \o u = x \o (y \o u)
    BY <2>5, ConcatAssociative
  <2> QED
    BY <2>1, <2>2, <2>3, <2>4, <2>6 DEF x, y
<1>3. Nat \subseteq P
  <2> HIDE DEF P
  <2> QED
    BY <1>1, <1>2, Induction
<1> DEFINE d == e - b
<1>4. d \in Nat /\ b + d = e /\ b + d <= e
  OBVIOUS
<1> HIDE DEF d, P
<1>5. d \in P
  BY <1>3, <1>4
<1> QED
  BY <1>4, <1>5 DEF P, Q

\* Replacing hits that do not overlap from the right is the same as writing the
\* text from the left with each hit replaced.
LEMMA MaskExact ==
  ASSUME NEW s, NEW hits, s.length \in Nat, Within(hits, s.length), Disjoint(hits)
  PROVE  Mask(Units(s), hits) = Replaced(s, hits)
<1> DEFINE N == s.length
           m == Len(hits)
           a == Arranged(DOMAIN hits, FromRight(hits))
           p == Pieces(s, hits)
           M(k) == IF k = 0 THEN N ELSE hits[a[k]].first - 1
<1>1. hits \in Seq(Hits) /\ N \in Nat
  BY DEF Within
<1>2. IsFiniteSet(DOMAIN hits) /\ Cardinality(DOMAIN hits) = m /\ m \in Nat /\ DOMAIN hits = 1..m
  BY <1>1, DomainFinite
<1>3. Arranges(a, DOMAIN hits, FromRight(hits))
  BY <1>1, <1>2, FromRightOrders, ArrangedSorts
<1>4. /\ a \in [1..m -> DOMAIN hits]
      /\ \A j \in DOMAIN hits : \E k \in 1..m : a[k] = j
      /\ \A i, j \in 1..m : a[i] = a[j] => i = j
  BY <1>2, <1>3 DEF Arranges
<1>5. \A i, j \in 1..m : i < j => hits[a[i]].first >= hits[a[j]].first
  BY <1>1, <1>2, <1>3, <1>4, FromRightOrders DEF Arranges
<1>6. PICK out : Masking(Units(s), hits, a, m, out) /\ Mask(Units(s), hits) = out[m]
  BY <1>2, MaskSteps
<1>7. \A k \in 0..m : out[k] = IF k = 0 THEN Units(s) ELSE Replace(out[k - 1], hits[a[k]])
  BY <1>6, Zenon DEF Masking
<1>8. Units(s) = Span(0, N)
  <2>1. Span(0, N) = [k \in 1..N |-> Unit(k)]
    BY <1>1 DEF Span
  <2> QED
    BY <2>1 DEF Units
<1>9. Replaced(s, hits) = FlattenSeq(p)
  BY DEF Replaced, Pieces
<1>10. Fits(p, s, hits)
  BY PiecesAre
<1> HIDE DEF p
<1>11. PICK F : Flattens(p, N, F) /\ \A i \in 0..N : F[i] \in Seq(Marks)
  BY <1>1, <1>10, FlattenStepwise DEF Fits
<1>12. F[0] = <<>> /\ F[N] = FlattenSeq(p) /\ \A i \in 1..N : F[i] = F[i - 1] \o p[i]
  BY <1>11 DEF Flattens
<1>23. Built(F, p, N)
  BY <1>11, <1>12 DEF Built
<1>13. \A k \in 1..m : /\ hits[a[k]] \in Hits
                       /\ hits[a[k]].first \in Nat \ {0} /\ hits[a[k]].last \in Nat
                       /\ hits[a[k]].first <= hits[a[k]].last /\ hits[a[k]].last <= N
  BY <1>1, <1>4, HitTyped
<1>14. /\ \A k \in 1..m : /\ p[hits[a[k]].first] = Render(hits[a[k]])
                          /\ \A i \in (hits[a[k]].first + 1)..hits[a[k]].last : p[i] = <<>>
       /\ \A i \in 1..N : (\A k \in 1..m : i < hits[a[k]].first \/ hits[a[k]].last < i)
                            => p[i] = <<Unit(i)>>
  <2>1. /\ \A j \in DOMAIN hits :
             /\ p[hits[j].first] = Render(hits[j])
             /\ \A i \in (hits[j].first + 1)..hits[j].last : p[i] = <<>>
        /\ \A i \in 1..N :
             (\A j \in DOMAIN hits : i < hits[j].first \/ hits[j].last < i) => p[i] = <<Unit(i)>>
    BY <1>10 DEF Fits
  <2>2. \A k \in 1..m : a[k] \in DOMAIN hits
    BY <1>4
  <2>3. ASSUME NEW i \in 1..N, \A k \in 1..m : i < hits[a[k]].first \/ hits[a[k]].last < i
        PROVE  \A j \in DOMAIN hits : i < hits[j].first \/ hits[j].last < i
    BY <1>4, <2>3, Zenon
  <2> HIDE DEF a, m, N
  <2>4. ASSUME NEW k \in 1..m
        PROVE  /\ p[hits[a[k]].first] = Render(hits[a[k]])
               /\ \A i \in (hits[a[k]].first + 1)..hits[a[k]].last : p[i] = <<>>
    BY <2>1, <2>2, Zenon
  <2> QED
    BY <2>1, <2>3, <2>4, Zenon
<1>15. \A i, j \in 1..m : i # j =>
         ~(hits[a[i]].first <= hits[a[j]].last /\ hits[a[j]].first <= hits[a[i]].last)
  BY <1>4 DEF Disjoint, Overlap
<1> DEFINE B(k) == hits[a[k]].first
           E(k) == hits[a[k]].last
<1>16. \A i, j \in 1..m : i < j => E(j) < B(i)
  <2> SUFFICES ASSUME NEW i \in 1..m, NEW j \in 1..m, i < j PROVE E(j) < B(i)
    OBVIOUS
  <2> DEFINE bi == B(i)
             ei == E(i)
             bj == B(j)
             ej == E(j)
  <2>1. bi \in Nat /\ ei \in Nat /\ bj \in Nat /\ ej \in Nat /\ bi <= ei
    BY <1>13
  <2>2. bi >= bj
    BY <1>5
  <2>3. i # j
    BY <1>2
  <2>4. ~(bi <= ej /\ bj <= ei)
    BY <1>15, <2>3
  <2> HIDE DEF bi, ei, bj, ej
  <2>5. ej < bi
    BY <2>1, <2>2, <2>4
  <2> QED
    BY <2>5 DEF ej, bi
<1> HIDE DEF a, m, N, Marks
<1>17. \A k \in 0..m : /\ M(k) \in 0..N
                       /\ \A q \in 1..m : q > k => E(q) <= M(k)
                       /\ \A q \in 1..m : q <= k => B(q) > M(k)
  <2> SUFFICES ASSUME NEW k \in 0..m
               PROVE  /\ M(k) \in 0..N
                      /\ \A q \in 1..m : q > k => E(q) <= M(k)
                      /\ \A q \in 1..m : q <= k => B(q) > M(k)
    OBVIOUS
  <2>1. CASE k = 0
    BY <1>1, <1>2, <1>13, <2>1
  <2>2. CASE k # 0
    <3>1. k \in 1..m /\ M(k) = B(k) - 1
      BY <1>2, <2>2
    <3>2. M(k) \in 0..N
      BY <1>1, <1>13, <3>1
    <3>3. ASSUME NEW q \in 1..m, q > k PROVE E(q) <= M(k)
      BY <1>13, <1>16, <3>1, <3>3
    <3>4. ASSUME NEW q \in 1..m, q <= k PROVE B(q) > M(k)
      <4>1. B(q) >= B(k)
        BY <1>2, <1>5, <1>13, <3>1, <3>4
      <4> QED
        BY <1>13, <3>1, <4>1
    <3> QED
      BY <3>2, <3>3, <3>4
  <2> QED
    BY <2>1, <2>2
<1> DEFINE Good(t, k) == \E tail \in Seq(Marks) : /\ t = Span(0, M(k)) \o tail
                                                  /\ F[N] = F[M(k)] \o tail
           Q(k) == k \in 0..m => Good(out[k], k)
           P == {k \in Nat : Q(k)}
<1> HIDE DEF M, B, E
<1>18. 0 \in P
  <2>1. M(0) = N /\ out[0] = Span(0, N)
    BY <1>2, <1>7, <1>8 DEF M
  <2>2. Span(0, N) \in Seq(Marks) /\ F[N] \in Seq(Marks)
    BY <1>1, <1>11, FirstUnits
  <2>3. Span(0, N) \o <<>> = Span(0, N) /\ F[N] \o <<>> = F[N]
    BY <2>2, ConcatEmptySeq
  <2>4. <<>> \in Seq(Marks)
    OBVIOUS
  <2> QED
    BY <2>1, <2>3, <2>4
<1> HIDE DEF Q
<1>19. ASSUME NEW k \in Nat, k \in P PROVE k + 1 \in P
  <2> SUFFICES Q(k + 1)
    OBVIOUS
  <2> SUFFICES ASSUME k + 1 \in 0..m PROVE Good(out[k + 1], k + 1)
    BY DEF Q
  <2>1. k \in 0..m /\ k + 1 \in 1..m /\ k + 1 # 0 /\ (k + 1) - 1 = k /\ k + 1 > k
    BY <1>2
  <2>2. PICK tail \in Seq(Marks) : out[k] = Span(0, M(k)) \o tail /\ F[N] = F[M(k)] \o tail
    BY <1>19, <2>1 DEF Q
  <2> DEFINE h == hits[a[k + 1]]
             b == B(k + 1)
             e == E(k + 1)
             l == M(k)
             r == Render(h)
             y == Span(e, l)
  <2>3. h \in Hits /\ h.first = b /\ h.last = e /\ b \in Nat \ {0} /\ e \in Nat /\ b <= e /\ e <= N
    BY <1>13, <2>1 DEF B, E
  <2>4. l \in 0..N /\ e <= l /\ M(k + 1) = b - 1 /\ b - 1 \in 0..N
    <3>1. l \in 0..N /\ e <= l
      BY <1>17, <2>1
    <3>2. M(k + 1) = b - 1
      BY <2>1 DEF M, B
    <3> QED
      BY <1>1, <2>3, <3>1, <3>2
  <2>5. p[b] = r /\ \A i \in (b + 1)..e : p[i] = <<>>
    BY <1>14, <2>1 DEF B, E
  <2>6. ASSUME NEW i \in (e + 1)..l PROVE p[i] = <<Unit(i)>>
    <3>1. i \in 1..N /\ i > e /\ i <= l /\ i \in Int
      BY <1>1, <2>3, <2>4
    <3>2. ASSUME NEW q \in 1..m PROVE i < B(q) \/ E(q) < i
      <4>1. q \in Int /\ B(q) \in Int /\ E(q) \in Int
        BY <1>2, <1>13 DEF B, E
      <4>2. CASE q <= k
        BY <1>17, <2>1, <2>4, <3>1, <4>1, <4>2
      <4>3. CASE q = k + 1
        BY <3>1, <4>3
      <4>4. CASE q > k + 1
        <5>1. E(q) < b
          BY <1>16, <2>1, <4>4 DEF B, E
        <5> QED
          BY <2>3, <3>1, <4>1, <5>1
      <4> QED
        BY <4>1, <4>2, <4>3, <4>4
    <3> QED
      BY <1>14, <3>1, <3>2 DEF B, E
  <2>7. out[k + 1] = Replace(Span(0, l) \o tail, h)
    BY <1>7, <2>1, <2>2
  <2>8. r \in Seq(Marks) /\ y \in Seq(Marks)
    <3>1. r \in Seq(Marks)
      BY <2>3, RenderTyped
    <3>2. e \in Nat /\ l \in Nat /\ e <= l
      BY <1>1, <2>3, <2>4
    <3> QED
      BY <3>1, <3>2, SpanTyped
  <2> HIDE DEF h, b, e, l, r, y
  <2>9. Replace(Span(0, l) \o tail, h) = Span(0, b - 1) \o (r \o (y \o tail))
    <3>1. l \in Nat /\ h.first <= h.last /\ h.last <= l
      BY <1>1, <2>3, <2>4
    <3>2. Replace(Span(0, l) \o tail, h)
            = Span(0, h.first - 1) \o (Render(h) \o (Span(h.last, l) \o tail))
      BY <2>3, <3>1, ReplaceInSpan
    <3> QED
      BY <2>3, <3>2 DEF r, y
  <2>10. F[b] = F[b - 1] \o r
    <3>1. b \in 1..N
      BY <1>1, <2>3
    <3> QED
      BY <1>12, <2>5, <3>1
  <2>11. F[e] = F[b]
    <3>1. b \in 0..N /\ e \in b..N
      BY <1>1, <2>3
    <3>2. Gone(p, b, e)
      BY <2>5 DEF Gone
    <3> QED
      BY <1>1, <1>23, <3>1, <3>2, GonePieces
  <2>12. F[l] = F[e] \o y
    <3>1. e \in 0..N /\ l \in e..N
      BY <1>1, <2>3, <2>4
    <3>2. Plain(p, e, l)
      BY <2>6 DEF Plain
    <3> QED
      BY <1>1, <1>23, <3>1, <3>2, PlainPieces DEF y
  <2>13. F[b - 1] \in Seq(Marks)
    BY <1>11, <2>4
  <2> DEFINE f == F[b - 1]
             z == y \o tail
             rest == r \o z
  <2>14. F[N] = ((f \o r) \o y) \o tail
    BY <2>2, <2>10, <2>11, <2>12 DEF l
  <2> HIDE DEF f
  <2>15. z \in Seq(Marks) /\ f \in Seq(Marks) /\ f \o r \in Seq(Marks)
    BY <2>8, <2>13 DEF f
  <2>16. ((f \o r) \o y) \o tail = (f \o r) \o z
    <3> DEFINE g == f \o r
    <3>1. g \in Seq(Marks) /\ y \in Seq(Marks) /\ tail \in Seq(Marks)
      BY <2>8, <2>15
    <3> HIDE DEF g
    <3>2. (g \o y) \o tail = g \o (y \o tail)
      BY <3>1, ConcatAssociative
    <3> QED
      BY <3>2 DEF g
  <2> HIDE DEF z
  <2>17. (f \o r) \o z = f \o rest
    <3>1. f \in Seq(Marks) /\ r \in Seq(Marks) /\ z \in Seq(Marks)
      BY <2>8, <2>15
    <3>2. (f \o r) \o z = f \o (r \o z)
      BY <3>1, ConcatAssociative
    <3> QED
      BY <3>2
  <2>18. rest \in Seq(Marks)
    BY <2>8, <2>15
  <2> HIDE DEF rest
  <2>19. F[N] = F[M(k + 1)] \o rest
    BY <2>4, <2>14, <2>16, <2>17 DEF f
  <2>20. out[k + 1] = Span(0, M(k + 1)) \o rest
    BY <2>4, <2>7, <2>9 DEF rest, z
  <2> QED
    BY <2>18, <2>19, <2>20
<1>20. Nat \subseteq P
  <2> HIDE DEF P
  <2> QED
    BY <1>18, <1>19, Induction
<1>21. PICK tail \in Seq(Marks) : out[m] = Span(0, M(m)) \o tail /\ F[N] = F[M(m)] \o tail
  <2>1. m \in P /\ m \in 0..m
    BY <1>2, <1>20
  <2> QED
    BY <2>1 DEF Q
<1>22. F[M(m)] = Span(0, M(m))
  <2> DEFINE l == M(m)
  <2>1. l \in 0..N /\ \A q \in 1..m : B(q) > l
    BY <1>2, <1>17
  <2>2. ASSUME NEW i \in 1..l PROVE p[i] = <<Unit(i)>>
    <3>1. i \in 1..N /\ \A q \in 1..m : i < B(q)
      BY <1>1, <1>13, <2>1 DEF B
    <3> QED
      BY <1>14, <3>1 DEF B, E
  <2> HIDE DEF l
  <2>3. F[l] = F[0] \o Span(0, l)
    <3>1. 0 \in 0..N /\ l \in 0..N /\ 0 + 1 = 1 /\ l \in Nat
      BY <1>1, <2>1
    <3>2. Plain(p, 0, l) /\ l \in 0..l
      BY <1>1, <2>1, <2>2, <3>1 DEF Plain
    <3> QED
      BY <1>1, <1>23, <3>1, <3>2, PlainPieces
  <2>4. Span(0, l) \in Seq(Marks)
    BY <1>1, <2>1, FirstUnits
  <2>5. <<>> \o Span(0, l) = Span(0, l)
    BY <2>4, ConcatEmptySeq
  <2> QED
    BY <1>12, <2>3, <2>5 DEF l
<1> QED
  BY <1>6, <1>9, <1>12, <1>21, <1>22

-----------------------------------------------------------------------------
(* The facts on their way.                                                 *)

Extracted == {"mask", "select", "plan", "done"}
Cut == {"select", "plan", "done"}

\* The facts of w are of every item 1..n, in the items' order.
Covers(w, n) ==
  /\ \A k \in 1..n : \E i \in DOMAIN w : w[i].item = k
  /\ \A i \in DOMAIN w : w[i].item \in 1..n
  /\ \A i, j \in DOMAIN w : i < j => w[i].item <= w[j].item

\* Every text is as masking leaves it.
AllMasked(w) ==
  \A i \in DOMAIN w : w[i].body = Mask(Units(w[i].said), Detect(w[i].said))

WorkInv ==
  /\ work \in Seq(Facts)
  /\ pc = "mask" => work \in Seq(FreshFacts)
  /\ call.raw = Nil /\ pc \in Extracted =>
       call.facts \in Seq(GivenFacts) /\ Covers(work, Len(call.facts))
  /\ config.pii /\ pc \in Cut => AllMasked(work)

LEMMA FreshAreFacts == \A w \in Seq(FreshFacts) : w \in Seq(Facts)
<1>1. FreshFacts \subseteq Facts
  BY DEF FreshFacts
<1> HIDE DEF FreshFacts
<1> QED
  BY <1>1

LEMMA FreshFact ==
  ASSUME NEW f \in FreshFacts
  PROVE  /\ f \in Facts /\ f.said \in Sentences /\ f.body = Units(f.said)
         /\ f.body \in Seq(Marks) /\ Len(f.body) = f.said.length
<1>1. f \in Facts /\ f.body = Units(f.said)
  BY DEF FreshFacts
<1>2. f.said \in Sentences
  BY <1>1 DEF Facts
<1> QED
  BY <1>1, <1>2, UnitsTyped DEF Marks

\* Masking one fact.
LEMMA MaskedFact ==
  ASSUME CallInv, NEW f \in FreshFacts,
         NEW g, g = [f EXCEPT !.body = Mask(@, Detect(f.said))]
  PROVE  /\ g \in Facts /\ g.item = f.item /\ g.said = f.said
         /\ g.body = Mask(Units(f.said), Detect(f.said))
<1>1. /\ f \in Facts /\ f.said \in Sentences /\ f.body = Units(f.said)
      /\ f.body \in Seq(Marks) /\ Len(f.body) = f.said.length
  BY FreshFact
<1>2. Within(Detect(f.said), f.said.length)
  BY <1>1, ConfigTyped, DetectWithin
<1> DEFINE b == Mask(f.body, Detect(f.said))
<1>3. b \in Seq(Marks)
  BY <1>1, <1>2, MaskTyped
<1>4. g = [f EXCEPT !.body = b]
  OBVIOUS
<1> HIDE DEF b
<1>5. g \in Facts /\ g.item = f.item /\ g.said = f.said /\ g.body = b
  BY <1>1, <1>3, <1>4 DEF Facts, Marks
<1> QED
  BY <1>1, <1>5 DEF b

LEMMA ExtractWorks ==
  ASSUME CallInv, WorkInv, Extract
  PROVE  WorkInv'
<1>1. UNCHANGED <<call, config>> /\ pc' \in {"mask", "error"}
  BY DEF Extract, Ask
<1>2. CASE UNCHANGED work /\ pc' = "error"
  BY <1>1, <1>2 DEF WorkInv, Extracted, Cut
<1>3. CASE pc' = "mask" /\ call.raw # Nil
  <2>1. work' \in Seq(FreshFacts)
    <3>1. call.raw \in Texts \cup {Empty}
      BY <1>3 DEF CallInv, WriteCalls
    <3>2. CASE config.llm /\ Ask(call.raw)
      <4>1. CASE \E reply \in Replies : work' = reply
        <5>1. PICK reply \in Replies : work' = reply
          BY <4>1
        <5>2. reply \in Seq(Facts) /\ \A f \in ToSet(reply) : f.body = Units(f.said)
          BY IntakeAssumption
        <5>3. DOMAIN reply = 1..Len(reply) /\ Len(reply) \in Nat
          BY <5>2
        <5>4. \A i \in 1..Len(reply) : reply[i] \in Facts /\ reply[i].body = Units(reply[i].said)
          BY <5>2, <5>3 DEF ToSet
        <5>5. \A i \in 1..Len(reply) : reply[i] \in FreshFacts
          BY <5>4 DEF FreshFacts
        <5>6. reply \in Seq(FreshFacts)
          BY <5>2, <5>5
        <5> QED
          BY <5>1, <5>6
      <4>2. CASE work' = RuleBased(0, call.raw)
        <5>1. 0 \in Nat
          OBVIOUS
        <5> QED
          BY <3>1, <4>2, <5>1, RuleBasedFresh
      <4> QED
        BY <1>3, <3>2, <4>1, <4>2 DEF Ask
    <3>3. CASE work' = Hybrid(call.raw)
      BY <3>1, <3>3, HybridFresh
    <3> QED
      BY <1>3, <3>2, <3>3 DEF Extract
  <2> QED
    BY <1>1, <1>3, <2>1, FreshAreFacts DEF WorkInv, Cut
<1>4. CASE pc' = "mask" /\ call.raw = Nil
  <2>1. call.facts \in Seq(GivenFacts)
    BY <1>4 DEF CallInv, WriteCalls, Extract
  <2>2. work' = FromItems(call.facts)
    BY <1>4 DEF Extract
  <2>3. ItemsIn(work', Len(call.facts))
    BY <2>1, <2>2, FromItemsFresh
  <2>4. work' \in Seq(FreshFacts) /\ DOMAIN work' = 1..Len(work')
    <3>1. work' \in Seq(FreshFacts)
      BY <2>3 DEF ItemsIn
    <3> QED
      BY <3>1
  <2>5. Covers(work', Len(call.facts))
    BY <2>3, <2>4 DEF Covers, ItemsIn
  <2> QED
    BY <1>1, <1>4, <2>1, <2>4, <2>5, FreshAreFacts DEF WorkInv, Cut
<1> QED
  BY <1>1, <1>2, <1>3, <1>4 DEF Extract, Ask

LEMMA MaskWorks ==
  ASSUME CallInv, WorkInv, MaskFacts
  PROVE  WorkInv'
<1>1. UNCHANGED <<call, config>> /\ pc = "mask" /\ pc' = "select"
  BY DEF MaskFacts
<1>2. work \in Seq(FreshFacts)
  BY <1>1 DEF WorkInv
<1>3. call.raw = Nil => call.facts \in Seq(GivenFacts) /\ Covers(work, Len(call.facts))
  BY <1>1 DEF WorkInv, Extracted
<1>4. CASE ~config.pii
  <2>1. work' = work
    BY <1>4 DEF MaskFacts
  <2> QED
    BY <1>1, <1>3, <1>4, <2>1 DEF WorkInv
<1>5. CASE config.pii
  <2>1. work' = [i \in DOMAIN work |-> [work[i] EXCEPT !.body = Mask(@, Detect(work[i].said))]]
    BY <1>5 DEF MaskFacts
  <2> DEFINE n == Len(work)
  <2>2. DOMAIN work = 1..n /\ n \in Nat /\ \A i \in 1..n : work[i] \in FreshFacts
    BY <1>2
  <2> HIDE DEF n
  <2>3. ASSUME NEW i \in 1..n
        PROVE  /\ work'[i] \in Facts /\ work'[i].item = work[i].item
               /\ work'[i].said = work[i].said
               /\ work'[i].body = Mask(Units(work[i].said), Detect(work[i].said))
    <3> DEFINE f == work[i]
               g == work'[i]
    <3>1. g = [f EXCEPT !.body = Mask(@, Detect(f.said))] /\ f \in FreshFacts
      BY <2>1, <2>2
    <3> HIDE DEF f, g
    <3>2. /\ g \in Facts /\ g.item = f.item /\ g.said = f.said
          /\ g.body = Mask(Units(f.said), Detect(f.said))
      BY <3>1, MaskedFact
    <3> QED
      BY <3>2 DEF f, g
  <2>4. DOMAIN work' = 1..n
    BY <2>1, <2>2
  <2>5. work' \in Seq(Facts)
    <3>1. work' = [i \in 1..n |-> work'[i]]
      BY <2>1, <2>2
    <3> QED
      BY <2>2, <2>3, <3>1
  <2>6. \A k : Covers(work, k) => Covers(work', k)
    BY <2>2, <2>3, <2>4 DEF Covers
  <2>7. AllMasked(work)'
    <3>1. \A s : Detect(s)' = Detect(s)
      BY <1>1 DEF Detect
    <3> QED
      BY <1>1, <2>3, <2>4, <3>1 DEF AllMasked, Detect
  <2> QED
    BY <1>1, <1>3, <2>5, <2>6, <2>7 DEF WorkInv
<1> QED
  BY <1>4, <1>5, ConfigTyped

LEMMA WorkStep == CallInv /\ WorkInv /\ [Next]_vars => WorkInv'
<1> SUFFICES ASSUME CallInv, WorkInv, [Next]_vars PROVE WorkInv'
  OBVIOUS
<1>1. CASE MemoryWrite
  BY <1>1 DEF MemoryWrite, WorkInv, Extracted, Cut
<1>2. CASE Write
  BY <1>2 DEF Write, WorkInv, Extracted, Cut
<1>3. CASE Extract
  BY <1>3, ExtractWorks
<1>4. CASE MaskFacts
  BY <1>4, MaskWorks
<1>5. ASSUME pc \in Extracted, pc' \in Cut, pc \in Cut, UNCHANGED <<call, config, work>> PROVE WorkInv'
  BY <1>5 DEF WorkInv, Extracted, Cut, AllMasked, Detect
<1>6. CASE Select
  BY <1>5, <1>6 DEF Select, Extracted, Cut
<1>7. CASE Plan
  BY <1>5, <1>7 DEF Plan, Extracted, Cut
<1>8. CASE UNCHANGED vars
  BY <1>8 DEF vars, WorkInv, Extracted, Cut, AllMasked, Detect
<1> QED
  BY <1>1, <1>2, <1>3, <1>4, <1>6, <1>7, <1>8 DEF Next

-----------------------------------------------------------------------------
(* The cut, the cap and the policy.                                        *)

\* The facts of `work` that a write keeps.
ToKeep == {i \in Chosen : Trusted(work[i])}

LEMMA CountTo ==
  ASSUME NEW m \in Nat
  PROVE  IsFiniteSet(1..m) /\ Cardinality(1..m) = m
<1>1. 1 \in Int /\ m \in Int
  OBVIOUS
<1>2. IsFiniteSet(1..m) /\ Cardinality(1..m) = IF 1 > m THEN 0 ELSE m - 1 + 1
  BY <1>1, FS_Interval
<1>3. (IF 1 > m THEN 0 ELSE m - 1 + 1) = m
  OBVIOUS
<1> QED
  BY <1>2, <1>3

\* The first m indices, in order.
LEMMA OrderOfFirst ==
  ASSUME NEW m \in Nat, NEW k \in 1..m
  PROVE  Order(1..m)[k] = k
<1>1. 1..m \in SUBSET Nat /\ IsFiniteSet(1..m) /\ Cardinality(1..m) = m /\ k \in Nat /\ k - 1 \in Nat
  BY CountTo
<1>2. Below(1..m, k) = 1..(k - 1)
  BY DEF Below
<1>3. Cardinality(Below(1..m, k)) = k - 1
  BY <1>1, <1>2, CountTo
<1>4. Place(1..m, Upwards(1..m), k) = k - 1
  BY <1>1, <1>3, BelowIs
<1>5. Arranges(Order(1..m), 1..m, Upwards(1..m))
  BY <1>1, OrderSorts
<1> DEFINE I == 1..m
<1>6. k \in 1..Cardinality(I) /\ k \in I
  BY <1>1
<1> HIDE DEF I
<1>7. Place(I, Upwards(I), k) = k - 1 /\ Arranges(Order(I), I, Upwards(I))
  BY <1>4, <1>5 DEF I
<1>8. Order(I)[k] = k
  BY <1>6, <1>7, PlaceIs
<1> QED
  BY <1>8 DEF I

\* The cap takes the first m of a sequence.
LEMMA CappedIs ==
  ASSUME NEW S, NEW s \in Seq(S)
  PROVE  LET m == IF Len(s) < MaxFacts THEN Len(s) ELSE MaxFacts
         IN  m \in 0..MaxFacts /\ m <= Len(s) /\ Capped(s) = At(s, 1..m)
<1> DEFINE m == IF Len(s) < MaxFacts THEN Len(s) ELSE MaxFacts
<1>1. MaxFacts \in Nat /\ Len(s) \in Nat
  BY IntakeAssumption
<1>2. m \in Nat /\ m \in 0..MaxFacts /\ m <= Len(s)
  BY <1>1
<1>3. Capped(s) = SubSeq(s, 1, m)
  BY DEF Capped
<1> HIDE DEF m
<1>4. SubSeq(s, 1, m) \in Seq(S) /\ Len(SubSeq(s, 1, m)) = m
      /\ \A k \in 1..m : SubSeq(s, 1, m)[k] = s[k]
  <2>1. \A i \in 1..m : s[i] \in S /\ 1 + i - 1 = i
    BY <1>1, <1>2
  <2>2. /\ SubSeq(s, 1, m) \in Seq(S)
        /\ Len(SubSeq(s, 1, m)) = IF 1 <= m THEN m - 1 + 1 ELSE 0
        /\ \A i \in 1..(m - 1 + 1) : SubSeq(s, 1, m)[i] = s[1 + i - 1]
    BY <1>2, <2>1, SubSeqProperties
  <2> QED
    BY <1>2, <2>1, <2>2
<1> DEFINE I == 1..m
<1>5. I \in SUBSET Nat /\ IsFiniteSet(I) /\ Cardinality(I) = m /\ I \in SUBSET DOMAIN s
  BY <1>1, <1>2, CountTo
<1>6. \A k \in 1..m : Order(I)[k] = k
  BY <1>2, OrderOfFirst
<1> HIDE DEF I
<1>7. At(s, I) = [k \in 1..m |-> s[Order(I)[k]]]
  BY <1>5, AtIs
<1>8. At(s, I) \in Seq(S) /\ Len(At(s, I)) = m
  BY <1>5, AtTyped
<1>9. \A k \in 1..m : At(s, I)[k] = SubSeq(s, 1, m)[k]
  BY <1>4, <1>6, <1>7
<1>10. Capped(s) = At(s, I)
  BY <1>3, <1>4, <1>8, <1>9, SameSeq
<1> QED
  BY <1>2, <1>10 DEF m, I

\* Of the facts that pass, in order, the cap leaves the chosen ones.
LEMMA ChosenAre ==
  ASSUME work \in Seq(Facts)
  PROVE  /\ Capped(At(work, Passing)) = At(work, Chosen)
         /\ Chosen \in SUBSET DOMAIN work /\ Cardinality(Chosen) <= MaxFacts
<1> DEFINE I == Passing
           a == Order(I)
           s == At(work, I)
           n == Cardinality(I)
           m == IF Len(s) < MaxFacts THEN Len(s) ELSE MaxFacts
<1>1. I \in SUBSET DOMAIN work
  BY DEF Passing
<1> HIDE DEF I
<1>2. IsFiniteSet(I) /\ I \in SUBSET Nat /\ s \in Seq(Facts) /\ Len(s) = n
  BY <1>1, AtTyped
<1>3. MaxFacts \in Nat /\ n \in Nat
  BY <1>2, IntakeAssumption, FS_CardinalityType
<1>4. m \in 0..MaxFacts /\ m <= Len(s) /\ Capped(s) = At(s, 1..m)
  BY <1>2, CappedIs
<1>5. Arranges(a, I, Upwards(I))
  BY <1>2, OrderSorts
<1>6. \A i \in I : Place(I, Upwards(I), i) = Cardinality(Below(I, i))
  BY <1>2, BelowIs
<1>7. Chosen = {i \in I : Cardinality(Below(I, i)) < MaxFacts}
  BY DEF Chosen, Below, I
<1> DEFINE p(i) == Place(I, Upwards(I), i)
<1>8. Chosen = {i \in I : p(i) < MaxFacts}
  BY <1>6, <1>7
<1>9. /\ a \in [1..n -> I]
      /\ \A i \in I : \E k \in 1..n : a[k] = i
      /\ \A k \in 1..n : p(a[k]) = k - 1
  BY <1>5 DEF Arranges
<1> HIDE DEF a, n, p
<1>10. m = IF n < MaxFacts THEN n ELSE MaxFacts
  BY <1>2
<1> HIDE DEF m
<1>11. Chosen = {a[k] : k \in 1..m}
  <2>1. ASSUME NEW i \in Chosen PROVE \E k \in 1..m : a[k] = i
    <3>1. i \in I /\ p(i) < MaxFacts
      BY <1>8
    <3>2. PICK k \in 1..n : a[k] = i
      BY <1>9, <3>1
    <3>3. k \in 1..m
      BY <1>3, <1>9, <1>10, <3>1, <3>2
    <3> QED
      BY <3>2, <3>3
  <2>2. ASSUME NEW k \in 1..m PROVE a[k] \in Chosen
    <3>1. k \in 1..n /\ k - 1 < MaxFacts
      BY <1>3, <1>10
    <3>2. a[k] \in I /\ p(a[k]) = k - 1
      BY <1>9, <3>1
    <3> QED
      BY <1>8, <3>1, <3>2
  <2> QED
    BY <2>1, <2>2
<1>12. 1..m \in SUBSET (1..n)
  BY <1>2, <1>3, <1>4
<1>13. At(s, 1..m) = At(work, {a[k] : k \in 1..m})
  <2> DEFINE J == 1..m
  <2>1. J \in SUBSET (1..Cardinality(I))
    BY <1>12 DEF n
  <2> HIDE DEF J
  <2>2. At(At(work, I), J) = At(work, {Order(I)[k] : k \in J})
    BY <1>2, <2>1, AtOfAt
  <2> QED
    BY <2>2 DEF J, a
<1>14. Capped(s) = At(work, Chosen)
  BY <1>4, <1>11, <1>13
<1>15. Chosen \in SUBSET DOMAIN work
  BY <1>1, <1>8
<1>16. Cardinality(Chosen) <= MaxFacts
  <2>1. At(s, 1..m) \in Seq(Facts) /\ Len(At(s, 1..m)) = Cardinality(1..m)
    <3>1. DOMAIN s = 1..n
      BY <1>2
    <3> HIDE DEF s
    <3>2. 1..m \in SUBSET DOMAIN s
      BY <1>12, <3>1
    <3> QED
      BY <1>2, <3>2, AtTyped
  <2>2. Cardinality(1..m) = m
    BY <1>4, CountTo
  <2>3. Len(At(work, Chosen)) = Cardinality(Chosen)
    BY <1>15, AtTyped
  <2> QED
    BY <1>3, <1>4, <1>14, <2>1, <2>2, <2>3
<1> QED
  BY <1>14, <1>15, <1>16 DEF s, I

\* The policy leaves of what was kept exactly what is trusted.
LEMMA PolicyLeaves ==
  ASSUME work \in Seq(Facts), kept = At(work, Chosen)
  PROVE  At(kept, {i \in DOMAIN kept : Trusted(kept[i])}) = At(work, ToKeep)
<1> DEFINE I == Chosen
           a == Order(I)
           n == Cardinality(I)
           J == {i \in DOMAIN kept : Trusted(kept[i])}
<1>1. I \in SUBSET DOMAIN work
  BY ChosenAre
<1> HIDE DEF I
<1>2. /\ IsFiniteSet(I) /\ I \in SUBSET Nat
      /\ kept \in Seq(Facts) /\ Len(kept) = n
      /\ \A k \in DOMAIN kept : a[k] \in I /\ kept[k] = work[a[k]]
  BY <1>1, AtTyped DEF I
<1>3. Arranges(a, I, Upwards(I))
  BY <1>2, OrderSorts
<1>4. \A i \in I : \E k \in 1..n : a[k] = i
  BY <1>3 DEF Arranges
<1> HIDE DEF a, n
<1>5. DOMAIN kept = 1..n
  BY <1>2
<1>6. {a[k] : k \in J} = {i \in I : Trusted(work[i])}
  <2>1. \A k \in J : a[k] \in I /\ Trusted(work[a[k]])
    BY <1>2
  <2>2. ASSUME NEW i \in I, Trusted(work[i]) PROVE \E k \in J : a[k] = i
    <3>1. PICK k \in 1..n : a[k] = i
      BY <1>4
    <3>2. k \in DOMAIN kept /\ kept[k] = work[i]
      BY <1>2, <1>5, <3>1
    <3> QED
      BY <2>2, <3>1, <3>2
  <2> QED
    BY <2>1, <2>2
<1>7. J \in SUBSET (1..n)
  BY <1>5
<1> HIDE DEF J
<1>8. At(At(work, I), J) = At(work, {a[k] : k \in J})
  BY <1>2, <1>7, AtOfAt DEF a, n
<1> QED
  BY <1>6, <1>8 DEF J, I, ToKeep

LEMMA NothingChosen ==
  ASSUME work \in Seq(Facts), At(work, Chosen) = <<>>
  PROVE  At(work, ToKeep) = <<>>
<1>1. Chosen \in SUBSET DOMAIN work
  BY ChosenAre
<1>2. IsFiniteSet(Chosen) /\ Len(At(work, Chosen)) = Cardinality(Chosen)
  BY <1>1, AtTyped
<1>3. Cardinality(Chosen) = 0
  BY <1>2
<1>4. Chosen = {}
  BY <1>2, <1>3, FS_EmptySet
<1>5. ToKeep = Chosen
  BY <1>4 DEF ToKeep
<1> QED
  BY <1>5

KeptInv ==
  /\ kept \in Seq(Facts)
  /\ pc \notin {"plan", "done"} => kept = <<>>
  /\ pc = "plan" => kept = At(work, Chosen) /\ Len(kept) <= MaxFacts
  /\ pc = "done" => kept = At(work, ToKeep)
  /\ alerts \subseteq [reason : {"injection_pattern", "policy_violation"}, fact : 1..MaxFacts \cup {Nil}]

LEMMA SameChoice == UNCHANGED <<call, work>> => Chosen' = Chosen /\ ToKeep' = ToKeep
  BY DEF Chosen, ToKeep, Passing, Trusted

LEMMA KeptStep == CallInv /\ WorkInv /\ KeptInv /\ [Next]_vars => KeptInv'
<1> SUFFICES ASSUME WorkInv, KeptInv, [Next]_vars PROVE KeptInv'
  OBVIOUS
<1>0. work \in Seq(Facts)
  BY DEF WorkInv
<1>1. CASE MemoryWrite
  BY <1>1 DEF MemoryWrite, KeptInv
<1>2. CASE Write
  <2> DEFINE A == [reason : {"injection_pattern", "policy_violation"}, fact : 1..MaxFacts \cup {Nil}]
             r == [reason |-> "injection_pattern", fact |-> Nil]
  <2>1. r \in A
    OBVIOUS
  <2>2. alerts' = alerts \/ alerts' = alerts \cup {r}
    BY <1>2 DEF Write
  <2>3. alerts \subseteq A
    BY DEF KeptInv
  <2>4. kept' = kept /\ pc' \notin {"plan", "done"} /\ pc \notin {"plan", "done"}
    BY <1>2 DEF Write
  <2>5. alerts' \subseteq A
    <3> HIDE DEF A, r
    <3> QED
      BY <2>1, <2>2, <2>3
  <2> QED
    BY <2>4, <2>5 DEF KeptInv
<1>3. CASE Extract
  BY <1>3 DEF Extract, Ask, KeptInv
<1>4. CASE MaskFacts
  BY <1>4 DEF MaskFacts, KeptInv
<1>5. CASE Select
  <2>1. UNCHANGED <<call, work, alerts>> /\ kept' = Capped(At(work, Passing))
    BY <1>5 DEF Select
  <2>2. kept' = At(work, Chosen) /\ Chosen \in SUBSET DOMAIN work /\ Cardinality(Chosen) <= MaxFacts
    BY <1>0, <2>1, ChosenAre
  <2>3. kept' \in Seq(Facts) /\ Len(kept') <= MaxFacts
    BY <1>0, <2>2, AtTyped
  <2>4. Chosen' = Chosen /\ ToKeep' = ToKeep
    BY <2>1, SameChoice
  <2>5. pc' = IF kept' = <<>> THEN "done" ELSE "plan"
    BY <1>5 DEF Select
  <2>6. pc' = "done" => kept' = At(work, ToKeep)
    BY <1>0, <2>2, <2>5, NothingChosen
  <2> QED
    BY <2>1, <2>2, <2>3, <2>4, <2>5, <2>6 DEF KeptInv
<1>6. CASE Plan
  <2>1. UNCHANGED <<call, work>> /\ pc' = "done"
    BY <1>6 DEF Plan
  <2>2. kept = At(work, Chosen) /\ Len(kept) <= MaxFacts /\ kept \in Seq(Facts)
    BY <1>6 DEF Plan, KeptInv
  <2> DEFINE J == {i \in DOMAIN kept : Trusted(kept[i])}
  <2>3. kept' = At(kept, J)
    BY <1>6 DEF Plan
  <2>4. kept' = At(work, ToKeep)
    BY <1>0, <2>2, <2>3, PolicyLeaves
  <2>5. kept' \in Seq(Facts)
    <3>1. J \in SUBSET DOMAIN kept
      OBVIOUS
    <3> HIDE DEF J
    <3> QED
      BY <2>2, <2>3, <3>1, AtTyped
  <2>6. alerts' \subseteq
          [reason : {"injection_pattern", "policy_violation"}, fact : 1..MaxFacts \cup {Nil}]
    <3>1. MaxFacts \in Nat /\ \A i \in DOMAIN kept : i \in 1..MaxFacts
      BY <2>2, IntakeAssumption
    <3>2. \A i \in DOMAIN kept :
            [reason |-> "policy_violation", fact |-> i]
              \in [reason : {"injection_pattern", "policy_violation"}, fact : 1..MaxFacts \cup {Nil}]
      BY <3>1
    <3>3. alerts' = alerts \cup {[reason |-> "policy_violation", fact |-> i] :
                                   i \in {i \in DOMAIN kept : ~Trusted(kept[i])}}
      BY <1>6 DEF Plan
    <3> QED
      BY <3>2, <3>3 DEF KeptInv
  <2>7. ToKeep' = ToKeep
    BY <2>1, SameChoice
  <2> QED
    BY <2>1, <2>4, <2>5, <2>6, <2>7 DEF KeptInv
<1>7. CASE UNCHANGED vars
  <2>1. Chosen' = Chosen /\ ToKeep' = ToKeep
    BY <1>7, SameChoice DEF vars
  <2> QED
    BY <1>7, <2>1 DEF vars, KeptInv
<1> QED
  BY <1>1, <1>2, <1>3, <1>4, <1>5, <1>6, <1>7 DEF Next

-----------------------------------------------------------------------------
(* The theorems.                                                           *)

IntakeInv == CallInv /\ WorkInv /\ KeptInv

LEMMA IntakeInit == Init => IntakeInv
<1> SUFFICES ASSUME Init PROVE IntakeInv
  OBVIOUS
<1>1. CallInv
  BY CallInit
<1>2. pc \in {"memory_write", "write"} /\ work = <<>> /\ kept = <<>> /\ alerts = {}
  BY DEF Init
<1>3. WorkInv
  BY <1>2 DEF WorkInv, Extracted, Cut
<1>4. KeptInv
  BY <1>2 DEF KeptInv
<1> QED
  BY <1>1, <1>3, <1>4 DEF IntakeInv

LEMMA IntakeAlways == Spec => []IntakeInv
<1>1. IntakeInv /\ [Next]_vars => IntakeInv'
  BY CallStep, WorkStep, KeptStep DEF IntakeInv
<1> QED
  BY <1>1, IntakeInit, PTL DEF Spec

\* The state is well formed: facts have a known type, a confidence in percent, and
\* the cap bounds what the policy refuses.
THEOREM Typed == Spec => []TypeOK
<1>1. IntakeInv => TypeOK
  BY DEF IntakeInv, CallInv, WorkInv, KeptInv, TypeOK, Legible
<1> QED
  BY <1>1, IntakeAlways, PTL

\* A write keeps, in order, exactly the facts that score high enough, come
\* early enough for the cap and are trusted enough (manager.py:162-205).
THEOREM RightFactsKept == Spec => []KeepsTheRightFacts
<1>1. IntakeInv => KeepsTheRightFacts
  BY DEF IntakeInv, KeptInv, KeepsTheRightFacts, ToKeep
<1> QED
  BY <1>1, IntakeAlways, PTL

\* Every item of a facts list leaves at least one fact, and facts stay in the
\* order of their items (manager.py:142-157).
THEOREM ItemsExtracted == Spec => []EveryItemExtracted
<1>1. IntakeInv => EveryItemExtracted
  <2> SUFFICES ASSUME IntakeInv, call.raw = Nil, pc \in {"mask", "select", "plan", "done"}
               PROVE  /\ {f.item : f \in ToSet(work)} = DOMAIN call.facts
                      /\ \A i, j \in DOMAIN work : i < j => work[i].item <= work[j].item
    BY DEF EveryItemExtracted
  <2>1. call.facts \in Seq(GivenFacts) /\ Covers(work, Len(call.facts))
    BY DEF IntakeInv, WorkInv, Extracted
  <2>2. DOMAIN call.facts = 1..Len(call.facts)
    BY <2>1
  <2>3. {f.item : f \in ToSet(work)} = {work[i].item : i \in DOMAIN work}
    BY DEF ToSet
  <2> QED
    BY <2>1, <2>2, <2>3 DEF Covers
<1> QED
  BY <1>1, IntakeAlways, PTL

\* Where the hits do not overlap, and always with Presidio, whose hits are
\* deduplicated, a masked fact is its text with exactly the hits replaced
\* (masker.py:41-50, pii_detector.py:141-150).
THEOREM HitsReplaced == Spec => []MaskedExactly
<1>1. IntakeInv => MaskedExactly
  <2> SUFFICES ASSUME IntakeInv, NEW f \in ToSet(kept), config.pii,
                      config.presidio \/ Disjoint(Detect(f.said))
               PROVE  f.body = Replaced(f.said, Detect(f.said))
    BY DEF MaskedExactly
  <2>1. CallInv /\ WorkInv /\ KeptInv
    BY DEF IntakeInv
  <2>2. work \in Seq(Facts) /\ pc \in {"plan", "done"}
    <3>1. kept # <<>>
      BY DEF ToSet
    <3> QED
      BY <2>1, <3>1 DEF WorkInv, KeptInv
  <2>3. PICK I \in SUBSET DOMAIN work : kept = At(work, I)
    <3>1. Chosen \in SUBSET DOMAIN work /\ ToKeep \in SUBSET DOMAIN work
      BY <2>2, ChosenAre DEF ToKeep
    <3> QED
      BY <2>1, <2>2, <3>1 DEF KeptInv
  <2>4. PICK i \in DOMAIN work : f = work[i]
    <3>1. PICK k \in DOMAIN kept : f = kept[k]
      BY DEF ToSet
    <3> QED
      BY <2>2, <2>3, <3>1, AtTyped
  <2>5. f \in Facts /\ f.said \in Sentences /\ f.said.length \in Nat
    <3>1. f \in Facts
      BY <2>2, <2>4
    <3>2. f.said \in Sentences
      BY <3>1 DEF Facts
    <3> QED
      BY <3>1, <3>2, SentenceTyped
  <2>6. f.body = Mask(Units(f.said), Detect(f.said))
    BY <2>1, <2>2, <2>4 DEF WorkInv, Cut, AllMasked
  <2>7. Within(Detect(f.said), f.said.length) /\ Disjoint(Detect(f.said))
    BY <2>1, <2>5, ConfigTyped, DetectWithin
  <2> QED
    BY <2>5, <2>6, <2>7, MaskExact
<1> QED
  BY <1>1, IntakeAlways, PTL
=============================================================================
