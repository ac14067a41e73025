------------------------ MODULE ConnectionPoolProofs ------------------------
(***************************************************************************)
(* Proofs about ConnectionPool, for a pool of any size and any number of   *)
(* calls: no connection is lost but to a cancellation inside _scoped, the  *)
(* pool wedges only when nested lookups can hoard it, and a find answers   *)
(* with a customer that has the identifier.                                *)
(***************************************************************************)
EXTENDS ConnectionPool, FiniteSetTheorems, TLAPS

Points == {"new", "acquire", "scope", "query", "insert", "release", "done"}
Answers == [id : Customers \cup {Nil}, identifiers : SUBSET Identifiers]
Record ==
  [method : Methods \cup {Nil}, key : Identifiers \cup {Nil}, customer : Customers \cup {Nil},
   depth : 1 .. 3, at : Points, found : Answers, raised : BOOLEAN]

\* What each method needs of its arguments, and how deep it can be.
ArgsOf(r, rows) ==
  /\ r.method \in {"find_by_identifier", "add_identifier"} => r.key \in Identifiers
  /\ r.method \in {"get_customer", "upsert_customer", "add_identifier"} => r.customer \in Customers
  /\ r.method = "find_by_identifier" /\ r.depth > 1 => r.customer \in Customers
  /\ r.depth <= Chain(r.method)
  /\ r.at = "insert" => r.method = "add_identifier" /\ r.customer \in rows
  /\ r.at \notin {"new", "done"} => r.method \in Methods
  /\ r.at = "new" => r.depth = 1

ArgsOK == \A c \in Calls : ArgsOf(call[c], customers)

\* A row of channel_identifiers names a customer that has a row.
ForeignKey == \A i \in Identifiers : owner[i] # Nil => owner[i] \in customers

TypeInv == TypeOK /\ ArgsOK /\ ForeignKey

-----------------------------------------------------------------------------
(* The records that the actions make of a call.                            *)

LEMMA NotFoundType == NotFound \in Answers
  BY DEF NotFound, Answers

LEMMA NotCalledType == NotCalled \in Record
  BY NotFoundType DEF NotCalled, Record, Points

LEMMA OverType == Over \in Record
  BY NotCalledType DEF Over, Record, Points

\* What the end of a method makes of a call.
LEMMA UnwoundType ==
  ASSUME NEW r \in Record
  PROVE  Unwound(r) \in Record
<1>1. ASSUME r.depth > 1
      PROVE  [r EXCEPT !.depth = @ - 1, !.at = "release"] \in Record
  <2>1. ASSUME NEW d \in 1 .. 3 PROVE [r EXCEPT !.depth = d, !.at = "release"] \in Record
    BY DEF Record, Points
  <2>2. r.depth - 1 \in 1 .. 3
    BY <1>1 DEF Record
  <2> QED
    BY <2>1, <2>2
<1>2. [r EXCEPT !.at = "done"] \in Record
  BY DEF Record, Points
<1> QED
  BY <1>1, <1>2, OverType DEF Unwound, Ended

LEMMA RaisedType ==
  ASSUME NEW r \in Record
  PROVE  Raised(r) \in Record
<1> DEFINE find == r.method = "find_by_identifier"
<1>1. ASSUME NEW b \in BOOLEAN PROVE [r EXCEPT !.raised = b] \in Record
  BY DEF Record
<1>2. find \in BOOLEAN
  BY Zenon
<1> HIDE DEF find
<1>3. [r EXCEPT !.raised = find] \in Record
  BY <1>1, <1>2, Zenon
<1> QED
  BY <1>3, Zenon DEF Raised, find

LEMMA FailedType ==
  ASSUME NEW r \in Record
  PROVE  Failed(r) \in Record
<1>1. [r EXCEPT !.at = "release"] \in Record
  BY DEF Record, Points
<1> QED
  BY <1>1, RaisedType DEF Failed

\* A lookup that goes one method deeper.
LEMMA DeeperType ==
  ASSUME NEW r \in Record, NEW u \in Customers \cup {Nil}, NEW d \in 1 .. 3
  PROVE  /\ [r EXCEPT !.depth = d, !.at = "acquire"] \in Record
         /\ [r EXCEPT !.customer = u, !.depth = d, !.at = "acquire"] \in Record
<1>1. [r EXCEPT !.depth = d, !.at = "acquire"] \in Record
  BY DEF Record, Points
<1>2. [r EXCEPT !.customer = u] \in Record
  BY DEF Record
<1>3. [[r EXCEPT !.customer = u] EXCEPT !.depth = d] \in Record
  BY <1>2 DEF Record
<1>4. [[[r EXCEPT !.customer = u] EXCEPT !.depth = d] EXCEPT !.at = "acquire"] \in Record
  BY <1>3 DEF Record, Points
<1>5. [r EXCEPT !.customer = u, !.depth = d, !.at = "acquire"]
        = [[[r EXCEPT !.customer = u] EXCEPT !.depth = d] EXCEPT !.at = "acquire"]
  BY DEF Record
<1> QED
  BY <1>1, <1>4, <1>5

LEMMA InitTypes == Init => TypeInv
<1> SUFFICES ASSUME Init PROVE TypeInv
  OBVIOUS
<1>1. TypeOK
  BY PoolAssumption, NotCalledType DEF Init, TypeOK, Record, Points, Answers
<1>2. ArgsOK
  BY PoolAssumption DEF Init, ArgsOK, ArgsOf, NotCalled, Chain, Methods, Nested
<1>3. ForeignKey
  BY DEF Init, ForeignKey
<1> QED
  BY <1>1, <1>2, <1>3 DEF TypeInv

-----------------------------------------------------------------------------
(* Every step keeps the types.                                             *)

\* TypeOK with its set of records named.
LEMMA TypeOKRecords ==
  TypeOK <=> /\ idle \in Nat /\ leaked \in Nat /\ cancels \in Nat
             /\ customers \subseteq Customers
             /\ owner \in [Identifiers -> Customers \cup {Nil}]
             /\ asked \in [Calls -> Customers \cup {Nil}]
             /\ call \in [Calls -> Record]
  BY Zenon DEF TypeOK, Record, Points, Answers

LEMMA SetType ==
  ASSUME TypeOK, NEW c \in Calls, NEW r \in Record, Set(c, r)
  PROVE  /\ call' \in [Calls -> Record]
         /\ call'[c] = r
         /\ \A d \in Calls \ {c} : call'[d] = call[d]
  BY TypeOKRecords DEF Set

LEMMA GotoIsSet ==
  ASSUME TypeOK, NEW c \in Calls, NEW p \in Points, Goto(c, p)
  PROVE  /\ [call[c] EXCEPT !.at = p] \in Record
         /\ Set(c, [call[c] EXCEPT !.at = p])
<1>1. call[c] \in Record
  BY TypeOKRecords
<1>2. [call[c] EXCEPT !.at = p] \in Record
  BY <1>1 DEF Record
<1>3. Set(c, [call[c] EXCEPT !.at = p])
  BY DEF Goto, Set
<1> QED
  BY <1>2, <1>3

\* Every step changes one call, to a record of the type.
LEMMA StepSetsCall ==
  ASSUME TypeInv, NEW c \in Calls,
         \/ \E m \in Methods, i \in Identifiers \cup {Nil}, u \in Customers \cup {Nil} : Begin(c, m, i, u)
         \/ Step(c) \/ CancelWait(c) \/ CancelScope(c)
  PROVE  \E r \in Record : Set(c, r)
<1> USE DEF TypeInv
<1>0. call[c] \in Record
  BY TypeOKRecords
<1>1. ASSUME NEW p \in Points, Goto(c, p) PROVE \E r \in Record : Set(c, r)
  BY <1>1, GotoIsSet
<1>2. ASSUME NEW m \in Methods, NEW i \in Identifiers \cup {Nil}, NEW u \in Customers \cup {Nil},
             Begin(c, m, i, u)
      PROVE  \E r \in Record : Set(c, r)
  <2>1. [NotCalled EXCEPT !.method = m, !.key = i, !.customer = u, !.at = "acquire"] \in Record
    BY NotCalledType DEF Record, Points
  <2> QED
    BY <1>2, <2>1 DEF Begin
<1>3. CASE Acquire(c)
  BY <1>1, <1>3 DEF Acquire, Points
<1>4. CASE Scope(c)
  BY <1>1, <1>4 DEF Scope, Points
<1>5. CASE ScopeFails(c)
  BY <1>5, <1>0, RaisedType, UnwoundType DEF ScopeFails
<1>6. CASE FindRow(c)
  <2>1. CASE owner[call[c].key] = Nil
    BY <1>1, <1>6, <2>1 DEF FindRow, Points
  <2>2. CASE owner[call[c].key] # Nil
    <3>1. call[c].key \in Identifiers
      BY <1>6 DEF FindRow, ArgsOK, ArgsOf
    <3>2. owner[call[c].key] \in Customers \cup {Nil}
      BY <3>1, TypeOKRecords
    <3>3. [call[c] EXCEPT !.customer = owner[call[c].key], !.depth = 2, !.at = "acquire"] \in Record
      <4>1. 2 \in 1 .. 3
        OBVIOUS
      <4>2. \A u \in Customers \cup {Nil}, d \in 1 .. 3 :
              [call[c] EXCEPT !.customer = u, !.depth = d, !.at = "acquire"] \in Record
        BY <1>0, DeeperType, Zenon
      <4> QED
        BY <3>2, <4>1, <4>2, Zenon
    <3> QED
      BY <1>6, <2>2, <3>3 DEF FindRow
  <2> QED
    BY <2>1, <2>2
<1>7. CASE GetRow(c)
  <2>1. CASE call[c].customer \notin customers
    BY <1>1, <1>7, <2>1 DEF GetRow, Points
  <2>2. CASE call[c].customer \in customers
    <3>1. call[c].depth + 1 \in 1 .. 3
      <4> DEFINE low == IF call[c].method = "get_customer" THEN 1 ELSE 2
                 top == Chain(call[c].method)
      <4>1. call[c].depth \in low .. top - 1
        BY <1>7 DEF GetRow
      <4>2. low \in {1, 2} /\ top \in 1 .. 3
        BY DEF Chain
      <4>3. call[c].depth \in 1 .. 3
        BY <1>0 DEF Record
      <4> HIDE DEF low, top
      <4> QED
        BY <4>1, <4>2, <4>3
    <3>2. [call[c] EXCEPT !.depth = @ + 1, !.at = "acquire"] \in Record
      BY <1>0, <3>1, DeeperType
    <3> QED
      BY <1>7, <2>2, <3>2 DEF GetRow
  <2> QED
    BY <2>1, <2>2
<1>8. CASE ListRows(c)
  <2> DEFINE rows == {i \in Identifiers : owner[i] = call[c].customer}
             f == [id |-> call[c].customer, identifiers |-> rows]
  <2>1. f \in Answers
    BY <1>0 DEF Record, Answers
  <2>2. ASSUME NEW a \in Answers
        PROVE  [call[c] EXCEPT !.found = a, !.at = "release"] \in Record
    BY <1>0 DEF Record, Points
  <2>3. [call[c] EXCEPT !.found = f, !.at = "release"] \in Record
    BY <2>1, <2>2
  <2>4. Set(c, [call[c] EXCEPT !.found = f, !.at = "release"])
    BY <1>8, Zenon DEF ListRows
  <2> QED
    BY <2>3, <2>4, Zenon
<1>9. CASE Upsert(c)
  BY <1>1, <1>9 DEF Upsert, Points
<1>10. CASE FindTenant(c)
  <2>1. CASE call[c].customer \in customers
    BY <1>1, <1>10, <2>1 DEF FindTenant, Points
  <2>2. CASE call[c].customer \notin customers
    BY <1>0, <1>10, <2>2, FailedType DEF FindTenant
  <2> QED
    BY <2>1, <2>2
<1>11. CASE Insert(c)
  BY <1>1, <1>11 DEF Insert, Points
<1>12. CASE Other(c)
  BY <1>1, <1>12 DEF Other, Points
<1>13. CASE QueryFails(c)
  BY <1>0, <1>13, FailedType DEF QueryFails
<1>14. CASE Release(c)
  BY <1>0, <1>14, UnwoundType DEF Release
<1>15. CASE CancelWait(c)
  BY <1>0, <1>15, RaisedType, UnwoundType DEF CancelWait
<1>16. CASE CancelScope(c)
  BY <1>0, <1>16, RaisedType, UnwoundType DEF CancelScope
<1> QED
  BY <1>2, <1>3, <1>4, <1>5, <1>6, <1>7, <1>8, <1>9, <1>10, <1>11, <1>12, <1>13, <1>14,
     <1>15, <1>16 DEF Step

-----------------------------------------------------------------------------
(* The arguments.                                                          *)

LEMMA MoveArgs ==
  ASSUME NEW r \in Record, NEW rows, ArgsOf(r, rows), r.method \in Methods,
         NEW p \in {"acquire", "scope", "query", "release", "done"}
  PROVE  ArgsOf([r EXCEPT !.at = p], rows)
  BY DEF ArgsOf, Record

LEMMA RaisedArgs ==
  ASSUME NEW r \in Record, NEW rows, ArgsOf(r, rows)
  PROVE  ArgsOf(Raised(r), rows)
  BY DEF ArgsOf, Record, Raised

LEMMA FailedArgs ==
  ASSUME NEW r \in Record, NEW rows, ArgsOf(r, rows), r.method \in Methods
  PROVE  ArgsOf(Failed(r), rows)
<1>1. [r EXCEPT !.at = "release"] \in Record
  BY DEF Record, Points
<1>2. ArgsOf([r EXCEPT !.at = "release"], rows)
  BY MoveArgs
<1> QED
  BY <1>1, <1>2, RaisedArgs DEF Failed

LEMMA UnwoundArgs ==
  ASSUME NEW r \in Record, NEW rows, ArgsOf(r, rows), r.method \in Methods
  PROVE  ArgsOf(Unwound(r), rows)
<1>1. CASE r.depth > 1
  <2>1. ArgsOf([r EXCEPT !.depth = @ - 1, !.at = "release"], rows)
    <3>1. Chain(r.method) \in 1 .. 3 /\ r.depth \in 1 .. 3
      BY DEF Chain, Record
    <3> HIDE DEF Chain
    <3> QED
      BY <1>1, <3>1 DEF ArgsOf, Record
  <2> QED
    BY <1>1, <2>1 DEF Unwound
<1>2. CASE ~(r.depth > 1)
  <2>1. ArgsOf([r EXCEPT !.at = "done"], rows)
    BY MoveArgs
  <2>2. ArgsOf(Over, rows)
    BY PoolAssumption DEF ArgsOf, Over, NotCalled, Chain, Methods, Nested
  <2> QED
    BY <1>2, <2>1, <2>2 DEF Unwound, Ended
<1> QED
  BY <1>1, <1>2

LEMMA MoreRows ==
  ASSUME NEW r, NEW rows, NEW more, rows \subseteq more, ArgsOf(r, rows)
  PROVE  ArgsOf(r, more)
  BY DEF ArgsOf

LEMMA AnswerArgs ==
  ASSUME NEW r \in Record, NEW rows, ArgsOf(r, rows), r.method \in Methods, NEW f
  PROVE  ArgsOf([r EXCEPT !.found = f, !.at = "release"], rows)
  BY DEF ArgsOf, Record

\* A step that changes one call, to one with its arguments, keeps the others'.
LEMMA SetArgs ==
  ASSUME TypeInv, NEW c \in Calls, NEW r, Set(c, r), customers \subseteq customers',
         ArgsOf(r, customers')
  PROVE  ArgsOK'
<1>1. call'[c] = r /\ \A d \in Calls \ {c} : call'[d] = call[d]
  BY TypeOKRecords DEF Set, TypeInv
<1>2. \A d \in Calls : ArgsOf(call[d], customers')
  BY MoreRows DEF TypeInv, ArgsOK
<1>3. \A d \in Calls : ArgsOf(call'[d], customers')
  BY <1>1, <1>2
<1> QED
  BY <1>3 DEF ArgsOK, ArgsOf

LEMMA GotoArgs ==
  ASSUME TypeInv, NEW c \in Calls, NEW p \in {"acquire", "scope", "query", "release"},
         call[c].at \notin {"new", "done"}, Goto(c, p), customers \subseteq customers'
  PROVE  ArgsOK'
<1>1. call[c] \in Record /\ ArgsOf(call[c], customers) /\ call[c].method \in Methods
  BY TypeOKRecords DEF TypeInv, ArgsOK, ArgsOf
<1>2. ArgsOf([call[c] EXCEPT !.at = p], customers')
  BY <1>1, MoveArgs, MoreRows
<1>3. Set(c, [call[c] EXCEPT !.at = p])
  BY DEF Goto, Set
<1> QED
  BY <1>2, <1>3, SetArgs

LEMMA StepArgs ==
  ASSUME TypeInv, NEW c \in Calls,
         \/ \E m \in Methods, i \in Identifiers \cup {Nil}, u \in Customers \cup {Nil} : Begin(c, m, i, u)
         \/ Step(c) \/ CancelWait(c) \/ CancelScope(c)
  PROVE  ArgsOK'
<1> DEFINE r == call[c]
<1>0. r \in Record /\ ArgsOf(r, customers)
  BY TypeOKRecords DEF TypeInv, ArgsOK
<1>1. r.at \notin {"new", "done"} => r.method \in Methods
  BY <1>0 DEF ArgsOf
<1>2. ASSUME NEW m \in Methods, NEW i \in Identifiers \cup {Nil}, NEW u \in Customers \cup {Nil},
             Begin(c, m, i, u)
      PROVE  ArgsOK'
  <2> DEFINE n == [NotCalled EXCEPT !.method = m, !.key = i, !.customer = u, !.at = "acquire"]
  <2>1. ArgsOf(n, customers')
    <3>1. n.method = m /\ n.key = i /\ n.customer = u /\ n.depth = 1 /\ n.at = "acquire"
      BY DEF NotCalled
    <3>2. /\ m \in {"find_by_identifier", "add_identifier"} => i \in Identifiers
          /\ m \in {"get_customer", "upsert_customer", "add_identifier"} => u \in Customers
      BY <1>2 DEF Begin
    <3>3. 1 <= Chain(m)
      BY DEF Chain
    <3> HIDE DEF n
    <3> QED
      BY <3>1, <3>2, <3>3 DEF ArgsOf
  <2> QED
    BY <1>2, <2>1, SetArgs DEF Begin
<1>3. CASE Acquire(c)
  BY <1>3, GotoArgs DEF Acquire
<1>4. CASE Scope(c)
  BY <1>4, GotoArgs DEF Scope
<1>5. CASE ScopeFails(c)
  <2>1. ArgsOf(Unwound(Raised(r)), customers')
    <3>1. Raised(r).method = r.method
      BY <1>0 DEF Raised, Record
    <3> QED
      BY <1>0, <1>1, <1>5, <3>1, RaisedArgs, RaisedType, UnwoundArgs DEF ScopeFails
  <2> QED
    BY <1>5, <2>1, SetArgs DEF ScopeFails
<1>6. CASE FindRow(c)
  <2>1. CASE owner[r.key] = Nil
    BY <1>6, <2>1, GotoArgs DEF FindRow
  <2>2. CASE owner[r.key] # Nil
    <3> DEFINE n == [r EXCEPT !.customer = owner[r.key], !.depth = 2, !.at = "acquire"]
    <3>1. owner[r.key] \in Customers
      BY <1>0, <1>6, <2>2, TypeOKRecords DEF FindRow, ArgsOf, TypeInv
    <3>2. ArgsOf(n, customers')
      BY <1>0, <1>1, <1>6, <3>1 DEF FindRow, ArgsOf, Record, Chain
    <3> QED
      BY <1>6, <2>2, <3>2, SetArgs DEF FindRow
  <2> QED
    BY <2>1, <2>2
<1>7. CASE GetRow(c)
  <2>1. CASE r.customer \notin customers
    BY <1>7, <2>1, GotoArgs DEF GetRow
  <2>2. CASE r.customer \in customers
    <3> DEFINE n == [r EXCEPT !.depth = @ + 1, !.at = "acquire"]
    <3>1. r.customer \in Customers
      BY <2>2, TypeOKRecords DEF TypeInv
    <3>2. r.depth + 1 <= Chain(r.method)
      <4>1. /\ r.depth \in (IF r.method = "get_customer" THEN 1 ELSE 2) .. Chain(r.method) - 1
            /\ Chain(r.method) \in 1 .. 3 /\ r.depth \in 1 .. 3
        BY <1>0, <1>7 DEF GetRow, Chain, Record
      <4> HIDE DEF Chain
      <4> QED
        BY <4>1
    <3>3. ArgsOf(n, customers')
      BY <1>0, <1>1, <1>7, <3>1, <3>2 DEF GetRow, ArgsOf, Record
    <3> QED
      BY <1>7, <2>2, <3>3, SetArgs DEF GetRow
  <2> QED
    BY <2>1, <2>2
<1>8. CASE ListRows(c)
  <2> DEFINE rows == {i \in Identifiers : owner[i] = r.customer}
  <2>1. ASSUME NEW f PROVE ArgsOf([r EXCEPT !.found = f, !.at = "release"], customers')
    <3>1. r.method \in Methods
      BY <1>1, <1>8 DEF ListRows
    <3>2. ArgsOf([r EXCEPT !.found = f, !.at = "release"], customers)
      BY <1>0, <3>1, AnswerArgs, Zenon
    <3>3. customers' = customers
      BY <1>8 DEF ListRows
    <3> QED
      BY <3>2, <3>3, Zenon
  <2>2. Set(c, [r EXCEPT !.found = [id |-> r.customer, identifiers |-> rows], !.at = "release"])
    BY <1>8, Zenon DEF ListRows
  <2>3. customers \subseteq customers'
    BY <1>8 DEF ListRows
  <2> QED
    BY <2>1, <2>2, <2>3, SetArgs
<1>9. CASE Upsert(c)
  BY <1>9, GotoArgs DEF Upsert
<1>10. CASE FindTenant(c)
  <2>1. CASE r.customer \in customers
    <3>1. Set(c, [r EXCEPT !.at = "insert"])
      BY <1>10, <2>1 DEF FindTenant, Goto, Set
    <3>2. ArgsOf([r EXCEPT !.at = "insert"], customers')
      BY <1>0, <1>1, <1>10, <2>1 DEF FindTenant, ArgsOf, Record
    <3> QED
      BY <1>10, <3>1, <3>2, SetArgs DEF FindTenant
  <2>2. CASE r.customer \notin customers
    BY <1>0, <1>1, <1>10, <2>2, FailedArgs, SetArgs DEF FindTenant
  <2> QED
    BY <2>1, <2>2
<1>11. CASE Insert(c)
  BY <1>11, GotoArgs DEF Insert
<1>12. CASE Other(c)
  BY <1>12, GotoArgs DEF Other
<1>13. CASE QueryFails(c)
  BY <1>0, <1>1, <1>13, FailedArgs, SetArgs DEF QueryFails
<1>14. CASE Release(c)
  BY <1>0, <1>1, <1>14, UnwoundArgs, SetArgs DEF Release
<1>15. CASE CancelWait(c) \/ CancelScope(c)
  <2>1. ArgsOf(Unwound(Raised(r)), customers')
    <3>1. Raised(r).method = r.method
      BY <1>0 DEF Raised, Record
    <3> QED
      BY <1>0, <1>1, <1>15, <3>1, RaisedArgs, RaisedType, UnwoundArgs DEF CancelWait, CancelScope
  <2> QED
    BY <1>15, <2>1, SetArgs DEF CancelWait, CancelScope
<1> QED
  BY <1>2, <1>3, <1>4, <1>5, <1>6, <1>7, <1>8, <1>9, <1>10, <1>11, <1>12, <1>13, <1>14,
     <1>15 DEF Step

-----------------------------------------------------------------------------
(* Type correctness.                                                       *)

LEMMA NextTypes == TypeInv /\ [Next]_vars => TypeInv'
<1> SUFFICES ASSUME TypeInv, [Next]_vars PROVE TypeInv'
  OBVIOUS
<1>1. CASE UNCHANGED vars
  BY <1>1, Zenon DEF vars, TypeInv, TypeOK, ArgsOK, ForeignKey
<1>2. ASSUME NEW c \in Calls,
             \/ \E m \in Methods, i \in Identifiers \cup {Nil}, u \in Customers \cup {Nil} :
                  Begin(c, m, i, u)
             \/ Step(c) \/ CancelWait(c) \/ CancelScope(c)
      PROVE  TypeInv'
  <2>1. call' \in [Calls -> Record]
    BY <1>2, StepSetsCall, SetType DEF TypeInv
  <2>2. idle' \in Nat /\ leaked' \in Nat /\ cancels' \in Nat
    <3>1. /\ idle' = idle \/ idle' = idle + 1 \/ (idle > 0 /\ idle' = idle - 1)
          /\ leaked' = leaked \/ leaked' = leaked + 1
          /\ cancels' = cancels \/ cancels' = cancels + 1
      BY <1>2 DEF Begin, Step, Acquire, Scope, ScopeFails, FindRow, GetRow, ListRows, Upsert,
        FindTenant, Insert, Other, QueryFails, Release, CancelWait, CancelScope
    <3>2. idle \in Nat /\ leaked \in Nat /\ cancels \in Nat
      BY DEF TypeInv, TypeOK
    <3> QED
      BY <3>1, <3>2
  <2>3. call[c].method \in {"upsert_customer", "add_identifier"} => call[c].customer \in Customers
    BY DEF TypeInv, ArgsOK, ArgsOf
  <2>4. call[c].at = "insert" => call[c].method = "add_identifier" /\ call[c].customer \in customers
    BY DEF TypeInv, ArgsOK, ArgsOf
  <2>5. /\ customers \subseteq customers' /\ customers' \subseteq Customers
        /\ \/ UNCHANGED owner
           \/ /\ call[c].customer \in customers
              /\ owner' = [owner EXCEPT ![call[c].key] = IF @ = Nil THEN call[c].customer ELSE @]
    BY <1>2, <2>3, <2>4, TypeOKRecords DEF TypeInv, Begin, Step, Acquire, Scope, ScopeFails, FindRow,
      GetRow, ListRows, Upsert, FindTenant, Insert, Other, QueryFails, Release, CancelWait,
      CancelScope
  <2>6. owner' \in [Identifiers -> Customers \cup {Nil}] /\ ForeignKey'
    BY <2>5, TypeOKRecords DEF TypeInv, ForeignKey
  <2>7. asked' \in [Calls -> Customers \cup {Nil}]
    <3>1. CASE UNCHANGED asked
      BY <3>1, TypeOKRecords DEF TypeInv
    <3>2. ASSUME NEW m \in Methods, NEW i \in Identifiers \cup {Nil}, NEW u \in Customers \cup {Nil},
                 Begin(c, m, i, u)
          PROVE  asked' \in [Calls -> Customers \cup {Nil}]
      <4>1. (IF m = "find_by_identifier" THEN owner[i] ELSE Nil) \in Customers \cup {Nil}
        BY <3>2, TypeOKRecords DEF TypeInv, Begin
      <4> QED
        BY <3>2, <4>1, TypeOKRecords DEF TypeInv, Begin
    <3>3. ~(UNCHANGED asked) =>
            \E m \in Methods, i \in Identifiers \cup {Nil}, u \in Customers \cup {Nil} : Begin(c, m, i, u)
      BY <1>2 DEF Step, Acquire, Scope, ScopeFails, FindRow, GetRow, ListRows, Upsert, FindTenant,
        Insert, Other, QueryFails, Release, CancelWait, CancelScope
    <3> QED
      BY <3>1, <3>2, <3>3
  <2>8. TypeOK'
    BY <2>1, <2>2, <2>5, <2>6, <2>7, Zenon DEF TypeOK, Record, Points, Answers
  <2>9. ArgsOK'
    BY <1>2, StepArgs
  <2> QED
    BY <2>6, <2>8, <2>9 DEF TypeInv
<1> QED
  BY <1>1, <1>2 DEF Next

\* The state is well formed: each call is in a method that exists, no deeper than
\* its chain, with the arguments the method needs, and rows reference rows.
THEOREM PoolTypes == Spec => []TypeInv
<1>1. Init => TypeInv
  BY InitTypes
<1>2. TypeInv /\ [Next]_vars => TypeInv'
  BY NextTypes
<1> QED
  BY <1>1, <1>2, PTL DEF Spec

-----------------------------------------------------------------------------
(* What a find answers.                                                    *)

\* What is so of a find all along: the row it has seen is still there, and it is
\* in what the find has made of the rows.
FindOf(r, was, o) ==
  r.method = "find_by_identifier" =>
    /\ was # Nil => o[r.key] # Nil
    /\ r.depth > 1 => o[r.key] = r.customer
    /\ r.found # NotFound =>
         r.found.id # Nil /\ o[r.key] = r.found.id /\ r.key \in r.found.identifiers
    /\ r.found = NotFound /\ ~r.raised /\ r.at \in {"release", "done"} => was = Nil

FindInv == \A c \in Calls : FindOf(call[c], asked[c], owner)

\* A row is never changed or deleted.
LEMMA RowsStay ==
  ASSUME TypeInv, [Next]_vars, NEW i \in Identifiers, owner[i] # Nil
  PROVE  owner'[i] = owner[i]
<1>1. CASE UNCHANGED vars
  BY <1>1 DEF vars
<1>2. CASE \E c \in Calls : Insert(c)
  BY <1>2, TypeOKRecords DEF Insert, TypeInv
<1>3. UNCHANGED owner \/ \E c \in Calls : Insert(c)
  BY DEF Next, vars, Begin, Step, Acquire, Scope, ScopeFails, FindRow, GetRow, ListRows, Upsert,
    FindTenant, Other, QueryFails, Release, CancelWait, CancelScope
<1> QED
  BY <1>2, <1>3

\* So that what is true of a find stays true while others take steps.
LEMMA FindStays ==
  ASSUME TypeInv, [Next]_vars, NEW r \in Record, ArgsOf(r, customers), NEW was,
         FindOf(r, was, owner)
  PROVE  FindOf(r, was, owner')
<1>1. CASE r.method = "find_by_identifier"
  <2>1. r.key \in Identifiers
    BY <1>1 DEF ArgsOf
  <2>2. r.depth > 1 => r.customer # Nil
    BY <1>1, PoolAssumption DEF ArgsOf
  <2>3. owner[r.key] # Nil => owner'[r.key] = owner[r.key]
    BY <2>1, RowsStay
  <2> QED
    BY <1>1, <2>2, <2>3 DEF FindOf
<1>2. CASE r.method # "find_by_identifier"
  BY <1>2 DEF FindOf
<1> QED
  BY <1>1, <1>2

LEMMA FailedFind ==
  ASSUME NEW r \in Record, NEW was, NEW o, FindOf(r, was, o)
  PROVE  FindOf(Failed(r), was, o) /\ FindOf(Raised(r), was, o)
  BY DEF FindOf, Failed, Raised, Record

\* A method that ends, having raised or being in its `finally`.
LEMMA UnwoundFind ==
  ASSUME NEW r \in Record, NEW was, NEW o, FindOf(r, was, o),
         r.method = "find_by_identifier" => r.raised \/ r.at = "release"
  PROVE  FindOf(Unwound(r), was, o)
<1>1. CASE r.depth > 1
  BY <1>1 DEF FindOf, Unwound, Record
<1>2. CASE ~(r.depth > 1) /\ r.method = "find_by_identifier"
  BY <1>2 DEF FindOf, Unwound, Ended, Record
<1>3. CASE ~(r.depth > 1) /\ r.method # "find_by_identifier"
  <2>1. Over.method # "find_by_identifier"
    BY PoolAssumption DEF Over, NotCalled, Methods, Nested
  <2> QED
    BY <1>3, <2>1 DEF FindOf, Unwound, Ended
<1> QED
  BY <1>1, <1>2, <1>3

\* On the way to the next await, a find that is not over remembers what it knew.
LEMMA MoveFind ==
  ASSUME NEW r \in Record, NEW was, NEW o, FindOf(r, was, o),
         NEW p, p \notin {"release", "done"} \/ r.method # "find_by_identifier"
  PROVE  FindOf([r EXCEPT !.at = p], was, o)
  BY DEF FindOf, Record

LEMMA SetFind ==
  ASSUME TypeInv, FindInv, [Next]_vars, NEW c \in Calls, NEW r, Set(c, r),
         FindOf(r, asked'[c], owner'), \A d \in Calls \ {c} : asked'[d] = asked[d]
  PROVE  FindInv'
<1>1. call'[c] = r /\ \A d \in Calls \ {c} : call'[d] = call[d]
  BY TypeOKRecords DEF Set, TypeInv
<1>2. \A d \in Calls : FindOf(call[d], asked[d], owner')
  BY FindStays, TypeOKRecords DEF TypeInv, ArgsOK, FindInv
<1>3. \A d \in Calls : FindOf(call'[d], asked'[d], owner')
  BY <1>1, <1>2
<1> QED
  BY <1>3 DEF FindInv, FindOf

LEMMA GotoFind ==
  ASSUME TypeInv, FindInv, [Next]_vars, NEW c \in Calls, NEW p, Goto(c, p), UNCHANGED asked,
         p \notin {"release", "done"} \/ call[c].method # "find_by_identifier"
  PROVE  FindInv'
<1>1. call[c] \in Record /\ FindOf(call[c], asked[c], owner')
  BY FindStays, TypeOKRecords DEF TypeInv, ArgsOK, FindInv
<1>2. FindOf([call[c] EXCEPT !.at = p], asked[c], owner')
  BY <1>1, MoveFind
<1> QED
  BY <1>2, SetFind DEF Goto, Set

LEMMA StepFind ==
  ASSUME TypeInv, FindInv, [Next]_vars, NEW c \in Calls,
         \/ \E m \in Methods, i \in Identifiers \cup {Nil}, u \in Customers \cup {Nil} : Begin(c, m, i, u)
         \/ Step(c) \/ CancelWait(c) \/ CancelScope(c)
  PROVE  FindInv'
<1> DEFINE r == call[c]
           was == asked[c]
<1>0. /\ r \in Record /\ ArgsOf(r, customers)
      /\ FindOf(r, was, owner) /\ FindOf(r, was, owner')
  BY FindStays, TypeOKRecords DEF TypeInv, ArgsOK, FindInv
<1>1. ASSUME NEW n, Set(c, n), UNCHANGED asked, FindOf(n, was, owner')
      PROVE  FindInv'
  BY <1>1, SetFind
<1>2. ASSUME NEW m \in Methods, NEW i \in Identifiers \cup {Nil}, NEW u \in Customers \cup {Nil},
             Begin(c, m, i, u)
      PROVE  FindInv'
  <2> DEFINE n == [NotCalled EXCEPT !.method = m, !.key = i, !.customer = u, !.at = "acquire"]
  <2>1. /\ n.method = m /\ n.key = i /\ n.depth = 1 /\ n.at = "acquire"
        /\ n.found = NotFound
    BY DEF NotCalled
  <2>2. asked'[c] = (IF m = "find_by_identifier" THEN owner[i] ELSE Nil) /\ UNCHANGED owner
    BY <1>2, TypeOKRecords DEF Begin, TypeInv
  <2>3. FindOf(n, asked'[c], owner')
    <3> HIDE DEF n
    <3> QED
      BY <2>1, <2>2 DEF FindOf
  <2>4. Set(c, n) /\ \A d \in Calls \ {c} : asked'[d] = asked[d]
    BY <1>2, TypeOKRecords DEF Begin, TypeInv
  <2> QED
    BY <2>3, <2>4, SetFind
<1>3. CASE Acquire(c)
  BY <1>3, GotoFind DEF Acquire
<1>4. CASE Scope(c)
  BY <1>4, GotoFind DEF Scope
<1>5. ASSUME Set(c, Unwound(Raised(r))), UNCHANGED asked
      PROVE  FindInv'
  <2>1. Raised(r) \in Record /\ FindOf(Raised(r), was, owner')
    BY <1>0, RaisedType, FailedFind
  <2>2. Raised(r).method = r.method /\ (r.method = "find_by_identifier" => Raised(r).raised)
    BY <1>0 DEF Raised, Record
  <2>3. FindOf(Unwound(Raised(r)), was, owner')
    BY <2>1, <2>2, UnwoundFind
  <2> QED
    BY <1>1, <1>5, <2>3
<1>6. ASSUME Set(c, Failed(r)), UNCHANGED asked
      PROVE  FindInv'
  BY <1>0, <1>1, <1>6, FailedFind
<1>7. CASE FindRow(c)
  <2>1. CASE owner[r.key] = Nil
    <3>1. Set(c, [r EXCEPT !.at = "release"]) /\ UNCHANGED asked
      BY <1>7, <2>1 DEF FindRow, Goto, Set
    <3>2. was = Nil
      BY <1>0, <1>7, <2>1 DEF FindRow, FindOf
    <3>3. FindOf([r EXCEPT !.at = "release"], was, owner')
      BY <1>0, <3>2 DEF FindOf, Record
    <3> QED
      BY <1>1, <3>1, <3>3
  <2>2. CASE owner[r.key] # Nil
    <3> DEFINE n == [r EXCEPT !.customer = owner[r.key], !.depth = 2, !.at = "acquire"]
    <3>1. Set(c, n) /\ UNCHANGED <<asked, owner>>
      BY <1>7, <2>2 DEF FindRow
    <3>2. FindOf(n, was, owner')
      BY <1>0, <3>1 DEF FindOf, Record
    <3> QED
      BY <1>1, <3>1, <3>2
  <2> QED
    BY <2>1, <2>2
<1>8. CASE GetRow(c)
  <2>1. CASE r.customer \notin customers
    <3>1. r.method # "find_by_identifier"
      <4>1. SUFFICES ASSUME r.method = "find_by_identifier" PROVE FALSE
        OBVIOUS
      <4>2. r.depth > 1
        <5>1. r.depth \in 2 .. Chain(r.method) - 1
          BY <1>8, <4>1 DEF GetRow
        <5>2. Chain(r.method) \in 1 .. 3
          BY DEF Chain
        <5> HIDE DEF Chain
        <5> QED
          BY <5>1, <5>2
      <4>3. r.key \in Identifiers /\ r.customer \in Customers
        BY <1>0, <4>1, <4>2 DEF ArgsOf
      <4>4. owner[r.key] = r.customer
        BY <1>0, <4>1, <4>2 DEF FindOf
      <4> QED
        BY <2>1, <4>3, <4>4, PoolAssumption DEF TypeInv, ForeignKey
    <3> QED
      BY <1>8, <2>1, <3>1, GotoFind DEF GetRow
  <2>2. CASE r.customer \in customers
    <3> DEFINE n == [r EXCEPT !.depth = @ + 1, !.at = "acquire"]
    <3>1. Set(c, n) /\ UNCHANGED asked /\ r.method \in Nested
      BY <1>8, <2>2 DEF GetRow
    <3>2. r.method = "find_by_identifier" => r.depth > 1
      <4>1. r.depth \in (IF r.method = "get_customer" THEN 1 ELSE 2) .. Chain(r.method) - 1
        BY <1>8 DEF GetRow
      <4>2. Chain(r.method) \in 1 .. 3
        BY DEF Chain
      <4> HIDE DEF Chain
      <4> QED
        BY <4>1, <4>2
    <3>3. FindOf(n, was, owner')
      BY <1>0, <3>2 DEF FindOf, Record
    <3> QED
      BY <1>1, <3>1, <3>3
  <2> QED
    BY <2>1, <2>2
<1>9. CASE ListRows(c)
  <2> DEFINE rows == {i \in Identifiers : owner[i] = r.customer}
             f == [id |-> r.customer, identifiers |-> rows]
  <2>1. Set(c, [r EXCEPT !.found = f, !.at = "release"]) /\ UNCHANGED asked
    BY <1>9, Zenon DEF ListRows
  <2>2. owner' = owner /\ (r.method = "find_by_identifier" => r.depth = 3)
    BY <1>9 DEF ListRows, Chain
  <2>3. r.method = "find_by_identifier" =>
          /\ owner[r.key] = r.customer /\ r.key \in rows
          /\ r.customer # Nil
    BY <1>0, <2>2, PoolAssumption DEF FindOf, ArgsOf
  <2>4. ASSUME NEW a, r.method = "find_by_identifier" =>
                        a.id # Nil /\ owner[r.key] = a.id /\ r.key \in a.identifiers
        PROVE  FindOf([r EXCEPT !.found = a, !.at = "release"], was, owner)
    BY <1>0, <2>4 DEF FindOf, Record, NotFound
  <2>5. FindOf([r EXCEPT !.found = f, !.at = "release"], was, owner)
    <3>1. f.id = r.customer /\ f.identifiers = rows
      OBVIOUS
    <3> HIDE DEF f
    <3> QED
      BY <2>3, <2>4, <3>1
  <2> QED
    BY <1>1, <2>1, <2>2, <2>5
<1>10. CASE Upsert(c)
  BY <1>10, GotoFind DEF Upsert
<1>11. CASE FindTenant(c)
  BY <1>6, <1>11, GotoFind DEF FindTenant
<1>12. CASE Insert(c)
  <2>1. call[c].method # "find_by_identifier"
    BY <1>0, <1>12 DEF Insert, ArgsOf
  <2> QED
    BY <1>12, <2>1, GotoFind DEF Insert
<1>13. CASE Other(c)
  BY <1>13, GotoFind DEF Other
<1>14. CASE Release(c)
  BY <1>0, <1>1, <1>14, UnwoundFind DEF Release
<1> QED
  BY <1>2, <1>3, <1>4, <1>5, <1>6, <1>7, <1>8, <1>9, <1>10, <1>11, <1>12, <1>13, <1>14
  DEF Step, ScopeFails, QueryFails, CancelWait, CancelScope

LEMMA NextFind == TypeInv /\ FindInv /\ [Next]_vars => FindInv'
<1> SUFFICES ASSUME TypeInv, FindInv, [Next]_vars PROVE FindInv'
  OBVIOUS
<1>1. CASE UNCHANGED vars
  BY <1>1 DEF vars, FindInv, FindOf
<1>2. CASE Next
  BY <1>2, StepFind DEF Next
<1> QED
  BY <1>1, <1>2

\* A find that returns answers with a customer that has the identifier, and
\* misses none that was there when it began (find_by_identifier, postgres.py:97).
THEOREM FindsAreCurrent == Spec => []FoundIsCurrent
<1>1. Init => FindInv
  BY PoolAssumption DEF Init, FindInv, FindOf, NotCalled, Methods, Nested
<1>2. TypeInv /\ FindInv /\ [Next]_vars => FindInv'
  BY NextFind
<1>3. FindInv => FoundIsCurrent
  BY DEF FindInv, FindOf, FoundIsCurrent
<1> QED
  BY <1>1, <1>2, <1>3, PoolTypes, PTL DEF Spec

-----------------------------------------------------------------------------
(* Who has the connections.                                                *)

\* How many connections a call holds.
Size(r) ==
  IF r.at \in {"new", "done"} THEN 0 ELSE IF r.at = "acquire" THEN r.depth - 1 ELSE r.depth

HeldBy(size) == {h \in Calls \X (1 .. 3) : h[2] <= size[h[1]]}

Sizes == [c \in Calls |-> Size(call[c])]

LEMMA SizeType ==
  ASSUME NEW r \in Record
  PROVE  Size(r) \in 0 .. 3
  BY DEF Size, Record

\* A method that ends leaves what the methods above it hold.
LEMMA SizeUnwound ==
  ASSUME NEW r \in Record
  PROVE  /\ Size(Unwound(r)) = r.depth - 1
         /\ Size(Unwound(Raised(r))) = r.depth - 1
<1>1. ASSUME NEW q \in Record PROVE Size(Unwound(q)) = q.depth - 1
  BY DEF Size, Unwound, Ended, Over, NotCalled, Record
<1>2. Raised(r) \in Record /\ Raised(r).depth = r.depth
  BY RaisedType DEF Raised, Record
<1> QED
  BY <1>1, <1>2

LEMMA HeldIs == call \in [Calls -> Record] => Held = HeldBy(Sizes)
<1> SUFFICES ASSUME call \in [Calls -> Record] PROVE Held = HeldBy(Sizes)
  OBVIOUS
<1>1. ASSUME NEW c \in Calls, NEW k \in 1 .. 3
      PROVE  (c \in InFlight /\ (k < call[c].depth \/ (k = call[c].depth /\ Has(c))))
               <=> k <= Sizes[c]
  <2>1. call[c].at \in Points /\ call[c].depth \in 1 .. 3
    BY DEF Record
  <2>2. Sizes[c] = Size(call[c])
    BY DEF Sizes
  <2> QED
    BY <2>1, <2>2 DEF InFlight, Has, Size, Points
<1>2. InFlight \subseteq Calls
  BY DEF InFlight
<1>3. ASSUME NEW h
      PROVE  h \in Held <=> h \in HeldBy(Sizes)
  <2>1. h \in Held => h \in Calls \X (1 .. 3)
    BY <1>2 DEF Held
  <2>2. h \in HeldBy(Sizes) => h \in Calls \X (1 .. 3)
    BY DEF HeldBy
  <2>3. ASSUME h \in Calls \X (1 .. 3)
        PROVE  h \in Held <=> h \in HeldBy(Sizes)
    <3>1. h[1] \in Calls /\ h[2] \in 1 .. 3 /\ h = <<h[1], h[2]>>
      BY <2>3
    <3>2. h \in HeldBy(Sizes) <=> h[2] <= Sizes[h[1]]
      BY <2>3 DEF HeldBy
    <3>3. h \in Held <=>
            h[1] \in InFlight /\ (h[2] < call[h[1]].depth \/ (h[2] = call[h[1]].depth /\ Has(h[1])))
      BY <3>1 DEF Held
    <3> QED
      BY <1>1, <3>1, <3>2, <3>3
  <2> QED
    BY <2>1, <2>2, <2>3
<1> QED
  BY <1>3

LEMMA HeldFinite ==
  ASSUME NEW size
  PROVE  IsFiniteSet(HeldBy(size)) /\ Cardinality(HeldBy(size)) \in Nat
<1>1. IsFiniteSet(Calls \X (1 .. 3))
  <2>1. IsFiniteSet(1 .. 3)
    <3>1. 1 \in Int /\ 3 \in Int
      OBVIOUS
    <3> QED
      BY <3>1, FS_Interval, Zenon
  <2> QED
    BY <2>1, PoolAssumption, FS_Product
<1>2. HeldBy(size) \subseteq Calls \X (1 .. 3)
  BY DEF HeldBy
<1> QED
  BY <1>1, <1>2, FS_Subset, FS_CardinalityType

\* One more connection of a call is one more held.
LEMMA HeldMore ==
  ASSUME NEW s \in [Calls -> 0 .. 3], NEW c \in Calls, NEW t \in [Calls -> 0 .. 3],
         t = [s EXCEPT ![c] = @ + 1]
  PROVE  Cardinality(HeldBy(t)) = Cardinality(HeldBy(s)) + 1
<1> DEFINE h == <<c, s[c] + 1>>
<1>1. t[c] = s[c] + 1 /\ \A d \in Calls \ {c} : t[d] = s[d]
  OBVIOUS
<1>2. s[c] \in 0 .. 3 /\ t[c] \in 0 .. 3
  OBVIOUS
<1>3. h \notin HeldBy(s)
  BY <1>2 DEF HeldBy
<1>4. HeldBy(t) = HeldBy(s) \cup {h}
  <2>1. ASSUME NEW d \in Calls, NEW k \in 1 .. 3
        PROVE  k <= t[d] <=> k <= s[d] \/ (d = c /\ k = s[c] + 1)
    BY <1>1, <1>2
  <2>2. h \in Calls \X (1 .. 3)
    BY <1>1, <1>2
  <2>3. ASSUME NEW g \in Calls \X (1 .. 3)
        PROVE  g \in HeldBy(t) <=> g \in HeldBy(s) \/ g = h
    <3>1. g[1] \in Calls /\ g[2] \in 1 .. 3 /\ g = <<g[1], g[2]>>
      OBVIOUS
    <3>2. (g \in HeldBy(t) <=> g[2] <= t[g[1]]) /\ (g \in HeldBy(s) <=> g[2] <= s[g[1]])
      BY DEF HeldBy
    <3>3. g = h <=> g[1] = c /\ g[2] = s[c] + 1
      BY <3>1
    <3> QED
      BY <2>1, <3>1, <3>2, <3>3
  <2>4. HeldBy(t) \subseteq Calls \X (1 .. 3) /\ HeldBy(s) \subseteq Calls \X (1 .. 3)
    BY DEF HeldBy
  <2> QED
    BY <2>2, <2>3, <2>4
<1> QED
  BY <1>3, <1>4, HeldFinite, FS_AddElement

\* A step changes the size of one call, by the connections it takes from the pool
\* or gives back to it, or loses.
LEMMA SizeStep ==
  ASSUME TypeInv, NEW c \in Calls,
         \/ \E m \in Methods, i \in Identifiers \cup {Nil}, u \in Customers \cup {Nil} : Begin(c, m, i, u)
         \/ Step(c) \/ CancelWait(c) \/ CancelScope(c)
  PROVE  \E n \in Record :
           /\ Set(c, n)
           /\ Size(n) - Size(call[c]) = (idle + leaked) - (idle' + leaked')
           /\ Size(n) - Size(call[c]) \in {-1, 0, 1}
<1> DEFINE r == call[c]
           goal == \E n \in Record :
                     /\ Set(c, n)
                     /\ Size(n) - Size(r) = (idle + leaked) - (idle' + leaked')
                     /\ Size(n) - Size(r) \in {-1, 0, 1}
<1>0. r \in Record /\ r.depth \in 1 .. 3 /\ idle \in Nat /\ leaked \in Nat
  BY TypeOKRecords DEF TypeInv, Record
<1>1. PICK n \in Record : Set(c, n)
  BY StepSetsCall
<1>2. call'[c] = n
  BY <1>1, SetType DEF TypeInv
<1>3. ASSUME NEW m, Set(c, m) PROVE m = n
  BY <1>2, <1>3, TypeOKRecords DEF TypeInv, Set
<1>4. ASSUME Size(n) = Size(r), UNCHANGED <<idle, leaked>> PROVE goal
  BY <1>0, <1>1, <1>4, SizeType
<1>5. ASSUME Size(n) = Size(r) - 1,
             (idle' = idle + 1 /\ UNCHANGED leaked) \/ (UNCHANGED idle /\ leaked' = leaked + 1)
      PROVE  goal
  BY <1>0, <1>1, <1>5, SizeType
<1>6. ASSUME NEW p \in Points \ {"new", "acquire", "done"}, Goto(c, p),
             r.at \in Points \ {"new", "acquire", "done"}
      PROVE  Size(n) = Size(r)
  <2>1. n = [r EXCEPT !.at = p]
    BY <1>3, <1>6 DEF Goto, Set
  <2>2. n.at = p /\ n.depth = r.depth
    BY <1>0, <2>1 DEF Record
  <2> QED
    BY <1>6, <2>2 DEF Size
<1>7. r.at \in Points
  BY <1>0 DEF Record
<1>8. CASE \E m \in Methods, i \in Identifiers \cup {Nil}, u \in Customers \cup {Nil} : Begin(c, m, i, u)
  <2>1. PICK m \in Methods, i \in Identifiers \cup {Nil}, u \in Customers \cup {Nil} :
          Begin(c, m, i, u)
    BY <1>8
  <2>2. n = [NotCalled EXCEPT !.method = m, !.key = i, !.customer = u, !.at = "acquire"]
    BY <1>3, <2>1 DEF Begin
  <2>3. n.at = "acquire" /\ n.depth = 1
    BY <2>2 DEF NotCalled
  <2>4. Size(n) = 0
    BY <2>3 DEF Size
  <2>5. Size(r) = 0
    BY <2>1 DEF Begin, Size
  <2> QED
    BY <1>4, <2>1, <2>4, <2>5 DEF Begin
<1>9. CASE Acquire(c)
  <2>1. PICK p \in {"scope", "query"} : Goto(c, p)
    BY <1>9 DEF Acquire
  <2>2. n = [r EXCEPT !.at = p]
    BY <1>3, <2>1 DEF Goto, Set
  <2>3. n.at = p /\ n.depth = r.depth
    BY <1>0, <2>2 DEF Record
  <2>4. Size(n) = r.depth /\ Size(r) = r.depth - 1
    BY <1>9, <2>3 DEF Size, Acquire
  <2>5. idle' = idle - 1 /\ leaked' = leaked
    BY <1>9 DEF Acquire
  <2> QED
    BY <1>0, <1>1, <2>4, <2>5
<1>10. CASE Scope(c)
  BY <1>4, <1>6, <1>10 DEF Scope, Points
<1>11. CASE ScopeFails(c) \/ CancelScope(c)
  <2>1. n = Unwound(Raised(r)) /\ r.at = "scope"
    BY <1>3, <1>11 DEF ScopeFails, CancelScope
  <2>2. Size(n) = r.depth - 1 /\ Size(r) = r.depth
    BY <1>0, <2>1, SizeUnwound DEF Size
  <2> QED
    BY <1>5, <1>11, <2>2 DEF ScopeFails, CancelScope
<1>12. CASE CancelWait(c)
  <2>1. n = Unwound(Raised(r)) /\ r.at = "acquire"
    BY <1>3, <1>12 DEF CancelWait
  <2>2. Size(n) = r.depth - 1 /\ Size(r) = r.depth - 1
    BY <1>0, <2>1, SizeUnwound DEF Size
  <2> QED
    BY <1>4, <1>12, <2>2 DEF CancelWait
<1>13. CASE Release(c)
  <2>1. n = Unwound(r) /\ r.at = "release"
    BY <1>3, <1>13 DEF Release
  <2>2. Size(n) = r.depth - 1 /\ Size(r) = r.depth
    BY <1>0, <2>1, SizeUnwound DEF Size
  <2> QED
    BY <1>5, <1>13, <2>2 DEF Release
<1>14. ASSUME Set(c, Failed(r)), r.at \in {"query", "insert"} PROVE Size(n) = Size(r)
  <2>1. n = Failed(r)
    BY <1>3, <1>14
  <2>2. n.at = "release" /\ n.depth = r.depth
    BY <1>0, <2>1 DEF Failed, Raised, Record
  <2> QED
    BY <1>14, <2>2 DEF Size
<1>15. CASE FindRow(c)
  <2>1. CASE owner[r.key] = Nil
    BY <1>4, <1>6, <1>15, <2>1 DEF FindRow, Points
  <2>2. CASE owner[r.key] # Nil
    <3>1. n = [r EXCEPT !.customer = owner[r.key], !.depth = 2, !.at = "acquire"]
      BY <1>3, <1>15, <2>2 DEF FindRow
    <3>2. n.at = "acquire" /\ n.depth = 2 /\ r.at = "query" /\ r.depth = 1
      BY <1>0, <1>15, <3>1 DEF FindRow, Record
    <3> QED
      BY <1>4, <1>15, <3>2 DEF FindRow, Size
  <2> QED
    BY <2>1, <2>2
<1>16. CASE GetRow(c)
  <2>1. CASE r.customer \notin customers
    BY <1>4, <1>6, <1>16, <2>1 DEF GetRow, Points
  <2>2. CASE r.customer \in customers
    <3>1. n = [r EXCEPT !.depth = @ + 1, !.at = "acquire"]
      BY <1>3, <1>16, <2>2 DEF GetRow
    <3>2. n.at = "acquire" /\ n.depth = r.depth + 1 /\ r.at = "query"
      BY <1>0, <1>16, <3>1 DEF GetRow, Record
    <3>3. Size(n) = Size(r)
      BY <1>0, <3>2 DEF Size
    <3> QED
      BY <1>4, <1>16, <3>3 DEF GetRow
  <2> QED
    BY <2>1, <2>2
<1>17. CASE ListRows(c)
  <2>1. PICK f : Set(c, [r EXCEPT !.found = f, !.at = "release"])
    BY <1>17, Zenon DEF ListRows
  <2>2. n.at = "release" /\ n.depth = r.depth /\ r.at = "query"
    BY <1>0, <1>3, <1>17, <2>1 DEF ListRows, Record
  <2> QED
    BY <1>4, <1>17, <2>2 DEF ListRows, Size
<1>18. CASE Upsert(c) \/ Insert(c) \/ Other(c)
  BY <1>4, <1>6, <1>18 DEF Upsert, Insert, Other, Points
<1>19. CASE FindTenant(c)
  BY <1>4, <1>6, <1>14, <1>19 DEF FindTenant, Points
<1>20. CASE QueryFails(c)
  BY <1>4, <1>14, <1>20 DEF QueryFails
<1> QED
  BY <1>8, <1>9, <1>10, <1>11, <1>12, <1>13, <1>15, <1>16, <1>17, <1>18, <1>19, <1>20 DEF Step

LEMMA NextAccounted == TypeInv /\ Accounted /\ [Next]_vars => Accounted'
<1> SUFFICES ASSUME TypeInv, Accounted, [Next]_vars PROVE Accounted'
  OBVIOUS
<1>1. CASE UNCHANGED vars
  BY <1>1, Zenon DEF vars, Accounted, Held, InFlight, Has
<1>2. ASSUME NEW c \in Calls,
             \/ \E m \in Methods, i \in Identifiers \cup {Nil}, u \in Customers \cup {Nil} :
                  Begin(c, m, i, u)
             \/ Step(c) \/ CancelWait(c) \/ CancelScope(c)
      PROVE  Accounted'
  <2>1. PICK n \in Record :
          /\ Set(c, n)
          /\ Size(n) - Size(call[c]) = (idle + leaked) - (idle' + leaked')
          /\ Size(n) - Size(call[c]) \in {-1, 0, 1}
    BY <1>2, SizeStep
  <2> DEFINE s == Sizes
             t == Sizes'
             k == Size(n) - Size(call[c])
  <2>2. call \in [Calls -> Record] /\ call' \in [Calls -> Record]
    BY <2>1, TypeOKRecords, SetType DEF TypeInv
  <2>3. call'[c] = n /\ \A d \in Calls \ {c} : call'[d] = call[d]
    BY <2>1, SetType DEF TypeInv
  <2>4. s \in [Calls -> 0 .. 3] /\ t \in [Calls -> 0 .. 3]
    BY <2>2, SizeType DEF Sizes
  <2>5. s[c] = Size(call[c]) /\ t[c] = Size(n) /\ \A d \in Calls \ {c} : t[d] = s[d]
    BY <2>3 DEF Sizes
  <2>6. Held = HeldBy(s) /\ Held' = HeldBy(t)
    <3>1. Held = HeldBy(s)
      BY <2>2, HeldIs
    <3>2. (call \in [Calls -> Record])' => (Held = HeldBy(Sizes))'
      BY HeldIs, PTL
    <3>3. HeldBy(Sizes)' = HeldBy(t)
      BY DEF HeldBy
    <3> QED
      BY <2>2, <3>1, <3>2, <3>3
  <2>7. Cardinality(HeldBy(t)) = Cardinality(HeldBy(s)) + k
    <3> HIDE DEF s, t
    <3>1. Cardinality(HeldBy(s)) \in Nat /\ Cardinality(HeldBy(t)) \in Nat
      BY HeldFinite
    <3>2. CASE k = 0
      <4>1. t = s
        BY <2>4, <2>5, <3>2, SizeType
      <4> QED
        BY <3>1, <3>2, <4>1
    <3>3. CASE k = 1
      <4>1. t = [s EXCEPT ![c] = @ + 1]
        BY <2>4, <2>5, <3>3
      <4> QED
        BY <2>4, <3>3, <4>1, HeldMore
    <3>4. CASE k = -1
      <4>1. s = [t EXCEPT ![c] = @ + 1]
        BY <2>4, <2>5, <3>4
      <4>2. Cardinality(HeldBy(s)) = Cardinality(HeldBy(t)) + 1
        BY <2>4, <4>1, HeldMore
      <4> QED
        BY <3>1, <3>4, <4>2
    <3> QED
      BY <2>1, <3>2, <3>3, <3>4
  <2>8. /\ k \in Int /\ k = (idle + leaked) - (idle' + leaked')
        /\ idle \in Nat /\ leaked \in Nat /\ idle' \in Nat /\ leaked' \in Nat
        /\ Cardinality(HeldBy(s)) \in Nat
    <3>1. TypeInv'
      BY <1>2, NextTypes DEF Next
    <3> QED
      BY <2>1, <3>1, HeldFinite DEF TypeInv, TypeOK
  <2>9. idle + Cardinality(HeldBy(s)) + leaked = PoolSize
    BY <2>6 DEF Accounted
  <2>10. idle' + Cardinality(HeldBy(t)) + leaked' = PoolSize
    <3> HIDE DEF s, t, k
    <3> QED
      BY <2>7, <2>8, <2>9
  <2> QED
    BY <2>6, <2>10 DEF Accounted
<1> QED
  BY <1>1, <1>2 DEF Next

\* Every connection is idle, held by a call that has not returned, or lost to a
\* cancellation inside _scoped (postgres.py:35-48).
THEOREM AllAccounted == Spec => []Accounted
<1>1. Init => Accounted
  <2> SUFFICES ASSUME Init PROVE Accounted
    OBVIOUS
  <2>1. Held = {}
    BY DEF Init, Held, InFlight, NotCalled
  <2>2. Cardinality(Held) = 0
    BY <2>1, FS_EmptySet
  <2> QED
    BY <2>2, PoolAssumption DEF Init, Accounted
<1>2. TypeInv /\ Accounted /\ [Next]_vars => Accounted'
  BY NextAccounted
<1> QED
  BY <1>1, <1>2, PoolTypes, PTL DEF Spec

\* With no connection idle and every call waiting for one, what the calls hold is
\* what lookups hold that nest (postgres.py:83, 111).
LEMMA HoardersWedge == TypeInv /\ Accounted => WedgeNeedsHoard
<1> SUFFICES ASSUME TypeInv, Accounted, Wedged PROVE Hoarded + leaked >= PoolSize
  BY DEF WedgeNeedsHoard
<1> DEFINE finds == {c \in InFlight : call[c].method = "find_by_identifier"}
           gets == {c \in InFlight : call[c].method = "get_customer"}
           hoard == finds \X {1, 2} \cup gets \X {1}
<1>1. Held \subseteq hoard
  <2> SUFFICES ASSUME NEW h \in Held PROVE h \in hoard
    OBVIOUS
  <2>1. /\ h[1] \in InFlight /\ h[2] \in 1 .. 3 /\ h = <<h[1], h[2]>>
        /\ h[2] < call[h[1]].depth \/ (h[2] = call[h[1]].depth /\ Has(h[1]))
    BY DEF Held
  <2>2. h[1] \in Calls /\ call[h[1]].at = "acquire"
    BY <2>1 DEF Wedged, InFlight, Waiting
  <2>3. h[2] < call[h[1]].depth
    BY <2>1, <2>2 DEF Has
  <2>4. call[h[1]].depth <= Chain(call[h[1]].method) /\ call[h[1]].depth \in 1 .. 3
    BY <2>2, TypeOKRecords DEF TypeInv, ArgsOK, ArgsOf, Record
  <2>5. \/ call[h[1]].method = "find_by_identifier" /\ h[2] \in {1, 2}
        \/ call[h[1]].method = "get_customer" /\ h[2] = 1
    BY <2>1, <2>3, <2>4 DEF Chain
  <2> QED
    BY <2>1, <2>5
<1>2. IsFiniteSet(hoard)
  <2>1. hoard \subseteq Calls \X (1 .. 3)
    BY DEF InFlight
  <2>2. IsFiniteSet(1 .. 3)
    <3>1. 1 \in Int /\ 3 \in Int
      OBVIOUS
    <3> QED
      BY <3>1, FS_Interval, Zenon
  <2>3. IsFiniteSet(Calls \X (1 .. 3))
    BY <2>2, PoolAssumption, FS_Product
  <2> HIDE DEF hoard
  <2> QED
    BY <2>1, <2>3, FS_Subset
<1>3. Cardinality(Held) <= Cardinality(hoard) /\ Cardinality(Held) \in Nat /\ Cardinality(hoard) \in Nat
  <2> HIDE DEF hoard
  <2> QED
    BY <1>1, <1>2, FS_Subset, FS_CardinalityType
<1>4. Hoarded = Cardinality(hoard)
  BY DEF Hoarded
<1>5. idle = 0 /\ leaked \in Nat
  BY DEF Wedged, TypeInv, TypeOK
<1> HIDE DEF hoard
<1> QED
  BY <1>3, <1>4, <1>5, PoolAssumption DEF Accounted

\* The pool wedges only when nested lookups can hoard what is left of it: calls of
\* the other methods never wedge it, however many (postgres.py:83, 111).
THEOREM WedgesOnlyByHoard == Spec => []WedgeNeedsHoard
<1>1. TypeInv /\ Accounted => WedgeNeedsHoard
  BY HoardersWedge
<1> QED
  BY <1>1, AllAccounted, PoolTypes, PTL
=============================================================================
