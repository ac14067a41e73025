------------------------- MODULE MemoryManagerProofs -------------------------
(***************************************************************************)
(* Theorems about MemoryManager, for every set of requests, every batch of *)
(* facts and every choice of backends, with faults or without.             *)
(***************************************************************************)
EXTENDS MemoryManager, TLAPS

-----------------------------------------------------------------------------
(* Type correctness.                                                       *)

LEMMA GotoType ==
  ASSUME TypeOK, NEW r \in Requests, NEW call \in Calls, Goto(r, call)
  PROVE  pc' \in [Requests -> Calls] /\ loop' \in Requests \cup {Nil}
<1>1. pc \in [Requests -> Calls]
  BY DEF TypeOK
<1>2. "failed" \in Calls
  BY DEF Calls, Returned
<1>3. \A x \in Calls : [pc EXCEPT ![r] = x] \in [Requests -> Calls]
  BY <1>1
<1>4. loop' = Nil \/ loop' = r
  BY DEF Goto
<1> QED
  BY <1>2, <1>3, <1>4, Zenon DEF Goto

LEMMA FailType ==
  ASSUME TypeOK, NEW r \in Requests, Fail(r)
  PROVE  pc' \in [Requests -> Calls] /\ loop' \in Requests \cup {Nil}
BY DEF TypeOK, Fail, Calls, Returned

\* supersede_memory keeps the shape of every row.
LEMMA SupersededType ==
  ASSUME TypeOK, NEW m \in MemoryIds, NEW by \in MemoryIds
  PROVE  Superseded(m, by) \in [MemoryIds -> Memory \cup {Nil}]
<1>1. memories \in [MemoryIds -> Memory \cup {Nil}]
  BY DEF TypeOK
<1>2. ASSUME memories[m] # Nil
      PROVE  [memories[m] EXCEPT !.active = FALSE, !.superseded_by = by] \in Memory
  BY <1>1, <1>2 DEF Memory
<1> QED
  BY <1>1, <1>2 DEF Superseded

LEMMA StoreNextType ==
  ASSUME TypeOK, NEW w \in Writers, NEW rest \in SUBSET (1..MaxFacts), StoreNext(w, rest)
  PROVE  /\ pc' \in [Requests -> Calls] /\ loop' \in Requests \cup {Nil}
         /\ pending' \in [Writers -> SUBSET (1..MaxFacts)]
         /\ todo' \in [Requests -> SUBSET MemoryIds]
<1> w \in Requests
  BY DEF Requests
<1>1. pending' \in [Writers -> SUBSET (1..MaxFacts)]
  BY DEF TypeOK, StoreNext
<1>2. \A i : Conflicts(w, i) \subseteq MemoryIds
  BY DEF TypeOK, Conflicts
<1>3. CASE rest = {} /\ UNCHANGED todo /\ Goto(w, "invalidate")
  BY <1>1, <1>3, GotoType DEF TypeOK, Calls, HotCalls
<1>4. CASE \E i \in rest :
             /\ todo' = [todo EXCEPT ![w] = Conflicts(w, i)]
             /\ Goto(w, IF Conflicts(w, i) = {} THEN "embed" ELSE "supersede")
  <2> PICK i \in rest :
             /\ todo' = [todo EXCEPT ![w] = Conflicts(w, i)]
             /\ Goto(w, IF Conflicts(w, i) = {} THEN "embed" ELSE "supersede")
    BY <1>4
  <2>1. (IF Conflicts(w, i) = {} THEN "embed" ELSE "supersede") \in Calls
    BY DEF Calls, ModelCalls, WarmCalls
  <2>2. pc' \in [Requests -> Calls] /\ loop' \in Requests \cup {Nil}
    BY <2>1, GotoType
  <2>3. todo' \in [Requests -> SUBSET MemoryIds]
    BY <1>2 DEF TypeOK
  <2> QED
    BY <1>1, <2>2, <2>3
<1> QED
  BY <1>3, <1>4 DEF StoreNext

LEMMA ListingsType ==
  ASSUME NEW c, NEW kind, NEW limit, NEW S \in Listings(c, kind, limit)
  PROVE  S \in SUBSET MemoryIds
BY DEF Listings, Active

LEMMA BatchType ==
  ASSUME TypeOK, NEW w \in Writers
  PROVE  /\ batch[w] \in Seq(Facts)
         /\ Len(batch[w]) \in Nat /\ Len(batch[w]) <= MaxFacts
<1>1. batch[w] \in Batches \cup {<<>>}
  BY DEF TypeOK
<1>2. CASE batch[w] \in Batches
  BY <1>2, FactsAssumption
<1>3. CASE batch[w] = <<>>
  BY <1>3, FactsAssumption
<1> QED
  BY <1>1, <1>2, <1>3

LEMMA CallsInCalls ==
  /\ {"idle", "append", "publish"} \subseteq Calls
  /\ WarmCalls \subseteq Calls /\ HotCalls \subseteq Calls
  /\ SemanticCalls \subseteq Calls /\ ModelCalls \subseteq Calls
  /\ Returned \subseteq Calls
BY DEF Calls

\* A request that has begun knows its customer; a sweep has none.
Begun == \A r \in Requests \ Sweepers : pc[r] # "idle" => user[r] \in Customers

TypeInv == TypeOK /\ Begun

\* The steps of a write keep every variable in its type.
LEMMA WriteType ==
  ASSUME TypeInv, NEW w \in Writers, WriteStep(w)
  PROVE  TypeOK'
<1> w \in Requests \ Sweepers /\ TypeOK
  BY RequestsAssumption DEF Requests, TypeInv
<1> USE CallsInCalls DEF WarmCalls, HotCalls, SemanticCalls, ModelCalls, Returned
<1>0. ASSUME pc[w] # "idle" PROVE user[w] \in Customers
  BY <1>0 DEF TypeInv, Begun
<1>1. CASE GetCustomer(w)
  <2>1. (IF user[w] \in customers THEN "extract" ELSE "upsert_customer") \in Calls
    OBVIOUS
  <2> QED
    BY <1>1, <2>1, GotoType DEF GetCustomer, TypeOK, stores, locals
<1>2. CASE UpsertCustomer(w)
  BY <1>0, <1>2, GotoType DEF UpsertCustomer, At, TypeOK, locals
<1>3. CASE Extract(w)
  <2>1. CASE Fail(w) /\ UNCHANGED batch
    BY <1>3, <2>1, FailType DEF Extract, TypeOK, stores
  <2>2. CASE \E b \in Batches : /\ batch' = [batch EXCEPT ![w] = b]
                                /\ Goto(w, IF b = <<>> THEN "done" ELSE "list_existing")
    <3> PICK b \in Batches : /\ batch' = [batch EXCEPT ![w] = b]
                             /\ Goto(w, IF b = <<>> THEN "done" ELSE "list_existing")
      BY <2>2
    <3>1. (IF b = <<>> THEN "done" ELSE "list_existing") \in Calls
      OBVIOUS
    <3>2. batch' \in [Writers -> Batches \cup {<<>>}]
      BY DEF TypeOK
    <3> QED
      BY <1>3, <3>1, <3>2, GotoType DEF Extract, TypeOK, stores
  <2> QED
    BY <1>3, <2>1, <2>2 DEF Extract
<1>4. CASE ListExisting(w)
  <2> DEFINE plan == {i \in 1..Len(batch[w]) : batch[w][i] \notin Refused}
  <2>1. plan \in SUBSET (1..MaxFacts)
    BY BatchType, FactsAssumption
  <2>2. PICK S \in Listings(user[w], Nil, ListLimit) : listing' = [listing EXCEPT ![w] = S]
    BY <1>4 DEF ListExisting
  <2>3. listing' \in [Requests -> SUBSET MemoryIds]
    BY <2>2, ListingsType DEF TypeOK
  <2>4. (IF plan = {} THEN "current" ELSE "bump") \in Calls
    OBVIOUS
  <2>5. /\ pending' = [pending EXCEPT ![w] = plan]
        /\ Goto(w, IF plan = {} THEN "current" ELSE "bump")
        /\ UNCHANGED <<stores, user, batch, todo, stamp, floor, filter, before>>
    BY <1>4 DEF ListExisting
  <2>6. pending' \in [Writers -> SUBSET (1..MaxFacts)]
    BY <2>1, <2>5 DEF TypeOK
  <2> HIDE DEF plan
  <2> QED
    BY <2>3, <2>4, <2>5, <2>6, GotoType DEF TypeOK, stores
<1>5. CASE CurrentVersion(w)
  BY <1>5, GotoType DEF CurrentVersion, TypeOK, stores, locals
<1>6. CASE BumpVersion(w)
  BY <1>0, <1>6, GotoType DEF BumpVersion, At, TypeOK
<1>7. CASE AppendLedger(w)
  <2>1. user[w] \in Customers /\ pending[w] \in SUBSET (1..MaxFacts)
    BY <1>0, <1>7 DEF AppendLedger, At, TypeOK
  <2>2. StoreNext(w, pending[w])
    BY <1>7 DEF AppendLedger
  <2>3. [user |-> user[w], version |-> stamp[w], memory_ids |-> {w} \X pending[w]]
          \in [user : Customers, version : Nat, memory_ids : SUBSET MemoryIds]
    BY <2>1 DEF TypeOK, MemoryIds
  <2>4. ledger' \in Seq([user : Customers, version : Nat, memory_ids : SUBSET MemoryIds])
    BY <1>7, <2>3 DEF AppendLedger, TypeOK
  <2> QED
    BY <1>7, <2>1, <2>2, <2>4, StoreNextType DEF AppendLedger, TypeOK
<1>8. CASE Supersede(w)
  <2>1. PICK m \in todo[w], i \in pending[w] :
          IF BreaksForeignKey(m, <<w, i>>)
          THEN Fail(w) /\ UNCHANGED <<memories, todo>>
          ELSE /\ memories' = Superseded(m, <<w, i>>)
               /\ todo' = [todo EXCEPT ![w] = @ \ {m}]
               /\ Goto(w, IF todo[w] = {m} THEN "embed" ELSE "supersede")
    BY <1>8 DEF Supersede
  <2>2. m \in MemoryIds /\ <<w, i>> \in MemoryIds
    BY DEF TypeOK, MemoryIds
  <2>3. (IF todo[w] = {m} THEN "embed" ELSE "supersede") \in Calls
    OBVIOUS
  <2>4. memories' \in [MemoryIds -> Memory \cup {Nil}]
    BY <2>1, <2>2, SupersededType DEF TypeOK
  <2>5. todo' \in [Requests -> SUBSET MemoryIds]
    <3>1. todo' = todo \/ todo' = [todo EXCEPT ![w] = todo[w] \ {m}]
      BY <2>1
    <3>2. todo \in [Requests -> SUBSET MemoryIds] /\ todo[w] \ {m} \in SUBSET MemoryIds
      BY DEF TypeOK
    <3> QED
      BY <3>1, <3>2
  <2>6. pc' \in [Requests -> Calls] /\ loop' \in Requests \cup {Nil}
    BY <2>1, <2>3, GotoType, FailType
  <2> QED
    BY <1>8, <2>4, <2>5, <2>6 DEF Supersede, TypeOK
<1>9. CASE Embed(w)
  BY <1>9, GotoType DEF Embed, TypeOK, stores, locals
<1>10. CASE UpsertPoint(w)
  <2>1. points' \in [MemoryIds -> Customers \cup {Nil}]
    BY <1>10 DEF UpsertPoint, TypeOK
  <2> QED
    BY <1>10, <2>1, GotoType DEF UpsertPoint, TypeOK, locals
<1>11. CASE InsertMemory(w)
  <2>1. user[w] \in Customers
    BY <1>0, <1>11 DEF InsertMemory, At
  <2>2. PICK i \in pending[w] :
          /\ memories' = [memories EXCEPT ![<<w, i>>] =
                            [customer |-> user[w], active |-> TRUE, superseded_by |-> Nil]]
          /\ StoreNext(w, pending[w] \ {i})
    BY <1>11 DEF InsertMemory
  <2>3. memories' \in [MemoryIds -> Memory \cup {Nil}]
    BY <2>1, <2>2 DEF TypeOK, Memory
  <2>4. pending[w] \ {i} \in SUBSET (1..MaxFacts)
    BY DEF TypeOK
  <2> QED
    BY <1>11, <2>2, <2>3, <2>4, StoreNextType DEF InsertMemory, TypeOK
<1>12. CASE InvalidateHot(w)
  BY <1>12, GotoType DEF InvalidateHot, TypeOK, locals
<1>13. CASE Publish(w)
  <2>1. bus' \subseteq Customers \X Nat
    BY <1>0, <1>13 DEF Publish, At, TypeOK
  <2>2. hot' \in [Customers -> (SUBSET MemoryIds) \cup {Nil}]
    BY <1>13 DEF Publish, TypeOK
  <2> QED
    BY <1>13, <2>1, <2>2, GotoType DEF Publish, TypeOK, locals
<1> QED
  BY <1>1, <1>2, <1>3, <1>4, <1>5, <1>6, <1>7, <1>8, <1>9, <1>10, <1>11, <1>12, <1>13
  DEF WriteStep

LEMMA ReadType ==
  ASSUME TypeInv, NEW r \in Readers, ReadStep(r)
  PROVE  TypeOK'
<1> r \in Requests /\ TypeOK
  BY DEF Requests, TypeInv
<1> USE CallsInCalls DEF WarmCalls, HotCalls, SemanticCalls, ModelCalls, Returned
<1>0. ASSUME pc[r] # "idle" PROVE user[r] \in Customers
  BY <1>0, RequestsAssumption DEF TypeInv, Begun
<1>1. CASE AwaitVersion(r)
  BY <1>1, GotoType DEF AwaitVersion, TypeOK, stores, locals
<1>2. CASE Poll(r)
  BY <1>2 DEF Poll, TypeOK, stores, locals
<1>3. CASE TimeOut(r)
  BY <1>3, FailType DEF TimeOut, TypeOK, stores, locals
<1>4. CASE GetWorkingMemory(r)
  <2>1. pc' \in [Requests -> Calls] /\ loop' \in Requests \cup {Nil}
    BY <1>4, GotoType DEF GetWorkingMemory
  <2>2. listing' \in [Requests -> SUBSET MemoryIds]
    <3>1. CASE hot[user[r]] = Nil
      BY <1>4, <3>1 DEF GetWorkingMemory, TypeOK
    <3>2. CASE hot[user[r]] # Nil
      <4>1. hot[user[r]] \in SUBSET MemoryIds
        BY <1>0, <1>4, <3>2 DEF GetWorkingMemory, At, TypeOK
      <4> QED
        BY <1>4, <3>2, <4>1 DEF GetWorkingMemory, TypeOK
    <3> QED
      BY <3>1, <3>2
  <2> QED
    BY <1>4, <2>1, <2>2 DEF GetWorkingMemory, TypeOK, stores
<1>5. CASE ListMemories(r)
  <2>1. PICK S \in Listings(user[r], filter[r], ListLimit) : listing' = [listing EXCEPT ![r] = S]
    BY <1>5 DEF ListMemories
  <2>2. listing' \in [Requests -> SUBSET MemoryIds]
    BY <2>1, ListingsType DEF TypeOK
  <2> QED
    BY <1>5, <2>2, GotoType DEF ListMemories, TypeOK, stores
<1>6. CASE SetWorkingMemory(r)
  <2>1. hot' \in [Customers -> (SUBSET MemoryIds) \cup {Nil}]
    BY <1>6 DEF SetWorkingMemory, TypeOK
  <2> QED
    BY <1>6, <2>1, GotoType DEF SetWorkingMemory, TypeOK, locals
<1> QED
  BY <1>1, <1>2, <1>3, <1>4, <1>5, <1>6 DEF ReadStep

LEMMA SearchType ==
  ASSUME TypeInv, NEW s \in Searchers, SearchStep(s)
  PROVE  TypeOK'
<1> s \in Requests /\ TypeOK
  BY DEF Requests, TypeInv
<1> USE CallsInCalls DEF WarmCalls, HotCalls, SemanticCalls, ModelCalls, Returned
<1>1. CASE EmbedQuery(s)
  BY <1>1, GotoType DEF EmbedQuery, TypeOK, stores, locals
<1>2. CASE SearchPoints(s)
  <2>1. PICK S \in Hits(user[s]) :
          /\ listing' = [listing EXCEPT ![s] = S]
          /\ Goto(s, IF S = {} THEN "done" ELSE "get_memories_by_ids")
    BY <1>2 DEF SearchPoints
  <2>2. S \in SUBSET MemoryIds
    BY DEF Hits
  <2>3. listing' \in [Requests -> SUBSET MemoryIds]
    BY <2>1, <2>2 DEF TypeOK
  <2>4. (IF S = {} THEN "done" ELSE "get_memories_by_ids") \in Calls
    OBVIOUS
  <2> QED
    BY <1>2, <2>1, <2>3, <2>4, GotoType DEF SearchPoints, TypeOK, stores
<1>3. CASE GetMemoriesByIds(s)
  <2>1. listing' \in [Requests -> SUBSET MemoryIds]
    BY <1>3 DEF GetMemoriesByIds, TypeOK
  <2> QED
    BY <1>3, <2>1, GotoType DEF GetMemoriesByIds, TypeOK, stores
<1> QED
  BY <1>1, <1>2, <1>3 DEF SearchStep

LEMMA ForgetType ==
  ASSUME TypeInv, NEW f \in Forgetters, ForgetStep(f)
  PROVE  TypeOK'
<1> f \in Requests /\ TypeOK
  BY DEF Requests, TypeInv
<1> USE CallsInCalls DEF WarmCalls, HotCalls, SemanticCalls, ModelCalls, Returned
<1>1. CASE ForgetHot(f)
  BY <1>1, GotoType DEF ForgetHot, TypeOK, locals
<1>2. CASE DeleteRows(f)
  <2>1. pc' \in [Requests -> Calls] /\ loop' \in Requests \cup {Nil}
    BY <1>2, GotoType, FailType DEF DeleteRows
  <2>2. customers' \subseteq Customers
    BY <1>2 DEF DeleteRows, TypeOK
  <2>3. memories' \in [MemoryIds -> Memory \cup {Nil}]
    BY <1>2 DEF DeleteRows, TypeOK
  <2> QED
    BY <1>2, <2>1, <2>2, <2>3 DEF DeleteRows, TypeOK, locals
<1>3. CASE DeletePoints(f)
  <2>1. points' \in [MemoryIds -> Customers \cup {Nil}]
    BY <1>3 DEF DeletePoints, TypeOK
  <2> QED
    BY <1>3, <2>1, GotoType DEF DeletePoints, TypeOK, locals
<1> QED
  BY <1>1, <1>2, <1>3 DEF ForgetStep

LEMMA SweepType ==
  ASSUME TypeInv, NEW s \in Sweepers, SweepStep(s)
  PROVE  TypeOK'
<1> s \in Requests /\ TypeOK
  BY DEF Requests, TypeInv
<1> USE CallsInCalls DEF WarmCalls, HotCalls, SemanticCalls, ModelCalls, Returned
<1>1. CASE ListExpired(s)
  <2>1. PICK expired \in SUBSET MemoryIds :
          /\ todo' = [todo EXCEPT ![s] = expired]
          /\ Goto(s, IF expired = {} THEN "done" ELSE "expire")
    BY <1>1 DEF ListExpired
  <2>2. (IF expired = {} THEN "done" ELSE "expire") \in Calls
    OBVIOUS
  <2>3. todo' \in [Requests -> SUBSET MemoryIds]
    BY <2>1 DEF TypeOK
  <2> QED
    BY <1>1, <2>1, <2>2, <2>3, GotoType DEF ListExpired, TypeOK, stores
<1>2. CASE Expire(s)
  <2>1. PICK m \in todo[s] :
          /\ memories' = Superseded(m, m)
          /\ todo' = [todo EXCEPT ![s] = @ \ {m}]
          /\ Goto(s, IF todo[s] = {m} THEN "done" ELSE "expire")
    BY <1>2 DEF Expire
  <2>2. m \in MemoryIds
    BY DEF TypeOK
  <2>3. memories' \in [MemoryIds -> Memory \cup {Nil}]
    BY <2>1, <2>2, SupersededType
  <2>4. todo' \in [Requests -> SUBSET MemoryIds]
    BY <2>1 DEF TypeOK
  <2>5. (IF todo[s] = {m} THEN "done" ELSE "expire") \in Calls
    OBVIOUS
  <2> QED
    BY <1>2, <2>1, <2>3, <2>4, <2>5, GotoType DEF Expire, TypeOK
<1> QED
  BY <1>1, <1>2 DEF SweepStep

LEMMA CallType ==
  ASSUME TypeInv, Call
  PROVE  TypeOK'
<1> TypeOK
  BY DEF TypeInv
<1> USE CallsInCalls DEF WarmCalls, HotCalls, SemanticCalls, ModelCalls, Returned
<1>1. ASSUME NEW r \in Requests, NEW call \in Calls, Begin(r, call)
      PROVE  /\ pc' \in [Requests -> Calls] /\ loop' \in Requests \cup {Nil}
             /\ before' \in [Requests -> SUBSET Requests]
             /\ UNCHANGED <<stores, batch, pending, listing, todo, stamp>>
  <2>1. {q \in Writers \cup Forgetters : pc[q] \in Returned} \in SUBSET Requests
    BY DEF Requests
  <2> QED
    BY <1>1, <2>1, GotoType DEF Begin, TypeOK
<1>2. ASSUME NEW w \in Writers, NEW c \in Customers, UserWrite(w, c)
      PROVE  TypeOK'
  BY <1>1, <1>2 DEF UserWrite, TypeOK, stores, Requests
<1>3. ASSUME NEW r \in Readers, NEW c \in Customers, NEW n \in Floors, NEW kind \in Filters,
             UserRead(r, c, n, kind)
      PROVE  TypeOK'
  <2>1. (IF n = 0 THEN "get_working_memory" ELSE "await_version") \in Calls /\ n \in Nat
    BY ConfigAssumption
  <2> QED
    BY <1>1, <1>3, <2>1 DEF UserRead, TypeOK, stores, Requests
<1>4. ASSUME NEW s \in Searchers, NEW c \in Customers, UserSearch(s, c)
      PROVE  TypeOK'
  BY <1>1, <1>4 DEF UserSearch, TypeOK, stores, Requests
<1>5. ASSUME NEW f \in Forgetters, NEW c \in Customers, UserForget(f, c)
      PROVE  TypeOK'
  BY <1>1, <1>5 DEF UserForget, TypeOK, stores, Requests
<1>6. ASSUME NEW s \in Sweepers, Enforce(s)
      PROVE  TypeOK'
  BY <1>1, <1>6 DEF Enforce, TypeOK, stores, Requests
<1> QED
  BY <1>2, <1>3, <1>4, <1>5, <1>6 DEF Call

LEMMA EnvironmentType ==
  ASSUME TypeOK, Environment
  PROVE  TypeOK'
<1>1. ASSUME NEW message \in bus, Deliver(message)
      PROVE  TypeOK'
  <2>1. hot' \in [Customers -> (SUBSET MemoryIds) \cup {Nil}]
    BY <1>1 DEF Deliver, TypeOK
  <2> QED
    BY <1>1, <2>1 DEF Deliver, TypeOK, locals
<1>2. ASSUME NEW c \in Customers, EvictHot(c)
      PROVE  TypeOK'
  BY <1>2 DEF EvictHot, TypeOK, locals
<1> QED
  BY <1>1, <1>2 DEF Environment

\* What every step of a request r that has begun has in common.
StepOf(r) ==
  /\ pc[r] \notin {"idle"} \cup Returned /\ loop \in {r, Nil}
  /\ pc'[r] # "idle"
  /\ \A q \in Requests \ {r} : pc'[q] = pc[q]
  /\ UNCHANGED <<user, floor, filter, before>>

LEMMA GotoFrame ==
  ASSUME TypeOK, NEW r \in Requests, NEW call, call # "idle", Goto(r, call) \/ Fail(r)
  PROVE  pc'[r] # "idle" /\ \A q \in Requests \ {r} : pc'[q] = pc[q]
BY DEF TypeOK, Goto, Fail

LEMMA StoreNextFrame ==
  ASSUME TypeOK, NEW w \in Writers, NEW rest, StoreNext(w, rest)
  PROVE  pc'[w] # "idle" /\ \A q \in Requests \ {w} : pc'[q] = pc[q]
<1> w \in Requests
  BY DEF Requests
<1>1. PICK call \in {"invalidate", "embed", "supersede"} : Goto(w, call)
  BY DEF StoreNext
<1> QED
  BY <1>1, GotoFrame

LEMMA StepFrame ==
  ASSUME TypeOK, NEW r \in Requests, Step(r)
  PROVE  StepOf(r)
<1> USE DEF StepOf, At, Returned, stores, locals
<1>1. CASE r \in Writers /\ WriteStep(r)
  <2>1. CASE GetCustomer(r)
    BY <2>1, GotoFrame DEF GetCustomer
  <2>2. CASE UpsertCustomer(r)
    BY <2>2, GotoFrame DEF UpsertCustomer
  <2>3. CASE Extract(r)
    BY <2>3, GotoFrame DEF Extract
  <2>4. CASE ListExisting(r)
    BY <2>4, GotoFrame DEF ListExisting
  <2>5. CASE CurrentVersion(r)
    BY <2>5, GotoFrame DEF CurrentVersion
  <2>6. CASE BumpVersion(r)
    BY <2>6, GotoFrame DEF BumpVersion
  <2>7. CASE AppendLedger(r)
    BY <1>1, <2>7, StoreNextFrame DEF AppendLedger
  <2>8. CASE Supersede(r)
    BY <2>8, GotoFrame DEF Supersede
  <2>9. CASE Embed(r)
    BY <2>9, GotoFrame DEF Embed
  <2>10. CASE UpsertPoint(r)
    BY <2>10, GotoFrame DEF UpsertPoint
  <2>11. CASE InsertMemory(r)
    BY <1>1, <2>11, StoreNextFrame DEF InsertMemory
  <2>12. CASE InvalidateHot(r)
    BY <2>12, GotoFrame DEF InvalidateHot
  <2>13. CASE Publish(r)
    BY <2>13, GotoFrame DEF Publish
  <2> QED
    BY <1>1, <2>1, <2>2, <2>3, <2>4, <2>5, <2>6, <2>7, <2>8, <2>9, <2>10, <2>11, <2>12, <2>13
    DEF WriteStep
<1>2. CASE ReadStep(r)
  <2>1. CASE AwaitVersion(r)
    BY <2>1, GotoFrame DEF AwaitVersion
  <2>2. CASE Poll(r)
    BY <2>2 DEF Poll
  <2>3. CASE TimeOut(r)
    BY <2>3, GotoFrame DEF TimeOut
  <2>4. CASE GetWorkingMemory(r)
    BY <2>4, GotoFrame DEF GetWorkingMemory
  <2>5. CASE ListMemories(r)
    BY <2>5, GotoFrame DEF ListMemories
  <2>6. CASE SetWorkingMemory(r)
    BY <2>6, GotoFrame DEF SetWorkingMemory
  <2> QED
    BY <1>2, <2>1, <2>2, <2>3, <2>4, <2>5, <2>6 DEF ReadStep
<1>3. CASE SearchStep(r)
  BY <1>3, GotoFrame DEF SearchStep, EmbedQuery, SearchPoints, GetMemoriesByIds
<1>4. CASE ForgetStep(r)
  BY <1>4, GotoFrame DEF ForgetStep, ForgetHot, DeleteRows, DeletePoints
<1>5. CASE SweepStep(r)
  BY <1>5, GotoFrame DEF SweepStep, ListExpired, Expire
<1>6. CASE Raise(r)
  BY <1>6, GotoFrame
  DEF Raise, Remote, WarmCalls, HotCalls, SemanticCalls, ModelCalls
<1> QED
  BY <1>1, <1>2, <1>3, <1>4, <1>5, <1>6 DEF Step

\* The first calls of requests.
FirstCalls == {"get_customer", "await_version", "get_working_memory", "embed_query",
               "forget_hot", "list_expired"}

\* What every call that starts a request has in common.
LEMMA CallFrame ==
  ASSUME TypeOK, Call
  PROVE  \E r \in Requests :
           /\ pc[r] = "idle" /\ loop \in {r, Nil} /\ pc'[r] \in FirstCalls
           /\ r \notin Sweepers => user'[r] \in Customers
           /\ \A q \in Requests \ {r} : pc'[q] = pc[q] /\ user'[q] = user[q] /\ before'[q] = before[q]
           /\ before'[r] = {q \in Writers \cup Forgetters : pc[q] \in Returned}
           /\ UNCHANGED <<stores, batch, pending, listing, todo, stamp>>
<1> DEFINE Starts(r) == \E call \in FirstCalls : Begin(r, call)
<1>0. ~Remote("idle")
  BY DEF Remote, WarmCalls, HotCalls, SemanticCalls, ModelCalls
<1>1. ASSUME NEW r \in Requests, NEW call \in FirstCalls, Begin(r, call)
      PROVE  /\ pc[r] = "idle" /\ loop \in {r, Nil} /\ pc'[r] \in FirstCalls
             /\ \A q \in Requests \ {r} : pc'[q] = pc[q] /\ before'[q] = before[q]
             /\ before'[r] = {q \in Writers \cup Forgetters : pc[q] \in Returned}
             /\ UNCHANGED <<stores, batch, pending, listing, todo, stamp>>
  BY <1>0, <1>1 DEF Begin, At, Goto, TypeOK
<1> USE DEF FirstCalls
<1>2. ASSUME NEW w \in Writers, NEW c \in Customers, UserWrite(w, c)
      PROVE  w \in Requests /\ Starts(w) /\ user' = [user EXCEPT ![w] = c]
  BY <1>2 DEF UserWrite, Requests
<1>3. ASSUME NEW r \in Readers, NEW c \in Customers, NEW n \in Floors, NEW kind \in Filters,
             UserRead(r, c, n, kind)
      PROVE  r \in Requests /\ Starts(r) /\ user' = [user EXCEPT ![r] = c]
  BY <1>3 DEF UserRead, Requests
<1>4. ASSUME NEW s \in Searchers, NEW c \in Customers, UserSearch(s, c)
      PROVE  s \in Requests /\ Starts(s) /\ user' = [user EXCEPT ![s] = c]
  BY <1>4 DEF UserSearch, Requests
<1>5. ASSUME NEW f \in Forgetters, NEW c \in Customers, UserForget(f, c)
      PROVE  f \in Requests /\ Starts(f) /\ user' = [user EXCEPT ![f] = c]
  BY <1>5 DEF UserForget, Requests
<1>6. ASSUME NEW s \in Sweepers, Enforce(s)
      PROVE  s \in Requests /\ Starts(s) /\ user' = user
  BY <1>6 DEF Enforce, Requests
<1> DEFINE Names(r) == \/ \E c \in Customers : user' = [user EXCEPT ![r] = c]
                       \/ r \in Sweepers /\ user' = user
<1>7. PICK r \in Requests : Starts(r) /\ Names(r)
  <2> HIDE DEF Starts
  <2>1. CASE \E w \in Writers, c \in Customers : UserWrite(w, c)
    BY <1>2, <2>1
  <2>2. CASE \E r \in Readers, c \in Customers, n \in Floors, kind \in Filters : UserRead(r, c, n, kind)
    BY <1>3, <2>2
  <2>3. CASE \E s \in Searchers, c \in Customers : UserSearch(s, c)
    BY <1>4, <2>3
  <2>4. CASE \E f \in Forgetters, c \in Customers : UserForget(f, c)
    BY <1>5, <2>4
  <2>5. CASE \E s \in Sweepers : Enforce(s)
    BY <1>6, <2>5
  <2> QED
    BY <2>1, <2>2, <2>3, <2>4, <2>5 DEF Call
<1>8. /\ r \notin Sweepers => user'[r] \in Customers
      /\ \A q \in Requests \ {r} : user'[q] = user[q]
  BY <1>7 DEF TypeOK
<1> QED
  BY <1>1, <1>7, <1>8

LEMMA StepType ==
  ASSUME TypeInv, [Next]_vars
  PROVE  TypeOK'
<1> TypeOK
  BY DEF TypeInv
<1>1. ASSUME NEW r \in Requests, Raise(r)
      PROVE  TypeOK'
  BY <1>1, FailType DEF Raise, TypeOK, stores, locals
<1>2. ASSUME NEW r \in Requests, Step(r)
      PROVE  TypeOK'
  BY <1>1, <1>2, WriteType, ReadType, SearchType, ForgetType, SweepType DEF Step
<1>3. CASE Quiet \/ UNCHANGED vars
  BY <1>3 DEF Quiet, vars, TypeOK
<1> QED
  BY <1>2, <1>3, CallType, EnvironmentType DEF Next

LEMMA BegunStep ==
  ASSUME TypeInv, [Next]_vars
  PROVE  Begun'
<1> SUFFICES ASSUME NEW r \in Requests \ Sweepers, pc'[r] # "idle"
             PROVE  user'[r] \in Customers
  BY DEF Begun
<1> TypeOK /\ (pc[r] # "idle" => user[r] \in Customers)
  BY DEF TypeInv, Begun
<1>1. CASE Call
  BY <1>1, CallFrame
<1>2. ASSUME NEW q \in Requests, Step(q)
      PROVE  user'[r] \in Customers
  BY <1>2, StepFrame DEF StepOf
<1>3. CASE Environment \/ Quiet \/ UNCHANGED vars
  BY <1>3 DEF Environment, Quiet, vars, Deliver, EvictHot, locals
<1> QED
  BY <1>1, <1>2, <1>3 DEF Next

LEMMA InitType == Init => TypeInv
<1> SUFFICES ASSUME Init PROVE TypeInv
  OBVIOUS
<1>1. "idle" \in Calls
  BY CallsInCalls
<1>2. TypeOK
  BY <1>1 DEF Init, TypeOK
<1>3. Begun
  BY DEF Init, Begun
<1> QED
  BY <1>2, <1>3 DEF TypeInv

\* Every variable keeps its type, and a request that runs knows its customer,
\* whatever the backends, the faults and the interleaving.
THEOREM TypeCorrect == Spec => []TypeInv
<1>1. TypeInv /\ [Next]_vars => TypeInv'
  BY StepType, BegunStep DEF TypeInv
<1> QED
  BY <1>1, InitType, PTL DEF Spec

THEOREM TypeSafety == Spec => []TypeOK
BY TypeCorrect, PTL DEF TypeInv

-----------------------------------------------------------------------------
(* Which step writes which variable.                                       *)

LEMMA ClassOfStep ==
  ASSUME NEW r \in Requests, Step(r)
  PROVE  /\ r \in Writers => WriteStep(r) \/ Raise(r)
         /\ r \in Readers => ReadStep(r) \/ Raise(r)
         /\ r \in Searchers => SearchStep(r) \/ Raise(r)
         /\ r \in Forgetters => ForgetStep(r) \/ Raise(r)
         /\ r \in Sweepers => SweepStep(r) \/ Raise(r)
BY RequestsAssumption DEF Step

\* Only writes touch the clock, the ledger and the writes' own variables.
LEMMA OthersKeepLedger ==
  ASSUME NEW r \in Requests \ Writers, Step(r)
  PROVE  UNCHANGED <<versions, ledger, batch, pending, stamp>>
<1> USE DEF stores, locals
<1>1. CASE r \in Readers
  BY <1>1, ClassOfStep DEF ReadStep, AwaitVersion, Poll, TimeOut, GetWorkingMemory, ListMemories,
    SetWorkingMemory, Raise
<1>2. CASE r \in Searchers
  BY <1>2, ClassOfStep DEF SearchStep, EmbedQuery, SearchPoints, GetMemoriesByIds, Raise
<1>3. CASE r \in Forgetters
  BY <1>3, ClassOfStep DEF ForgetStep, ForgetHot, DeleteRows, DeletePoints, Raise
<1>4. CASE r \in Sweepers
  BY <1>4, ClassOfStep DEF SweepStep, ListExpired, Expire, Raise
<1> QED
  BY <1>1, <1>2, <1>3, <1>4 DEF Requests

\* The steps of a write, by what they do to the ledger.
LEMMA WriteKeepsLedger ==
  ASSUME NEW w \in Writers, Step(w)
  PROVE  /\ ledger' = ledger \/ AppendLedger(w)
         /\ UNCHANGED <<versions, stamp>> \/ BumpVersion(w)
         /\ pending' = pending \/ ListExisting(w) \/ AppendLedger(w) \/ InsertMemory(w)
<1> w \in Requests
  BY DEF Requests
<1> USE DEF stores, locals
<1>1. CASE WriteStep(w)
  BY <1>1 DEF WriteStep, GetCustomer, UpsertCustomer, Extract, ListExisting, CurrentVersion,
    BumpVersion, AppendLedger, Supersede, Embed, UpsertPoint, InsertMemory, InvalidateHot, Publish
<1>2. CASE Raise(w)
  BY <1>2 DEF Raise
<1> QED
  BY <1>1, <1>2, ClassOfStep

\* Rows appear by InsertMemory, change by Supersede and Expire, and go by
\* DeleteRows; points appear by UpsertPoint and go by DeletePoints.
LEMMA StepRows ==
  ASSUME NEW r \in Requests, Step(r)
  PROVE  /\ \/ memories' = memories
            \/ r \in Writers /\ (Supersede(r) \/ InsertMemory(r))
            \/ r \in Forgetters /\ DeleteRows(r)
            \/ r \in Sweepers /\ Expire(r)
         /\ \/ points' = points
            \/ r \in Writers /\ UpsertPoint(r)
            \/ r \in Forgetters /\ DeletePoints(r)
<1> USE DEF stores, locals
<1>0. CASE r \in Writers /\ WriteStep(r)
  BY <1>0 DEF WriteStep, GetCustomer, UpsertCustomer, Extract, ListExisting, CurrentVersion,
    BumpVersion, AppendLedger, Supersede, Embed, UpsertPoint, InsertMemory, InvalidateHot, Publish
<1>1. CASE r \in Readers /\ ReadStep(r)
  BY <1>1 DEF ReadStep, AwaitVersion, Poll, TimeOut, GetWorkingMemory, ListMemories,
    SetWorkingMemory
<1>2. CASE r \in Searchers /\ SearchStep(r)
  BY <1>2 DEF SearchStep, EmbedQuery, SearchPoints, GetMemoriesByIds
<1>3. CASE r \in Forgetters /\ ForgetStep(r)
  BY <1>3 DEF ForgetStep, ForgetHot, DeleteRows, DeletePoints
<1>4. CASE r \in Sweepers /\ SweepStep(r)
  BY <1>4 DEF SweepStep, ListExpired, Expire
<1>5. CASE Raise(r)
  BY <1>5 DEF Raise
<1> QED
  BY <1>0, <1>1, <1>2, <1>3, <1>4, <1>5 DEF Step

\* Every other step of the system leaves rows, points, clock and ledger alone.
LEMMA QuietStores ==
  ASSUME Environment \/ Quiet \/ UNCHANGED vars
  PROVE  /\ UNCHANGED <<memories, points, versions, ledger, pc, user, pending, stamp, before>>
         /\ loop' = loop
BY DEF Environment, Quiet, Deliver, EvictHot, vars, locals

\* A row appears by the step of its own write that stores it.
LEMMA RowBorn ==
  ASSUME TypeInv, [Next]_vars, NEW w \in Writers, NEW i \in 1 .. MaxFacts,
         memories[<<w, i>>] = Nil, memories'[<<w, i>>] # Nil
  PROVE  Step(w) /\ InsertMemory(w) /\ i \in pending[w]
<1> DEFINE m == <<w, i>>
<1>1. m \in MemoryIds /\ memories \in [MemoryIds -> Memory \cup {Nil}]
  BY DEF MemoryIds, TypeInv, TypeOK
<1>2. PICK r \in Requests : Step(r) /\ memories' # memories
  <2>1. Call => memories' = memories
    BY CallFrame DEF stores, TypeInv
  <2> QED
    BY <2>1, QuietStores DEF Next
<1>3. ~(r \in Writers /\ Supersede(r)) /\ ~(r \in Sweepers /\ Expire(r))
  <2>1. \A n, by : Superseded(n, by)[m] = memories[m]
    BY <1>1 DEF Superseded
  <2> QED
    BY <2>1 DEF Supersede, Expire
<1>4. ~(r \in Forgetters /\ DeleteRows(r))
  BY <1>1 DEF DeleteRows
<1>5. r \in Writers /\ InsertMemory(r)
  BY <1>2, <1>3, <1>4, StepRows
<1>6. PICK j \in pending[r] :
        memories' = [memories EXCEPT ![<<r, j>>] =
                       [customer |-> user[r], active |-> TRUE, superseded_by |-> Nil]]
  BY <1>5 DEF InsertMemory
<1>7. m = <<r, j>>
  BY <1>1, <1>6
<1> QED
  BY <1>2, <1>5, <1>6, <1>7

-----------------------------------------------------------------------------
(* Durability first.                                                       *)

\* The calls that write stores facts with.
Storing == {"supersede", "embed", "upsert_point", "insert_memory"}

\* What a write that is storing has left to store is in the ledger.
PendingPromised ==
  \A w \in Writers : pc[w] \in Storing => \A i \in pending[w] : Promised(<<w, i>>)

\* The ledger only grows at its end.
LEMMA LedgerGrows ==
  ASSUME TypeInv, [Next]_vars
  PROVE  ledger' = ledger \/ \E e : ledger' = Append(ledger, e)
<1> TypeOK
  BY DEF TypeInv
<1>1. ASSUME NEW w \in Writers, Step(w)
      PROVE  ledger' = ledger \/ \E e : ledger' = Append(ledger, e)
  BY <1>1, WriteKeepsLedger DEF AppendLedger
<1>2. ASSUME NEW r \in Requests \ Writers, Step(r)
      PROVE  ledger' = ledger
  BY <1>2, OthersKeepLedger
<1>3. CASE Call
  BY <1>3, CallFrame DEF stores
<1> QED
  BY <1>1, <1>2, <1>3, QuietStores DEF Next

\* A promise is never taken back.
LEMMA PromisesKept ==
  ASSUME TypeInv, [Next]_vars, NEW m, Promised(m)
  PROVE  Promised(m)'
<1>1. PICK n \in DOMAIN ledger : m \in ledger[n].memory_ids
  BY DEF Promised
<1>2. ledger \in Seq([user : Customers, version : Nat, memory_ids : SUBSET MemoryIds])
  BY DEF TypeInv, TypeOK
<1>3. n \in DOMAIN ledger' /\ ledger'[n] = ledger[n]
  BY <1>1, <1>2, LedgerGrows
<1> QED
  BY <1>1, <1>3 DEF Promised

\* A write's entry promises everything it is about to store.
LEMMA AppendPromises ==
  ASSUME TypeInv, NEW w \in Writers, AppendLedger(w), NEW i \in pending[w]
  PROVE  Promised(<<w, i>>)'
<1> DEFINE e == [user |-> user[w], version |-> stamp[w], memory_ids |-> {w} \X pending[w]]
<1>1. ledger \in Seq([user : Customers, version : Nat, memory_ids : SUBSET MemoryIds])
  BY DEF TypeInv, TypeOK
<1>2. ledger' = Append(ledger, e)
  BY DEF AppendLedger
<1>3. Len(ledger) + 1 \in DOMAIN ledger' /\ ledger'[Len(ledger) + 1] = e
  BY <1>1, <1>2
<1>4. <<w, i>> \in e.memory_ids
  OBVIOUS
<1> QED
  BY <1>3, <1>4 DEF Promised

\* How a write comes to be storing: from its ledger entry, or by storing on.
LEMMA StoringFrom ==
  ASSUME TypeInv, NEW w \in Writers, Step(w), pc'[w] \in Storing
  PROVE  \/ AppendLedger(w) /\ pending'[w] = pending[w]
         \/ pc[w] \in Storing /\ pending'[w] \subseteq pending[w]
<1> w \in Requests /\ TypeOK
  BY DEF Requests, TypeInv
<1> USE DEF Storing, TypeOK, Goto, Fail, At, stores, locals
<1>1. CASE GetCustomer(w) \/ UpsertCustomer(w) \/ CurrentVersion(w)
  BY <1>1 DEF GetCustomer, UpsertCustomer, CurrentVersion
<1>2. CASE Extract(w)
  BY <1>2 DEF Extract
<1>3. CASE ListExisting(w)
  BY <1>3 DEF ListExisting
<1>4. CASE BumpVersion(w)
  BY <1>4 DEF BumpVersion
<1>5. CASE AppendLedger(w)
  BY <1>5 DEF AppendLedger, StoreNext
<1>6. CASE Supersede(w) \/ Embed(w) \/ UpsertPoint(w)
  BY <1>6 DEF Supersede, Embed, UpsertPoint
<1>7. CASE InsertMemory(w)
  BY <1>7 DEF InsertMemory, StoreNext
<1>8. CASE InvalidateHot(w) \/ Publish(w)
  BY <1>8 DEF InvalidateHot, Publish
<1>9. CASE Raise(w)
  BY <1>9 DEF Raise
<1> QED
  BY <1>1, <1>2, <1>3, <1>4, <1>5, <1>6, <1>7, <1>8, <1>9, ClassOfStep DEF WriteStep

LEMMA PendingPromisedStep ==
  ASSUME TypeInv, PendingPromised, [Next]_vars
  PROVE  PendingPromised'
<1> SUFFICES ASSUME NEW w \in Writers, pc'[w] \in Storing, NEW i \in pending'[w]
             PROVE  Promised(<<w, i>>)'
  BY DEF PendingPromised
<1> w \in Requests /\ TypeOK
  BY DEF Requests, TypeInv
<1>1. CASE Step(w)
  BY <1>1, StoringFrom, AppendPromises, PromisesKept DEF PendingPromised
<1>2. ASSUME pc'[w] = pc[w], pending'[w] = pending[w]
      PROVE  Promised(<<w, i>>)'
  BY <1>2, PromisesKept DEF PendingPromised
<1>3. ASSUME NEW r \in Requests \ {w}, Step(r)
      PROVE  pc'[w] = pc[w] /\ pending'[w] = pending[w]
  <2>1. pc'[w] = pc[w]
    BY <1>3, StepFrame DEF StepOf
  <2>2. CASE r \in Writers
    <3>1. pending' = pending \/ \E rest : pending' = [pending EXCEPT ![r] = rest]
      BY <1>3, <2>2, WriteKeepsLedger DEF ListExisting, AppendLedger, InsertMemory, StoreNext
    <3> QED
      BY <2>1, <3>1 DEF TypeOK
  <2>3. CASE r \notin Writers
    BY <1>3, <2>1, <2>3, OthersKeepLedger
  <2> QED
    BY <2>1, <2>2, <2>3
<1>4. CASE Call
  BY <1>2, <1>4, CallFrame DEF Storing, FirstCalls
<1>5. CASE Environment \/ Quiet \/ UNCHANGED vars
  BY <1>2, <1>5, QuietStores
<1> QED
  BY <1>1, <1>2, <1>3, <1>4, <1>5 DEF Next

RowPromised(m) ==
  /\ memories[m] # Nil => Promised(m)
  /\ memories[m] # Nil /\ memories[m].superseded_by # Nil => Promised(memories[m].superseded_by)

PointPromised(m) == points[m] # Nil => Promised(m)

LEMMA RowKept ==
  ASSUME TypeInv, [Next]_vars, NEW m, RowPromised(m), memories'[m] = memories[m]
  PROVE  RowPromised(m)'
BY PromisesKept DEF RowPromised

LEMMA LedgerFirstStep ==
  ASSUME TypeInv, PendingPromised, LedgerFirst, [Next]_vars
  PROVE  LedgerFirst'
<1> SUFFICES ASSUME NEW m \in MemoryIds
             PROVE  RowPromised(m)' /\ PointPromised(m)'
  BY DEF LedgerFirst, RowPromised, PointPromised
<1> RowPromised(m) /\ PointPromised(m)
  BY DEF LedgerFirst, RowPromised, PointPromised
<1> TypeOK
  BY DEF TypeInv
<1>1. ASSUME memories'[m] = memories[m] PROVE RowPromised(m)'
  BY <1>1, RowKept
<1>2. ASSUME points'[m] = points[m] PROVE PointPromised(m)'
  BY <1>2, PromisesKept DEF PointPromised
<1>3. ASSUME NEW n \in MemoryIds, NEW by \in MemoryIds, Promised(by) \/ by = n,
             memories' = Superseded(n, by)
      PROVE  RowPromised(m)'
  <2>1. CASE memories[n] = Nil \/ m # n
    BY <1>1, <1>3, <2>1 DEF Superseded, TypeOK
  <2>2. CASE memories[n] # Nil /\ m = n
    <3>1. Promised(m)' /\ Promised(by)'
      BY <1>3, <2>2, PromisesKept DEF RowPromised
    <3>2. memories[n] \in Memory
      BY <2>2 DEF TypeOK
    <3>3. memories'[m].superseded_by = by
      BY <1>3, <2>2, <3>2 DEF Superseded, TypeOK, Memory
    <3> QED
      BY <3>1, <3>3 DEF RowPromised
  <2> QED
    BY <2>1, <2>2
<1>4. ASSUME NEW r \in Requests, Step(r)
      PROVE  RowPromised(m)'
  <2>1. CASE r \in Writers /\ Supersede(r)
    <3>1. PICK n \in todo[r], i \in pending[r] :
            memories' = memories \/ memories' = Superseded(n, <<r, i>>)
      BY <2>1 DEF Supersede
    <3>2. n \in MemoryIds /\ <<r, i>> \in MemoryIds
      BY <2>1 DEF TypeOK, MemoryIds
    <3>3. Promised(<<r, i>>)
      BY <2>1 DEF PendingPromised, Storing, Supersede, At
    <3> QED
      BY <1>1, <1>3, <3>1, <3>2, <3>3
  <2>2. CASE r \in Writers /\ InsertMemory(r)
    <3>1. PICK i \in pending[r] :
            memories' = [memories EXCEPT ![<<r, i>>] =
                           [customer |-> user[r], active |-> TRUE, superseded_by |-> Nil]]
      BY <2>2 DEF InsertMemory
    <3>2. Promised(<<r, i>>)'
      BY <2>2, PromisesKept DEF PendingPromised, Storing, InsertMemory, At
    <3>3. CASE m = <<r, i>>
      BY <3>1, <3>2, <3>3 DEF TypeOK, RowPromised
    <3>4. CASE m # <<r, i>>
      BY <1>1, <3>1, <3>4 DEF TypeOK
    <3> QED
      BY <3>3, <3>4
  <2>3. CASE r \in Forgetters /\ DeleteRows(r)
    <3>1. memories'[m] = memories[m] \/ memories'[m] = Nil
      BY <2>3 DEF DeleteRows
    <3> QED
      BY <1>1, <3>1 DEF RowPromised
  <2>4. CASE r \in Sweepers /\ Expire(r)
    <3>1. PICK n \in todo[r] : memories' = Superseded(n, n)
      BY <2>4 DEF Expire
    <3>2. n \in MemoryIds
      BY DEF TypeOK
    <3> QED
      BY <1>3, <3>1, <3>2
  <2> QED
    BY <1>1, <1>4, <2>1, <2>2, <2>3, <2>4, StepRows
<1>5. ASSUME NEW r \in Requests, Step(r)
      PROVE  PointPromised(m)'
  <2>1. CASE r \in Writers /\ UpsertPoint(r)
    <3>1. PICK i \in pending[r] : points' = [points EXCEPT ![<<r, i>>] = user[r]]
      BY <2>1 DEF UpsertPoint
    <3>2. Promised(<<r, i>>)'
      BY <2>1, PromisesKept DEF PendingPromised, Storing, UpsertPoint, At
    <3> QED
      BY <1>2, <3>1, <3>2 DEF TypeOK, PointPromised
  <2>2. CASE r \in Forgetters /\ DeletePoints(r)
    <3>1. points'[m] = points[m] \/ points'[m] = Nil
      BY <2>2 DEF DeletePoints
    <3> QED
      BY <1>2, <3>1 DEF PointPromised
  <2> QED
    BY <1>2, <1>5, <2>1, <2>2, StepRows
<1>6. CASE Call
  BY <1>1, <1>2, <1>6, CallFrame DEF stores
<1> QED
  BY <1>1, <1>2, <1>4, <1>5, <1>6, QuietStores DEF Next

\* Whatever a row, a point or a successor link names was promised by an earlier
\* ledger entry, whichever calls fail: the order of user_write (manager.py:243).
THEOREM DurabilityFirst == Spec => []LedgerFirst
<1>1. Init => PendingPromised /\ LedgerFirst
  BY DEF Init, PendingPromised, Storing, LedgerFirst, Requests
<1>2. TypeInv /\ PendingPromised /\ LedgerFirst /\ [Next]_vars => (PendingPromised /\ LedgerFirst)'
  BY PendingPromisedStep, LedgerFirstStep
<1> QED
  BY <1>1, <1>2, TypeCorrect, PTL DEF Spec

-----------------------------------------------------------------------------
(* Versions.                                                               *)

Appending(w) == pc[w] = "append"

\* The clock is at or past every version it gave out, and a version on its way
\* to the ledger is not there yet, nor on any other write.
VersionsFresh ==
  /\ \A n \in DOMAIN ledger : ledger[n].version <= versions[ledger[n].user]
  /\ \A w \in Writers : Appending(w) =>
       /\ stamp[w] <= versions[user[w]]
       /\ \A n \in DOMAIN ledger : ledger[n].user = user[w] => ledger[n].version # stamp[w]
       /\ \A v \in Writers \ {w} : Appending(v) /\ user[v] = user[w] => stamp[v] # stamp[w]

\* Without Redis the write between bump and append holds the event loop, and its
\* version is the customer's latest.
LoopHeld ==
  ~Redis => \A w \in Writers : Appending(w) =>
    /\ loop = w
    /\ \A n \in DOMAIN ledger : ledger[n].user = user[w] => ledger[n].version < stamp[w]

VersionInv == VersionsFresh /\ LoopHeld /\ UniqueVersions /\ LedgerInVersionOrder

\* A write comes to the ledger only from the clock.
LEMMA AppendingFrom ==
  ASSUME TypeInv, NEW w \in Writers, Step(w), Appending(w)'
  PROVE  BumpVersion(w)
<1> w \in Requests /\ TypeOK
  BY DEF Requests, TypeInv
<1> USE DEF TypeOK, Goto, Fail, At, Appending
<1>1. CASE GetCustomer(w) \/ UpsertCustomer(w) \/ CurrentVersion(w) \/ Extract(w)
  BY <1>1 DEF GetCustomer, UpsertCustomer, CurrentVersion, Extract
<1>2. CASE ListExisting(w)
  BY <1>2 DEF ListExisting
<1>3. CASE AppendLedger(w) \/ InsertMemory(w)
  <2>1. PICK call \in {"invalidate", "embed", "supersede"} : Goto(w, call)
    BY <1>3 DEF AppendLedger, InsertMemory, StoreNext
  <2> QED
    BY <2>1
<1>4. CASE Supersede(w) \/ Embed(w) \/ UpsertPoint(w) \/ InvalidateHot(w) \/ Publish(w)
  BY <1>4 DEF Supersede, Embed, UpsertPoint, InvalidateHot, Publish
<1>5. CASE Raise(w)
  BY <1>5 DEF Raise
<1> QED
  BY <1>1, <1>2, <1>3, <1>4, <1>5, ClassOfStep DEF WriteStep

\* Every step but bump and append leaves clock and ledger alone, and the writes
\* on their way to the ledger, which keep the event loop if they held it.
LEMMA OtherSteps ==
  ASSUME TypeInv, [Next]_vars, ~\E w \in Writers : Step(w) /\ (BumpVersion(w) \/ AppendLedger(w))
  PROVE  /\ UNCHANGED <<versions, ledger, stamp>>
         /\ \A w \in Writers : Appending(w)' =>
              Appending(w) /\ user'[w] = user[w] /\ (loop = w => loop' = w)
<1> TypeOK /\ \A w \in Writers : w \in Requests /\ w # Nil
  BY RequestsAssumption DEF Requests, TypeInv
<1>1. ASSUME NEW r \in Requests, Step(r)
      PROVE  /\ UNCHANGED <<versions, ledger, stamp>>
             /\ \A w \in Writers : Appending(w)' =>
                  Appending(w) /\ user'[w] = user[w] /\ (loop = w => loop' = w)
  <2>1. UNCHANGED <<versions, ledger, stamp>>
    BY <1>1, WriteKeepsLedger, OthersKeepLedger
  <2>2. StepOf(r)
    BY <1>1, StepFrame
  <2>3. ~(r \in Writers /\ Appending(r)')
    BY <1>1, AppendingFrom
  <2> QED
    BY <2>1, <2>2, <2>3 DEF StepOf, Appending
<1>2. CASE Call
  BY <1>2, CallFrame DEF Appending, FirstCalls, stores
<1>3. CASE Environment \/ Quiet \/ UNCHANGED vars
  BY <1>3, QuietStores DEF Environment, Deliver, EvictHot, Quiet, vars, locals, Appending
<1> QED
  BY <1>1, <1>2, <1>3 DEF Next

LEMMA LedgerEntries ==
  ASSUME TypeOK
  PROVE  \A n \in DOMAIN ledger : ledger[n].user \in Customers /\ ledger[n].version \in Nat
<1> DEFINE Entry == [user : Customers, version : Nat, memory_ids : SUBSET MemoryIds]
<1>1. \A e \in Entry : e.user \in Customers /\ e.version \in Nat
  OBVIOUS
<1>2. ledger \in Seq(Entry)
  BY DEF TypeOK
<1> HIDE DEF Entry
<1>3. \A n \in DOMAIN ledger : ledger[n] \in Entry
  BY <1>2
<1> QED
  BY <1>1, <1>3

LEMMA BumpKeeps ==
  ASSUME TypeInv, VersionInv, NEW w \in Writers, Step(w), BumpVersion(w)
  PROVE  VersionInv'
<1> w \in Requests \ Sweepers /\ TypeOK /\ pc[w] = "bump"
  BY RequestsAssumption DEF Requests, TypeInv, BumpVersion, At
<1>1. /\ user[w] \in Customers /\ user' = user /\ ledger' = ledger
      /\ versions' = [versions EXCEPT ![user[w]] = @ + 1]
      /\ stamp' = [stamp EXCEPT ![w] = versions[user[w]] + 1]
      /\ Goto(w, "append")
  BY DEF BumpVersion, TypeInv, Begun
<1>3. \A n \in DOMAIN ledger : ledger[n].user \in Customers /\ ledger[n].version \in Nat
  BY LedgerEntries
<1>4. \A v \in Writers \ {w} : Appending(v)' <=> Appending(v)
  BY StepFrame DEF StepOf, Appending, Requests
<1>5. \A v \in Writers : Appending(v) => user[v] \in Customers
  BY RequestsAssumption DEF TypeInv, Begun, Appending, Requests
<1>6. \A n \in DOMAIN ledger : ledger[n].user = user[w] => ledger[n].version < versions[user[w]] + 1
  BY <1>1, <1>3 DEF VersionInv, VersionsFresh, TypeOK
<1>7. VersionsFresh'
  <2>1. \A n \in DOMAIN ledger : ledger[n].version <= versions'[ledger[n].user]
    BY <1>1, <1>3 DEF VersionInv, VersionsFresh, TypeOK
  <2>2. ASSUME NEW v \in Writers \ {w}, Appending(v)
        PROVE  /\ stamp'[v] = stamp[v] /\ stamp[v] <= versions'[user[v]]
               /\ user[v] = user[w] => stamp[v] # versions[user[w]] + 1
    BY <1>1, <1>5, <2>2 DEF VersionInv, VersionsFresh, TypeOK
  <2>3. stamp'[w] = versions[user[w]] + 1 /\ stamp'[w] <= versions'[user[w]]
    BY <1>1 DEF TypeOK
  <2> QED
    BY <1>1, <1>3, <1>4, <1>6, <2>1, <2>2, <2>3 DEF VersionInv, VersionsFresh, TypeOK
<1>8. LoopHeld'
  <2> SUFFICES ASSUME ~Redis, NEW v \in Writers, Appending(v)'
               PROVE  /\ loop' = v
                      /\ \A n \in DOMAIN ledger :
                           ledger[n].user = user[v] => ledger[n].version < stamp'[v]
    BY <1>1 DEF LoopHeld
  <2>1. v = w
    BY <1>4, RequestsAssumption DEF VersionInv, LoopHeld, BumpVersion, At, Requests
  <2>2. ~Remote("bump") /\ ~Remote("append")
    BY DEF Remote, WarmCalls, HotCalls, SemanticCalls, ModelCalls
  <2>3. pc'[w] = "append" /\ loop' = w
    BY <1>1, <2>2 DEF Goto, Suspends, Returned, TypeOK
  <2> QED
    BY <1>1, <1>6, <2>1, <2>3 DEF TypeOK
<1>9. UniqueVersions' /\ LedgerInVersionOrder'
  BY <1>1 DEF VersionInv, UniqueVersions, LedgerInVersionOrder
<1> QED
  BY <1>7, <1>8, <1>9 DEF VersionInv
LEMMA AppendKeeps ==
  ASSUME TypeInv, VersionInv, NEW w \in Writers, Step(w), AppendLedger(w)
  PROVE  VersionInv'
<1> DEFINE N == Len(ledger) + 1
           e == [user |-> user[w], version |-> stamp[w], memory_ids |-> {w} \X pending[w]]
<1> w \in Requests \ Sweepers /\ TypeOK /\ Appending(w)
  BY RequestsAssumption DEF Requests, TypeInv, AppendLedger, At, Appending
<1>1. UNCHANGED <<versions, stamp, user>> /\ ledger' = Append(ledger, e)
  BY DEF AppendLedger
<1>2. ledger \in Seq([user : Customers, version : Nat, memory_ids : SUBSET MemoryIds])
  BY DEF TypeOK
<1>3. /\ DOMAIN ledger = 1..Len(ledger) /\ Len(ledger) \in Nat
      /\ DOMAIN ledger' = DOMAIN ledger \cup {N}
      /\ \A n \in DOMAIN ledger : ledger'[n] = ledger[n]
      /\ ledger'[N].user = user[w] /\ ledger'[N].version = stamp[w]
  BY <1>1, <1>2
<1>4. ~Appending(w)' /\ \A v \in Writers \ {w} : Appending(v)' => Appending(v)
  <2>1. ~Appending(w)'
    BY AppendingFrom DEF BumpVersion, At, Appending
  <2> QED
    BY <2>1, StepFrame DEF StepOf, Appending, Requests
<1> HIDE DEF N, e
<1>5. VersionsFresh'
  BY <1>1, <1>3, <1>4 DEF VersionInv, VersionsFresh
<1>6. LoopHeld'
  BY <1>4, RequestsAssumption DEF VersionInv, LoopHeld, AppendLedger, At, Requests
<1>7. UniqueVersions'
  BY <1>3 DEF VersionInv, UniqueVersions, VersionsFresh
<1>8. LedgerInVersionOrder'
  <2> SUFFICES ASSUME ~Redis, NEW j \in DOMAIN ledger', NEW k \in DOMAIN ledger',
                      j < k, ledger'[j].user = ledger'[k].user
               PROVE  ledger'[j].version < ledger'[k].version
    BY DEF LedgerInVersionOrder
  <2>1. j # N
    BY <1>3 DEF N
  <2>2. CASE k # N
    BY <1>3, <2>1, <2>2 DEF VersionInv, LedgerInVersionOrder
  <2>3. CASE k = N
    BY <1>3, <2>1, <2>3 DEF VersionInv, LoopHeld
  <2> QED
    BY <2>2, <2>3
<1> QED
  BY <1>5, <1>6, <1>7, <1>8 DEF VersionInv

LEMMA VersionStep ==
  ASSUME TypeInv, VersionInv, [Next]_vars
  PROVE  VersionInv'
<1>1. CASE \E w \in Writers : Step(w) /\ (BumpVersion(w) \/ AppendLedger(w))
  BY <1>1, BumpKeeps, AppendKeeps
<1>2. CASE ~\E w \in Writers : Step(w) /\ (BumpVersion(w) \/ AppendLedger(w))
  <2>1. UNCHANGED <<versions, ledger, stamp>>
    BY <1>2, OtherSteps
  <2>2. \A w \in Writers : Appending(w)' =>
          Appending(w) /\ user'[w] = user[w] /\ (loop = w => loop' = w)
    BY <1>2, OtherSteps
  <2>3. VersionsFresh'
    BY <2>1, <2>2 DEF VersionInv, VersionsFresh
  <2>4. LoopHeld'
    BY <2>1, <2>2 DEF VersionInv, LoopHeld
  <2>5. UniqueVersions' /\ LedgerInVersionOrder'
    BY <2>1 DEF VersionInv, UniqueVersions, LedgerInVersionOrder
  <2> QED
    BY <2>3, <2>4, <2>5 DEF VersionInv
<1> QED
  BY <1>1, <1>2

LEMMA VersionsCorrect == Spec => []VersionInv
<1>1. Init => VersionInv
  BY DEF Init, VersionInv, VersionsFresh, LoopHeld, UniqueVersions, LedgerInVersionOrder,
    Appending, Requests
<1>2. TypeInv /\ VersionInv /\ [Next]_vars => VersionInv'
  BY VersionStep
<1> QED
  BY <1>1, <1>2, TypeCorrect, PTL DEF Spec

\* A version names one write of its customer (versions.py:3), however the writes
\* race between the clock and the ledger.
THEOREM VersionsUnique == Spec => []UniqueVersions
BY VersionsCorrect, PTL DEF VersionInv

\* Without Redis nothing runs between bump and append, so that a customer's
\* ledger is in version order (manager.py:246-248).
THEOREM VersionOrder == Spec => []LedgerInVersionOrder
BY VersionsCorrect, PTL DEF VersionInv
=============================================================================
