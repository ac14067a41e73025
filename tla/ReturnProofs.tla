---------------------------- MODULE ReturnProofs ----------------------------
(***************************************************************************)
(* What a call of the memory service has done by the time it returns: what a *)
(* forget removed stays removed (ForgottenGone), what a write stored is there *)
(* until a forget takes it (DurableOnReturn), and how far each write of the *)
(* ledger has come (LifeInv).                                              *)
(*                                                                         *)
(* And what searches, conflict detection, the cache and reads show of the  *)
(* writes that returned before them (SearchAfterWrite,                     *)
(* SerialConflictsResolved, ForgottenNotCached, ReadAfterWrite).  A listing *)
(* is cut at a limit; these theorems are about customers with no more than *)
(* the limit.                                                              *)
(***************************************************************************)
EXTENDS MemoryManagerProofs, FiniteSetTheorems

-----------------------------------------------------------------------------
(* Forgetting.                                                             *)

\* A row and a point carry the customer of the write that made them.
OwnRows ==
  \A m \in MemoryIds :
    /\ memories[m] # Nil => pc[m[1]] # "idle" /\ memories[m].customer = user[m[1]]
    /\ points[m] # Nil => pc[m[1]] # "idle" /\ points[m] = user[m[1]]

\* What had returned when a request began stays returned.
BeforeReturned == \A r \in Requests : \A q \in before[r] : q \in Requests /\ pc[q] \in Returned

\* The writes whose memories forget f has to remove.
Prior(f) == {w \in Writers : w \in before[f] /\ user[w] = user[f]}

\* The rows go first, the points next.
GoneInOrder ==
  \A f \in Forgetters : \A w \in Prior(f), i \in 1..MaxFacts :
    /\ pc[f] \in {"delete_points", "done"} => memories[<<w, i>>] = Nil
    /\ pc[f] = "done" => points[<<w, i>>] = Nil

ForgetInv == OwnRows /\ BeforeReturned /\ GoneInOrder

LEMMA MemoryIdsWriters == \A m \in MemoryIds : m[1] \in Writers /\ m[1] \in Requests
BY DEF MemoryIds, Requests

\* The rows a step of r may leave behind.
LEMMA RowOrigin ==
  ASSUME TypeInv, [Next]_vars, NEW m \in MemoryIds, memories'[m] # Nil
  PROVE  \/ memories[m] # Nil /\ memories'[m].customer = memories[m].customer
         \/ /\ pc[m[1]] \notin {"idle"} \cup Returned
            /\ pc'[m[1]] # "idle" /\ memories'[m].customer = user[m[1]]
<1> TypeOK
  BY DEF TypeInv
<1>1. ASSUME memories'[m] = memories[m]
      PROVE  memories[m] # Nil /\ memories'[m].customer = memories[m].customer
  BY <1>1
<1>2. ASSUME NEW n \in MemoryIds, NEW by \in MemoryIds, memories' = Superseded(n, by)
      PROVE  memories[m] # Nil /\ memories'[m].customer = memories[m].customer
  <2>1. CASE memories[n] = Nil \/ m # n
    BY <1>1, <1>2, <2>1 DEF Superseded, TypeOK
  <2>2. CASE memories[n] # Nil /\ m = n
    <3>1. memories[n] \in Memory
      BY <2>2 DEF TypeOK
    <3>2. memories'[n] = [memories[n] EXCEPT !.active = FALSE, !.superseded_by = by]
      BY <1>2, <2>2 DEF Superseded, TypeOK
    <3> QED
      BY <2>2, <3>1, <3>2 DEF Memory
  <2> QED
    BY <2>1, <2>2
<1>3. ASSUME NEW r \in Requests, Step(r)
      PROVE  \/ memories[m] # Nil /\ memories'[m].customer = memories[m].customer
             \/ /\ pc[m[1]] \notin {"idle"} \cup Returned
                /\ pc'[m[1]] # "idle" /\ memories'[m].customer = user[m[1]]
  <2>1. CASE r \in Writers /\ Supersede(r)
    <3>1. PICK n \in todo[r], i \in pending[r] :
            memories' = memories \/ memories' = Superseded(n, <<r, i>>)
      BY <2>1 DEF Supersede
    <3>2. n \in MemoryIds /\ <<r, i>> \in MemoryIds
      BY <2>1 DEF TypeOK, MemoryIds
    <3> QED
      BY <1>1, <1>2, <3>1, <3>2
  <2>2. CASE r \in Writers /\ InsertMemory(r)
    <3>1. PICK i \in pending[r] :
            memories' = [memories EXCEPT ![<<r, i>>] =
                           [customer |-> user[r], active |-> TRUE, superseded_by |-> Nil]]
      BY <2>2 DEF InsertMemory
    <3>2. CASE m = <<r, i>>
      BY <1>3, <3>1, <3>2, StepFrame DEF TypeOK, StepOf
    <3>3. CASE m # <<r, i>>
      BY <1>1, <3>1, <3>3 DEF TypeOK
    <3> QED
      BY <3>2, <3>3
  <2>3. CASE r \in Forgetters /\ DeleteRows(r)
    BY <1>1, <2>3 DEF DeleteRows
  <2>4. CASE r \in Sweepers /\ Expire(r)
    <3>1. PICK n \in todo[r] : memories' = Superseded(n, n)
      BY <2>4 DEF Expire
    <3>2. n \in MemoryIds
      BY DEF TypeOK
    <3> QED
      BY <1>2, <3>1, <3>2
  <2> QED
    BY <1>1, <1>3, <2>1, <2>2, <2>3, <2>4, StepRows
<1>4. CASE Call
  BY <1>1, <1>4, CallFrame DEF stores
<1> QED
  BY <1>1, <1>3, <1>4, QuietStores DEF Next

\* The points a step may leave behind.
LEMMA PointOrigin ==
  ASSUME TypeInv, [Next]_vars, NEW m \in MemoryIds, points'[m] # Nil
  PROVE  \/ points'[m] = points[m]
         \/ /\ pc[m[1]] \notin {"idle"} \cup Returned
            /\ pc'[m[1]] # "idle" /\ points'[m] = user[m[1]]
<1> TypeOK
  BY DEF TypeInv
<1>1. ASSUME NEW r \in Requests, Step(r)
      PROVE  \/ points'[m] = points[m]
             \/ /\ pc[m[1]] \notin {"idle"} \cup Returned
                /\ pc'[m[1]] # "idle" /\ points'[m] = user[m[1]]
  <2>1. CASE r \in Writers /\ UpsertPoint(r)
    <3>1. PICK i \in pending[r] : points' = [points EXCEPT ![<<r, i>>] = user[r]]
      BY <2>1 DEF UpsertPoint
    <3> QED
      BY <1>1, <3>1, StepFrame DEF TypeOK, StepOf
  <2>2. CASE r \in Forgetters /\ DeletePoints(r)
    BY <2>2 DEF DeletePoints
  <2> QED
    BY <1>1, <2>1, <2>2, StepRows
<1>2. CASE Call
  BY <1>2, CallFrame DEF stores
<1> QED
  BY <1>1, <1>2, QuietStores DEF Next

\* A request that has begun keeps its customer and its history, and one that has
\* returned stays returned.
LEMMA BegunKept ==
  ASSUME TypeInv, [Next]_vars, NEW r \in Requests, pc[r] # "idle"
  PROVE  /\ pc'[r] # "idle" /\ user'[r] = user[r] /\ before'[r] = before[r]
         /\ pc[r] \in Returned => pc'[r] \in Returned
<1> TypeOK
  BY DEF TypeInv
<1>1. ASSUME NEW q \in Requests, Step(q)
      PROVE  /\ pc'[r] # "idle" /\ user'[r] = user[r] /\ before'[r] = before[r]
             /\ pc[r] \in Returned => pc'[r] \in Returned
  BY <1>1, StepFrame DEF StepOf
<1>2. CASE Call
  BY <1>2, CallFrame
<1>3. CASE Environment \/ Quiet \/ UNCHANGED vars
  BY <1>3 DEF Environment, Deliver, EvictHot, Quiet, vars, locals
<1> QED
  BY <1>1, <1>2, <1>3 DEF Next

LEMMA OwnRowsStep ==
  ASSUME TypeInv, OwnRows, [Next]_vars
  PROVE  OwnRows'
<1> SUFFICES ASSUME NEW m \in MemoryIds
             PROVE  /\ memories'[m] # Nil =>
                         pc'[m[1]] # "idle" /\ memories'[m].customer = user'[m[1]]
                    /\ points'[m] # Nil => pc'[m[1]] # "idle" /\ points'[m] = user'[m[1]]
  BY DEF OwnRows
<1>1. pc[m[1]] # "idle" => pc'[m[1]] # "idle" /\ user'[m[1]] = user[m[1]]
  BY MemoryIdsWriters, BegunKept
<1>2. memories'[m] # Nil => pc'[m[1]] # "idle" /\ memories'[m].customer = user'[m[1]]
  BY <1>1, RowOrigin DEF OwnRows
<1>3. points'[m] # Nil => pc'[m[1]] # "idle" /\ points'[m] = user'[m[1]]
  BY <1>1, PointOrigin DEF OwnRows
<1> QED
  BY <1>2, <1>3

LEMMA BeforeReturnedStep ==
  ASSUME TypeInv, BeforeReturned, [Next]_vars
  PROVE  BeforeReturned'
<1> SUFFICES ASSUME NEW r \in Requests, NEW q \in before'[r]
             PROVE  q \in Requests /\ pc'[q] \in Returned
  BY DEF BeforeReturned
<1>1. \A p \in Requests : pc[p] \in Returned => pc'[p] \in Returned
  BY BegunKept DEF Returned
<1>2. before'[r] = before[r] \/ before'[r] = {p \in Writers \cup Forgetters : pc[p] \in Returned}
  <2>1. CASE Call
    BY <2>1, CallFrame DEF TypeInv
  <2>2. ASSUME NEW p \in Requests, Step(p) PROVE before'[r] = before[r]
    BY <2>2, StepFrame DEF StepOf, TypeInv
  <2> QED
    BY <2>1, <2>2, QuietStores DEF Next
<1> QED
  BY <1>1, <1>2 DEF BeforeReturned, Requests

\* How a forget comes to each of its last calls.
LEMMA ForgetFrom ==
  ASSUME TypeInv, NEW f \in Forgetters, Step(f), pc'[f] \in {"delete_points", "done"}
  PROVE  \/ /\ pc'[f] = "delete_points"
            /\ \A m \in MemoryIds :
                 memories[m] # Nil /\ memories[m].customer = user[f] => memories'[m] = Nil
         \/ /\ pc[f] = "delete_points" /\ pc'[f] = "done" /\ memories' = memories
            /\ \A m \in MemoryIds : points[m] = user[f] => points'[m] = Nil
<1> f \in Requests /\ TypeOK
  BY DEF Requests, TypeInv
<1> USE DEF Goto, Fail, At, TypeOK
<1>1. CASE ForgetHot(f)
  BY <1>1 DEF ForgetHot
<1>2. CASE DeleteRows(f)
  BY <1>2 DEF DeleteRows
<1>3. CASE DeletePoints(f)
  BY <1>3 DEF DeletePoints
<1>4. CASE Raise(f)
  BY <1>4 DEF Raise
<1> QED
  BY <1>1, <1>2, <1>3, <1>4, ClassOfStep DEF ForgetStep

LEMMA GoneInOrderStep ==
  ASSUME TypeInv, ForgetInv, [Next]_vars
  PROVE  GoneInOrder'
<1> SUFFICES ASSUME NEW f \in Forgetters, NEW w \in Writers, NEW i \in 1..MaxFacts,
                    w \in before'[f], user'[w] = user'[f], pc'[f] \in {"delete_points", "done"}
             PROVE  /\ memories'[<<w, i>>] = Nil
                    /\ pc'[f] = "done" => points'[<<w, i>>] = Nil
  BY DEF GoneInOrder, Prior
<1> DEFINE m == <<w, i>>
<1> /\ f \in Requests /\ w \in Requests /\ f \notin Writers
    /\ m \in MemoryIds /\ m[1] = w /\ TypeOK
  BY RequestsAssumption DEF Requests, MemoryIds, TypeInv
<1> HIDE DEF m
<1>1. pc[f] # "idle"
  <2>1. CASE Call
    BY <2>1, CallFrame DEF FirstCalls
  <2>2. ASSUME NEW r \in Requests, Step(r) PROVE pc[f] # "idle"
    BY <2>2, StepFrame DEF StepOf
  <2>3. CASE Environment \/ Quiet \/ UNCHANGED vars
    BY <2>3, QuietStores
  <2> QED
    BY <2>1, <2>2, <2>3 DEF Next
<1>2. before'[f] = before[f] /\ user'[f] = user[f]
  BY <1>1, BegunKept
<1>3. pc[w] \in Returned /\ user'[w] = user[w]
  BY <1>2, BegunKept DEF ForgetInv, BeforeReturned, Returned
<1>4. /\ memories'[m] # Nil => memories[m] # Nil
      /\ points'[m] # Nil => points[m] # Nil
  BY <1>3, RowOrigin, PointOrigin
<1>5. /\ memories[m] # Nil => memories[m].customer = user[f]
      /\ points[m] # Nil => points[m] = user[f]
  BY <1>2, <1>3 DEF ForgetInv, OwnRows
<1>6. w \in Prior(f)
  BY <1>2, <1>3 DEF Prior
<1>7. /\ pc[f] \in {"delete_points", "done"} => memories[m] = Nil
      /\ pc[f] = "done" => points[m] = Nil
  BY <1>6 DEF ForgetInv, GoneInOrder, m
<1>8. CASE pc'[f] = pc[f]
  BY <1>4, <1>7, <1>8 DEF m
<1>9. CASE pc'[f] # pc[f]
  <2>1. Step(f)
    <3>1. ASSUME NEW r \in Requests \ {f}, Step(r) PROVE FALSE
      BY <1>9, <3>1, StepFrame DEF StepOf
    <3>2. ~Call
      BY <1>1, <1>9, CallFrame
    <3> QED
      BY <1>9, <3>1, <3>2, QuietStores DEF Next
  <2> QED
    BY <1>4, <1>5, <1>7, <2>1, ForgetFrom DEF m
<1> QED
  BY <1>8, <1>9

LEMMA ForgetCorrect == Spec => []ForgetInv
<1>1. Init => ForgetInv
  BY DEF Init, ForgetInv, OwnRows, BeforeReturned, GoneInOrder, Requests
<1>2. TypeInv /\ ForgetInv /\ [Next]_vars => ForgetInv'
  BY OwnRowsStep, BeforeReturnedStep, GoneInOrderStep DEF ForgetInv
<1> QED
  BY <1>1, <1>2, TypeCorrect, PTL DEF Spec

\* When user_forget returns, no row and no point of a write that had ended before
\* it began is left, and none comes back (gdpr.py:3), whatever the backends.
THEOREM ForgetPurges == Spec => []ForgottenGone
<1>1. ForgetInv => ForgottenGone
  BY DEF ForgetInv, GoneInOrder, Prior, ForgottenGone
<1> QED
  BY <1>1, ForgetCorrect, PTL

-----------------------------------------------------------------------------
(* The steps of one request and the variables of another.                  *)

\* A step of a request leaves the variables of the others alone.
LEMMA OwnLocals ==
  ASSUME TypeOK, NEW q \in Requests, Step(q), NEW r \in Requests \ {q}
  PROVE  /\ listing'[r] = listing[r] /\ todo'[r] = todo[r]
         /\ r \in Writers => batch'[r] = batch[r] /\ pending'[r] = pending[r]
<1> USE DEF TypeOK, locals
<1>1. CASE q \in Writers /\ WriteStep(q)
  <2>1. CASE GetCustomer(q) \/ UpsertCustomer(q) \/ CurrentVersion(q) \/ Embed(q) \/ UpsertPoint(q)
             \/ InvalidateHot(q) \/ Publish(q)
    BY <2>1 DEF GetCustomer, UpsertCustomer, CurrentVersion, Embed, UpsertPoint, InvalidateHot, Publish
  <2>2. CASE Extract(q) \/ ListExisting(q) \/ BumpVersion(q)
    BY <1>1, <2>2 DEF Extract, ListExisting, BumpVersion
  <2>3. CASE AppendLedger(q) \/ InsertMemory(q)
    BY <1>1, <2>3 DEF AppendLedger, InsertMemory, StoreNext
  <2>4. CASE Supersede(q)
    BY <1>1, <2>4 DEF Supersede
  <2> QED
    BY <1>1, <2>1, <2>2, <2>3, <2>4 DEF WriteStep
<1>2. CASE ReadStep(q)
  BY <1>2 DEF ReadStep, AwaitVersion, Poll, TimeOut, GetWorkingMemory, ListMemories,
    SetWorkingMemory
<1>3. CASE SearchStep(q)
  BY <1>3 DEF SearchStep, EmbedQuery, SearchPoints, GetMemoriesByIds
<1>4. CASE ForgetStep(q)
  BY <1>4 DEF ForgetStep, ForgetHot, DeleteRows, DeletePoints
<1>5. CASE SweepStep(q)
  BY <1>5 DEF SweepStep, ListExpired, Expire
<1>6. CASE Raise(q)
  BY <1>6 DEF Raise
<1> QED
  BY <1>1, <1>2, <1>3, <1>4, <1>5, <1>6 DEF Step

\* Between its own steps a request stays where it is, until it is called.
LEMMA Alone ==
  ASSUME TypeInv, [Next]_vars, NEW r \in Requests
  PROVE  \/ Step(r)
         \/ /\ listing'[r] = listing[r] /\ todo'[r] = todo[r]
            /\ r \in Writers => batch'[r] = batch[r] /\ pending'[r] = pending[r]
            /\ pc'[r] = pc[r] \/ (pc[r] = "idle" /\ pc'[r] \in FirstCalls)
<1> TypeOK
  BY DEF TypeInv
<1>1. ASSUME NEW q \in Requests \ {r}, Step(q)
      PROVE  /\ listing'[r] = listing[r] /\ todo'[r] = todo[r] /\ pc'[r] = pc[r]
             /\ r \in Writers => batch'[r] = batch[r] /\ pending'[r] = pending[r]
  BY <1>1, OwnLocals, StepFrame DEF StepOf
<1>2. CASE Call
  BY <1>2, CallFrame
<1>3. CASE Environment \/ Quiet \/ UNCHANGED vars
  BY <1>3 DEF Environment, Deliver, EvictHot, Quiet, vars, locals
<1> QED
  BY <1>1, <1>2, <1>3 DEF Next

-----------------------------------------------------------------------------
(* What a write has stored stays, until a forget takes it.                 *)

\* supersede_memory retires one row, and touches no other.
LEMMA SupersededRows ==
  ASSUME TypeOK, NEW n \in MemoryIds, NEW by \in MemoryIds, NEW m \in MemoryIds,
         memories' = Superseded(n, by)
  PROVE  /\ memories'[m] = Nil <=> memories[m] = Nil
         /\ memories[m] # Nil => /\ memories'[m].customer = memories[m].customer
                                 /\ memories'[m].active => memories[m].active /\ m # n
         /\ m # n => memories'[m] = memories[m]
<1> DEFINE new == [memories[n] EXCEPT !.active = FALSE, !.superseded_by = by]
<1>1. ASSUME memories[n] # Nil, m = n
      PROVE  memories'[m] # Nil /\ memories'[m].customer = memories[m].customer /\ ~memories'[m].active
  <2>1. memories[n] \in Memory
    BY <1>1 DEF TypeOK
  <2>2. new \in Memory /\ new.customer = memories[n].customer /\ ~new.active
    BY <2>1 DEF Memory
  <2>3. memories'[n] = new
    BY <1>1 DEF Superseded, TypeOK
  <2> QED
    BY <1>1, <2>2, <2>3, NilAssumption
<1>2. CASE m # n \/ memories[n] = Nil
  BY <1>2 DEF Superseded, TypeOK
<1> QED
  BY <1>1, <1>2

LEMMA OverlapStays ==
  ASSUME TypeInv, [Next]_vars, NEW w \in Writers, pc[w] # "idle", ForgetOverlaps(w)
  PROVE  ForgetOverlaps(w)'
<1> PICK f \in Forgetters : pc[f] # "idle" /\ user[f] = user[w] /\ f \notin before[w]
  BY DEF ForgetOverlaps
<1>1. f \in Requests /\ w \in Requests
  BY DEF Requests
<1>2. pc'[f] # "idle" /\ user'[f] = user[f] /\ user'[w] = user[w] /\ before'[w] = before[w]
  BY <1>1, BegunKept
<1> QED
  BY <1>2 DEF ForgetOverlaps

\* A forget that runs beside a write of its customer overlaps it.
LEMMA RunsBeside ==
  ASSUME TypeInv, BeforeReturned, NEW w \in Writers, NEW f \in Forgetters,
         Step(f), user[f] = user[w]
  PROVE  ForgetOverlaps(w)
<1>1. f \in Requests /\ w \in Requests
  BY DEF Requests
<1>2. pc[f] # "idle" /\ pc[f] \notin Returned
  BY <1>1, StepFrame DEF StepOf, TypeInv
<1> QED
  BY <1>1, <1>2 DEF ForgetOverlaps, BeforeReturned

LEMMA RowStays ==
  ASSUME TypeInv, ForgetInv, [Next]_vars, NEW w \in Writers, NEW i \in 1 .. MaxFacts,
         ~ForgetOverlaps(w), memories[<<w, i>>] # Nil
  PROVE  memories'[<<w, i>>] # Nil
<1> DEFINE m == <<w, i>>
<1> m \in MemoryIds /\ m[1] = w /\ TypeOK
  BY DEF MemoryIds, TypeInv
<1> HIDE DEF m
<1> memories[m] # Nil /\ memories[m].customer = user[w]
  BY DEF m, ForgetInv, OwnRows
<1>1. ASSUME NEW r \in Requests, Step(r)
      PROVE  memories'[m] # Nil
  <2>1. CASE r \in Writers /\ Supersede(r)
    <3>1. PICK n \in todo[r], j \in pending[r] :
            memories' = memories \/ memories' = Superseded(n, <<r, j>>)
      BY <2>1 DEF Supersede
    <3>2. n \in MemoryIds /\ <<r, j>> \in MemoryIds
      BY <2>1 DEF TypeOK, MemoryIds
    <3> QED
      BY <3>1, <3>2, SupersededRows
  <2>2. CASE r \in Writers /\ InsertMemory(r)
    <3>1. PICK j \in pending[r] :
            memories' = [memories EXCEPT ![<<r, j>>] =
                           [customer |-> user[r], active |-> TRUE, superseded_by |-> Nil]]
      BY <2>2 DEF InsertMemory
    <3>2. user[r] \in Customers
      BY <2>2, RequestsAssumption DEF InsertMemory, At, TypeInv, Begun, Requests
    <3>3. [customer |-> user[r], active |-> TRUE, superseded_by |-> Nil] \in Memory
      BY <3>2 DEF Memory
    <3> QED
      BY <3>1, <3>3, NilAssumption DEF TypeOK
  <2>3. CASE r \in Forgetters /\ DeleteRows(r)
    BY <1>1, <2>3, RunsBeside DEF DeleteRows, ForgetInv
  <2>4. CASE r \in Sweepers /\ Expire(r)
    <3>1. PICK n \in todo[r] : memories' = Superseded(n, n)
      BY <2>4 DEF Expire
    <3>2. n \in MemoryIds
      BY DEF TypeOK
    <3> QED
      BY <3>1, <3>2, SupersededRows
  <2> QED
    BY <1>1, <2>1, <2>2, <2>3, <2>4, StepRows
<1>2. CASE Call
  BY <1>2, CallFrame DEF stores
<1>3. CASE Environment \/ Quiet \/ UNCHANGED vars
  BY <1>3, QuietStores
<1> QED
  BY <1>1, <1>2, <1>3 DEF Next, m

LEMMA PointStays ==
  ASSUME TypeInv, ForgetInv, [Next]_vars, NEW w \in Writers, NEW i \in 1 .. MaxFacts,
         ~ForgetOverlaps(w), points[<<w, i>>] # Nil
  PROVE  points'[<<w, i>>] = user[w]
<1> DEFINE m == <<w, i>>
<1> m \in MemoryIds /\ m[1] = w /\ TypeOK
  BY DEF MemoryIds, TypeInv
<1> HIDE DEF m
<1> points[m] = user[w]
  BY DEF m, ForgetInv, OwnRows
<1>1. ASSUME NEW r \in Requests, Step(r)
      PROVE  points'[m] = user[w]
  <2>1. CASE r \in Writers /\ UpsertPoint(r)
    BY <2>1 DEF UpsertPoint, TypeOK, m
  <2>2. CASE r \in Forgetters /\ DeletePoints(r)
    BY <1>1, <2>2, RunsBeside DEF DeletePoints, ForgetInv
  <2> QED
    BY <1>1, <2>1, <2>2, StepRows
<1>2. CASE Call
  BY <1>2, CallFrame DEF stores, m
<1>3. CASE Environment \/ Quiet \/ UNCHANGED vars
  BY <1>3, QuietStores DEF m
<1> QED
  BY <1>1, <1>2, <1>3 DEF Next, m

\* Customers appear by UpsertCustomer and go by DeleteRows.
LEMMA CustomerStays ==
  ASSUME TypeInv, BeforeReturned, [Next]_vars, NEW w \in Writers,
         ~ForgetOverlaps(w), user[w] \in customers
  PROVE  user[w] \in customers'
<1>1. ASSUME NEW r \in Requests, Step(r)
      PROVE  user[w] \in customers'
  <2> USE DEF stores, locals
  <2>1. CASE r \in Writers /\ WriteStep(r)
    BY <2>1 DEF WriteStep, GetCustomer, UpsertCustomer, Extract, ListExisting, CurrentVersion,
      BumpVersion, AppendLedger, Supersede, Embed, UpsertPoint, InsertMemory, InvalidateHot, Publish
  <2>2. CASE r \in Readers /\ ReadStep(r)
    BY <2>2 DEF ReadStep, AwaitVersion, Poll, TimeOut, GetWorkingMemory, ListMemories,
      SetWorkingMemory
  <2>3. CASE r \in Searchers /\ SearchStep(r)
    BY <2>3 DEF SearchStep, EmbedQuery, SearchPoints, GetMemoriesByIds
  <2>4. CASE r \in Forgetters /\ ForgetStep(r)
    BY <1>1, <2>4, RunsBeside DEF ForgetStep, ForgetHot, DeleteRows, DeletePoints
  <2>5. CASE r \in Sweepers /\ SweepStep(r)
    BY <2>5 DEF SweepStep, ListExpired, Expire
  <2>6. CASE Raise(r)
    BY <2>6 DEF Raise
  <2> QED
    BY <1>1, <2>1, <2>2, <2>3, <2>4, <2>5, <2>6 DEF Step
<1>2. CASE Call
  BY <1>2, CallFrame DEF stores, TypeInv
<1>3. CASE Environment \/ Quiet \/ UNCHANGED vars
  BY <1>3 DEF Environment, Deliver, EvictHot, Quiet, vars
<1> QED
  BY <1>1, <1>2, <1>3 DEF Next

\* The calls of a write once it knows that its customer has a row.
Received == {"extract", "list_existing", "current", "bump", "append"} \cup Storing
              \cup {"invalidate", "publish", "done"}

\* The calls of a write once it has planned what to store.
Planning == {"bump", "append"} \cup Storing \cup {"invalidate", "publish", "done"}

\* What write w planned is stored or still pending, the point before the row, and
\* w goes on only once nothing is pending.
StoredSoFar(w) ==
  /\ pc[w] \in Received => user[w] \in customers
  /\ pc[w] \in Planning => \A m \in Planned(w) :
       m[2] \in pending[w] \/ (memories[m] # Nil /\ points[m] = user[w])
  /\ pc[w] = "insert_memory" =>
       \A i \in pending[w] : Least(pending[w], i) => points[<<w, i>>] = user[w]
  /\ pc[w] = "current" => Planned(w) = {}
  /\ pc[w] \in {"invalidate", "publish"} => pending[w] = {}
  /\ pc[w] = "done" => Planned(w) = {} \/ pending[w] = {}

Durable == \A w \in Writers : ~ForgetOverlaps(w) => StoredSoFar(w)

LEMMA PlannedIds ==
  ASSUME TypeInv, NEW w \in Writers, NEW m \in Planned(w)
  PROVE  /\ m = <<w, m[2]>> /\ m[2] \in 1 .. MaxFacts /\ m \in MemoryIds
         /\ m[2] \in 1 .. Len(batch[w]) /\ batch[w][m[2]] \notin Refused /\ Text(m) \in Facts
<1>1. /\ batch[w] \in Seq(Facts)
      /\ Len(batch[w]) \in Nat /\ Len(batch[w]) <= MaxFacts
  BY BatchType DEF TypeInv
<1>2. PICK i \in 1 .. Len(batch[w]) : batch[w][i] \notin Refused /\ m = <<w, i>>
  BY DEF Planned
<1>3. i \in 1 .. MaxFacts
  BY <1>1, FactsAssumption
<1> QED
  BY <1>1, <1>2, <1>3 DEF MemoryIds, Text

LEMMA DurableStep ==
  ASSUME TypeInv, ForgetInv, Durable, [Next]_vars
  PROVE  Durable'
<1> SUFFICES ASSUME NEW w \in Writers, ~ForgetOverlaps(w)'
             PROVE  StoredSoFar(w)'
  BY DEF Durable
<1> w \in Requests /\ TypeOK
  BY DEF Requests, TypeInv
<1> USE DEF Received, Planning, Storing
<1>1. ASSUME pc[w] # "idle"
      PROVE  /\ ~ForgetOverlaps(w) /\ StoredSoFar(w)
             /\ user'[w] = user[w]
             /\ user[w] \in customers => user[w] \in customers'
             /\ \A i \in 1 .. MaxFacts :
                  /\ memories[<<w, i>>] # Nil => memories'[<<w, i>>] # Nil
                  /\ points[<<w, i>>] # Nil => points'[<<w, i>>] = user[w]
             /\ user[w] \in Customers /\ user[w] # Nil
  <2>1. ~ForgetOverlaps(w)
    BY <1>1, OverlapStays
  <2>2. user[w] \in Customers /\ user[w] # Nil
    BY <1>1, RequestsAssumption DEF TypeInv, Begun
  <2> QED
    BY <1>1, <2>1, <2>2, RowStays, PointStays, CustomerStays, BegunKept DEF Durable, ForgetInv
<1>2. ASSUME batch'[w] = batch[w], pc[w] # "idle", pending'[w] = pending[w], pc'[w] = pc[w]
      PROVE  StoredSoFar(w)'
  <2>1. Planned(w)' = Planned(w) /\ \A m \in Planned(w) : m = <<w, m[2]>> /\ m[2] \in 1 .. MaxFacts
    BY <1>2, PlannedIds DEF Planned
  <2>2. \A i \in pending[w] : i \in 1 .. MaxFacts
    BY DEF TypeOK
  <2> QED
    BY <1>1, <1>2, <2>1, <2>2 DEF StoredSoFar, Least
<1>3. CASE ~Step(w)
  <2>1. CASE pc'[w] \in {"idle"} \cup FirstCalls
    BY <2>1 DEF StoredSoFar, FirstCalls
  <2> QED
    BY <1>2, <1>3, <2>1, Alone
<1>4. CASE Step(w)
  <2>0. pc[w] # "idle"
    BY <1>4, StepFrame DEF StepOf
  <2>1. /\ StoredSoFar(w) /\ user'[w] = user[w] /\ user[w] # Nil
        /\ user[w] \in customers => user[w] \in customers'
        /\ \A i \in 1 .. MaxFacts :
             /\ memories[<<w, i>>] # Nil => memories'[<<w, i>>] # Nil
             /\ points[<<w, i>>] # Nil => points'[<<w, i>>] = user[w]
    BY <1>1, <2>0
  <2>2. ASSUME pc'[w] = "failed" PROVE StoredSoFar(w)'
    BY <2>2 DEF StoredSoFar
  <2>3. \A m \in Planned(w) : m = <<w, m[2]>> /\ m[2] \in 1 .. MaxFacts
    BY PlannedIds
  <2>4. pending[w] \subseteq 1 .. MaxFacts /\ MaxFacts \in Nat
    BY FactsAssumption DEF TypeOK
  <2>5. batch'[w] = batch[w] => Planned(w)' = Planned(w)
    BY DEF Planned
  <2>16. ASSUME batch' = batch, pending'[w] = pending[w], pc[w] \in Planning
        PROVE  \A m \in Planned(w)' :
                 m[2] \in pending'[w] \/ (memories'[m] # Nil /\ points'[m] = user'[w])
    <3>1. SUFFICES ASSUME NEW m \in Planned(w), m[2] \notin pending[w]
                   PROVE  memories'[m] # Nil /\ points'[m] = user'[w]
      BY <2>5, <2>16
    <3>2. memories[m] # Nil /\ points[m] = user[w]
      BY <2>1, <2>16, <3>1 DEF StoredSoFar
    <3>3. m = <<w, m[2]>> /\ m[2] \in 1 .. MaxFacts
      BY <2>3
    <3> HIDE DEF Planning
    <3>4. /\ memories[<<w, m[2]>>] # Nil => memories'[<<w, m[2]>>] # Nil
          /\ points[<<w, m[2]>>] # Nil => points'[<<w, m[2]>>] = user[w]
      BY <2>1, <3>3
    <3> QED
      BY <2>1, <3>2, <3>3, <3>4
  <2> USE DEF TypeOK, At, Goto, Fail
  <2>6. CASE GetCustomer(w) \/ UpsertCustomer(w)
    <3>1. pc'[w] \in {"failed", "upsert_customer"} \/ (pc'[w] = "extract" /\ user[w] \in customers')
      BY <2>6 DEF GetCustomer, UpsertCustomer, stores
    <3> QED
      BY <2>1, <3>1 DEF StoredSoFar
  <2>7. CASE Extract(w)
    <3>1. pc[w] = "extract" /\ (pc'[w] \in {"failed", "list_existing"} \/ (pc'[w] = "done" /\ batch'[w] = <<>>))
      BY <2>7 DEF Extract
    <3>2. batch'[w] = <<>> => Planned(w)' = {}
      BY DEF Planned
    <3> QED
      BY <2>1, <3>1, <3>2 DEF StoredSoFar
  <2>8. CASE ListExisting(w)
    <3>1. /\ pc[w] = "list_existing" /\ batch' = batch
          /\ pending'[w] = {i \in 1 .. Len(batch[w]) : batch[w][i] \notin Refused}
          /\ \/ pc'[w] \in {"failed", "bump"}
             \/ pc'[w] = "current" /\ pending'[w] = {}
      BY <2>8 DEF ListExisting
    <3>2. Planned(w)' = {<<w, i>> : i \in pending'[w]}
      BY <3>1 DEF Planned
    <3>3. \A m \in Planned(w)' : m[2] \in pending'[w]
      BY <3>2
    <3> QED
      BY <2>1, <3>1, <3>2, <3>3 DEF StoredSoFar
  <2>9. CASE CurrentVersion(w) \/ BumpVersion(w) \/ Embed(w) \/ InvalidateHot(w) \/ Publish(w)
    <3>1. /\ pending' = pending /\ batch' = batch
          /\ \/ pc'[w] = "failed"
             \/ pc[w] = "current" /\ pc'[w] = "done"
             \/ pc[w] = "bump" /\ pc'[w] = "append"
             \/ pc[w] = "embed" /\ pc'[w] = "upsert_point"
             \/ pc[w] = "invalidate" /\ pc'[w] = "publish"
             \/ pc[w] = "publish" /\ pc'[w] = "done"
      BY <2>9 DEF CurrentVersion, BumpVersion, Embed, InvalidateHot, Publish, locals
    <3> HIDE DEF TypeOK, At, Goto, Fail
    <3>2. CASE pc[w] = "current" /\ pc'[w] = "done"
      BY <2>1, <2>5, <3>1, <3>2 DEF StoredSoFar
    <3>3. CASE pc[w] \in Planning
      BY <2>1, <2>5, <2>16, <3>1, <3>3 DEF StoredSoFar
    <3> QED
      BY <2>2, <3>1, <3>2, <3>3
  <2>10. CASE AppendLedger(w)
    <3>1. /\ pending'[w] = pending[w] /\ batch' = batch /\ pc[w] = "append"
          /\ \/ pc'[w] \in {"failed", "embed", "supersede"}
             \/ pc'[w] = "invalidate" /\ pending[w] = {}
      BY <2>10 DEF AppendLedger, StoreNext
    <3> HIDE DEF TypeOK, At, Goto, Fail
    <3> QED
      BY <2>1, <2>2, <2>16, <3>1 DEF StoredSoFar
  <2>11. CASE Supersede(w)
    <3>1. /\ pending'[w] = pending[w] /\ batch' = batch /\ pc[w] = "supersede"
          /\ pc'[w] \in {"failed", "embed", "supersede"}
      BY <2>11 DEF Supersede
    <3> HIDE DEF TypeOK, At, Goto, Fail
    <3> QED
      BY <2>1, <2>2, <2>16, <3>1 DEF StoredSoFar
  <2>12. CASE UpsertPoint(w)
    <3>1. PICK i \in pending[w] : Least(pending[w], i) /\ points' = [points EXCEPT ![<<w, i>>] = user[w]]
      BY <2>12 DEF UpsertPoint
    <3>2. /\ pending'[w] = pending[w] /\ batch' = batch /\ pc[w] = "upsert_point"
          /\ pc'[w] \in {"failed", "insert_memory"}
      BY <2>12 DEF UpsertPoint, locals
    <3>3. \A j \in pending[w] : Least(pending[w], j) => j = i
      BY <2>4, <3>1 DEF Least
    <3>4. points'[<<w, i>>] = user[w]
      BY <2>4, <3>1 DEF MemoryIds
    <3>5. \A j \in pending'[w] : Least(pending'[w], j) => points'[<<w, j>>] = user[w]
      BY <3>2, <3>3, <3>4
    <3> QED
      BY <2>1, <2>2, <2>3, <2>5, <3>2, <3>5 DEF StoredSoFar, Least
  <2>13. CASE InsertMemory(w)
    <3>1. PICK i \in pending[w] :
            /\ Least(pending[w], i)
            /\ memories' = [memories EXCEPT ![<<w, i>>] =
                              [customer |-> user[w], active |-> TRUE, superseded_by |-> Nil]]
            /\ StoreNext(w, pending[w] \ {i})
      BY <2>13 DEF InsertMemory
    <3>2. /\ pending'[w] = pending[w] \ {i} /\ batch' = batch /\ points' = points
          /\ pc[w] = "insert_memory"
          /\ \/ pc'[w] \in {"failed", "embed", "supersede"}
             \/ pc'[w] = "invalidate" /\ pending'[w] = {}
      BY <2>13, <3>1 DEF InsertMemory, StoreNext
    <3>3. memories'[<<w, i>>] # Nil /\ points'[<<w, i>>] = user[w]
      <4>1. user[w] \in Customers
        BY <1>1, <2>0
      <4>2. [customer |-> user[w], active |-> TRUE, superseded_by |-> Nil] \in Memory
        BY <4>1 DEF Memory
      <4>3. memories'[<<w, i>>] = [customer |-> user[w], active |-> TRUE, superseded_by |-> Nil]
        BY <2>4, <3>1 DEF MemoryIds
      <4> QED
        BY <2>1, <3>1, <3>2, <4>2, <4>3, NilAssumption DEF StoredSoFar
    <3>4. ASSUME NEW m \in Planned(w), m[2] \notin pending'[w]
          PROVE  memories'[m] # Nil /\ points'[m] = user[w]
      <4>1. m = <<w, m[2]>> /\ m[2] \in 1 .. MaxFacts
        BY <2>3
      <4>2. CASE m[2] = i
        BY <3>3, <4>1, <4>2
      <4>3. CASE m[2] # i
        <5>1. m[2] \notin pending[w]
          BY <3>2, <3>4, <4>3
        <5>2. memories[m] # Nil /\ points[m] = user[w]
          BY <2>1, <3>2, <5>1 DEF StoredSoFar
        <5>3. /\ memories[<<w, m[2]>>] # Nil => memories'[<<w, m[2]>>] # Nil
              /\ points[<<w, m[2]>>] # Nil => points'[<<w, m[2]>>] = user[w]
          BY <2>1, <4>1
        <5> HIDE DEF TypeOK, Planning
        <5> QED
          BY <2>1, <4>1, <5>2, <5>3
      <4> QED
        BY <4>2, <4>3
    <3>5. \A m \in Planned(w)' : m[2] \in pending'[w] \/ (memories'[m] # Nil /\ points'[m] = user'[w])
      BY <2>1, <2>5, <3>2, <3>4
    <3>6. pc'[w] # "insert_memory" /\ pc'[w] # "current" /\ pc'[w] # "done" /\ pc'[w] # "publish"
      BY <3>2
    <3>7. user'[w] \in customers'
      BY <2>1, <3>2 DEF StoredSoFar
    <3>8. pc'[w] \in {"invalidate", "publish"} => pending'[w] = {}
      BY <3>2, <3>6
    <3> HIDE DEF TypeOK, At, Goto, Fail, Received, Planning, Storing, Planned
    <3> QED
      BY <3>5, <3>6, <3>7, <3>8 DEF StoredSoFar
  <2>14. CASE Raise(w)
    BY <2>2, <2>14 DEF Raise
  <2> QED
    BY <1>4, <2>6, <2>7, <2>8, <2>9, <2>10, <2>11, <2>12, <2>13, <2>14, ClassOfStep DEF WriteStep
<1> QED
  BY <1>3, <1>4

\* The invariant, with what it rests on.
LEMMA DurableCorrect == Spec => []Durable
<1>1. Init => Durable
  BY DEF Init, Durable, StoredSoFar, Received, Planning, Storing, Requests
<1>2. TypeInv /\ ForgetInv /\ Durable /\ [Next]_vars => Durable'
  BY DurableStep
<1> QED
  BY <1>1, <1>2, TypeCorrect, ForgetCorrect, PTL DEF Spec

LEMMA DurableReturns == TypeInv /\ Durable => DurableOnReturn
<1> SUFFICES ASSUME TypeInv, NEW w \in Writers, pc[w] = "done", Planned(w) # {}, StoredSoFar(w)
             PROVE  /\ user[w] \in customers
                    /\ \A m \in Planned(w) : memories[m] # Nil /\ points[m] = user[w]
  BY DEF Durable, DurableOnReturn
<1> QED
  BY DEF StoredSoFar, Received, Planning

\* A write that returned and planned something has its customer, every row it
\* planned and the point of each, unless a forget of the customer has begun since
\* (manager.py:245-305).
THEOREM ReturnsDurable == Spec => []DurableOnReturn
BY DurableReturns, DurableCorrect, TypeCorrect, PTL

-----------------------------------------------------------------------------
(* The life cycle of a memory (MemoryLifecycle).                           *)

\* The calls of a write up to its ledger entry.
BeforeAppend == {"idle", "get_customer", "upsert_customer", "extract", "list_existing",
                 "current", "bump", "append"}

\* A write promises nothing before its entry; what it has left to store has no row;
\* it takes a version only with something to store, and promises it under that.
LifeOfWrite(w) ==
  /\ pc[w] \in BeforeAppend => \A i \in 1 .. MaxFacts : ~Promised(<<w, i>>)
  /\ \A i \in pending[w] : memories[<<w, i>>] = Nil
  /\ pc[w] \in {"bump", "append"} => pending[w] # {}
  /\ pc[w] = "append" => versions[user[w]] > 0

LifeInv == \A w \in Writers : LifeOfWrite(w)

\* A promise is made by a ledger entry.
LEMMA PromisedBy ==
  ASSUME TypeInv, [Next]_vars, NEW m, Promised(m)', ~Promised(m)
  PROVE  \E w \in Writers : /\ Step(w) /\ AppendLedger(w)
                            /\ \E i \in pending[w] : m = <<w, i>>
<1>1. ledger' # ledger
  BY DEF Promised
<1>2. PICK w \in Requests : Step(w)
  BY <1>1, CallFrame, QuietStores DEF Next, stores, TypeInv
<1>3. w \in Writers /\ AppendLedger(w)
  BY <1>1, <1>2, OthersKeepLedger, WriteKeepsLedger
<1> DEFINE e == [user |-> user[w], version |-> stamp[w], memory_ids |-> {w} \X pending[w]]
<1>4. ledger \in Seq([user : Customers, version : Nat, memory_ids : SUBSET MemoryIds])
  BY DEF TypeInv, TypeOK
<1>5. ledger' = Append(ledger, e)
  BY <1>3 DEF AppendLedger
<1>6. PICK n \in DOMAIN ledger' : m \in ledger'[n].memory_ids
  BY DEF Promised
<1>7. n = Len(ledger) + 1
  <2>1. n \in DOMAIN ledger => ledger'[n] = ledger[n]
    BY <1>4, <1>5
  <2>2. n \in 1 .. (Len(ledger) + 1) /\ DOMAIN ledger = 1 .. Len(ledger) /\ Len(ledger) \in Nat
    BY <1>4, <1>5, <1>6
  <2> QED
    BY <1>6, <2>1, <2>2 DEF Promised
<1>8. m \in {w} \X pending[w]
  BY <1>4, <1>5, <1>6, <1>7
<1> QED
  BY <1>2, <1>3, <1>8

\* How a write comes to each of its calls up to the entry.
LEMMA AppendFrom ==
  ASSUME TypeInv, NEW w \in Writers, Step(w)
  PROVE  /\ pc'[w] \in BeforeAppend => pc[w] \in BeforeAppend
         /\ pc'[w] = "bump" => pending'[w] # {}
         /\ pc'[w] = "append" => pending'[w] = pending[w] /\ pc[w] = "bump" /\ BumpVersion(w)
         /\ \/ pending'[w] \subseteq pending[w]
            \/ pc[w] = "list_existing" /\ pending'[w] \subseteq 1 .. MaxFacts
<1> w \in Requests /\ TypeOK
  BY DEF Requests, TypeInv
<1> USE DEF BeforeAppend, TypeOK, Goto, Fail, At, stores, locals
<1>1. CASE GetCustomer(w) \/ UpsertCustomer(w) \/ CurrentVersion(w)
  BY <1>1 DEF GetCustomer, UpsertCustomer, CurrentVersion
<1>2. CASE Extract(w)
  BY <1>2 DEF Extract
<1>3. CASE ListExisting(w)
  <2>1. {i \in 1 .. Len(batch[w]) : batch[w][i] \notin Refused} \subseteq 1 .. MaxFacts
    BY BatchType, FactsAssumption
  <2> QED
    BY <1>3, <2>1 DEF ListExisting
<1>4. CASE BumpVersion(w)
  BY <1>4 DEF BumpVersion
<1>5. CASE AppendLedger(w)
  BY <1>5 DEF AppendLedger, StoreNext
<1>6. CASE Supersede(w) \/ Embed(w) \/ UpsertPoint(w)
  BY <1>6 DEF Supersede, Embed, UpsertPoint
<1>7. CASE InsertMemory(w)
  BY <1>7 DEF InsertMemory, StoreNext
<1>8. CASE InvalidateHot(w) \/ Publish(w)
  BY <1>8 DEF InvalidateHot, Publish
<1>9. CASE Raise(w)
  BY <1>9 DEF Raise
<1> QED
  BY <1>1, <1>2, <1>3, <1>4, <1>5, <1>6, <1>7, <1>8, <1>9, ClassOfStep DEF WriteStep

\* The clock never goes back.
LEMMA ClockGrows ==
  ASSUME TypeInv, [Next]_vars, NEW c \in Customers
  PROVE  versions'[c] >= versions[c]
<1>1. versions \in [Customers -> Nat]
  BY DEF TypeInv, TypeOK
<1>2. ASSUME NEW r \in Requests, Step(r) PROVE versions'[c] >= versions[c]
  <2>1. versions' = versions \/ (r \in Writers /\ BumpVersion(r))
    BY <1>2, OthersKeepLedger, WriteKeepsLedger
  <2> QED
    BY <1>1, <2>1 DEF BumpVersion
<1>3. Call => versions' = versions
  BY CallFrame DEF stores, TypeInv
<1> QED
  BY <1>1, <1>2, <1>3, QuietStores DEF Next

LEMMA LifeStep ==
  ASSUME TypeInv, PendingPromised, LedgerFirst, LifeInv, [Next]_vars
  PROVE  LifeInv'
<1> SUFFICES ASSUME NEW w \in Writers PROVE LifeOfWrite(w)'
  BY DEF LifeInv
<1> w \in Requests \ Sweepers /\ TypeOK /\ LifeOfWrite(w)
  BY RequestsAssumption DEF Requests, TypeInv, LifeInv
<1>0. \/ Step(w)
      \/ pending'[w] = pending[w] /\ (pc'[w] = pc[w] \/ (pc[w] = "idle" /\ pc'[w] \in FirstCalls))
  BY Alone
<1>1. ASSUME pc'[w] \in BeforeAppend, NEW i \in 1 .. MaxFacts
      PROVE  ~Promised(<<w, i>>)'
  <2>1. pc[w] \in BeforeAppend
    BY <1>0, <1>1, AppendFrom DEF BeforeAppend
  <2>2. ~Promised(<<w, i>>)
    BY <2>1 DEF LifeOfWrite
  <2>3. SUFFICES ASSUME AppendLedger(w), Step(w) PROVE FALSE
    BY <2>2, PromisedBy
  <2> QED
    BY <1>1, <2>3 DEF BeforeAppend, AppendLedger, StoreNext, Goto, TypeOK
<1>2. ASSUME NEW i \in pending'[w]
      PROVE  memories'[<<w, i>>] = Nil
  <2>1. i \in 1 .. MaxFacts
    BY <1>0, AppendFrom DEF TypeOK
  <2>2. memories[<<w, i>>] = Nil
    <3>1. CASE i \in pending[w]
      BY <3>1 DEF LifeOfWrite
    <3>2. CASE pc[w] = "list_existing"
      BY <2>1, <3>2 DEF LifeOfWrite, BeforeAppend, LedgerFirst, MemoryIds
    <3> QED
      BY <1>0, <1>2, <3>1, <3>2, AppendFrom
  <2>3. SUFFICES ASSUME InsertMemory(w), i \in pending[w], memories'[<<w, i>>] # Nil PROVE FALSE
    BY <2>1, <2>2, RowBorn
  <2>4. PICK j \in pending[w] :
          /\ memories' = [memories EXCEPT ![<<w, j>>] =
                            [customer |-> user[w], active |-> TRUE, superseded_by |-> Nil]]
          /\ pending'[w] = pending[w] \ {j}
    BY <2>3 DEF InsertMemory, StoreNext, TypeOK
  <2> QED
    BY <1>2, <2>1, <2>2, <2>3, <2>4 DEF TypeOK
<1>3. ASSUME pc'[w] \in {"bump", "append"}
      PROVE  pending'[w] # {}
  BY <1>0, <1>3, AppendFrom DEF LifeOfWrite, FirstCalls
<1>4. ASSUME pc'[w] = "append"
      PROVE  versions'[user'[w]] > 0
  <2>1. pc[w] # "idle"
    BY <1>0, <1>4, AppendFrom DEF FirstCalls
  <2>2. user'[w] = user[w] /\ user[w] \in Customers
    BY <2>1, BegunKept DEF TypeInv, Begun
  <2>3. CASE Step(w)
    BY <1>4, <2>2, <2>3, AppendFrom DEF BumpVersion, TypeOK
  <2>4. CASE pc[w] = "append"
    BY <2>2, <2>4, ClockGrows, StepType DEF LifeOfWrite, TypeOK
  <2> QED
    BY <1>0, <1>4, <2>3, <2>4 DEF FirstCalls
<1> QED
  BY <1>1, <1>2, <1>3, <1>4 DEF LifeOfWrite

LEMMA LifeCorrect == Spec => []LifeInv
<1>1. Init => PendingPromised /\ LedgerFirst /\ LifeInv
  BY DEF Init, PendingPromised, Storing, LedgerFirst, LifeInv, LifeOfWrite, Promised, Requests
<1>2. TypeInv /\ PendingPromised /\ LedgerFirst /\ LifeInv /\ [Next]_vars
        => (PendingPromised /\ LedgerFirst /\ LifeInv)'
  BY PendingPromisedStep, LedgerFirstStep, LifeStep
<1> QED
  BY <1>1, <1>2, TypeCorrect, PTL DEF Spec

-----------------------------------------------------------------------------
(* Searches.                                                               *)

\* A request that has returned changes no more.
LEMMA Settled ==
  ASSUME TypeInv, [Next]_vars, NEW r \in Requests, pc[r] \in Returned
  PROVE  /\ pc'[r] = pc[r] /\ user'[r] = user[r] /\ before'[r] = before[r]
         /\ listing'[r] = listing[r]
         /\ r \in Writers => batch'[r] = batch[r] /\ pending'[r] = pending[r]
<1>1. ~Step(r)
  BY StepFrame DEF StepOf, TypeInv
<1> QED
  BY <1>1, Alone, BegunKept DEF Returned

\* A request past its first call had begun.
LEMMA Entered ==
  ASSUME TypeInv, [Next]_vars, NEW r \in Requests, pc'[r] \notin {"idle"} \cup FirstCalls
  PROVE  /\ pc[r] # "idle" /\ user'[r] = user[r] /\ before'[r] = before[r]
         /\ Step(r) \/ (pc'[r] = pc[r] /\ listing'[r] = listing[r] /\ todo'[r] = todo[r])
<1>1. Step(r) => pc[r] # "idle"
  BY StepFrame DEF StepOf, TypeInv
<1> QED
  BY <1>1, Alone, BegunKept

\* Of two sets of a finite kind, the full one is the only one of its size.
LEMMA WholeSet ==
  ASSUME NEW S, IsFiniteSet(S), NEW limit \in Nat, Cardinality(S) <= limit,
         NEW T \in SUBSET S, T = S \/ Cardinality(T) = limit
  PROVE  T = S
<1>1. /\ Cardinality(S) \in Nat /\ Cardinality(T) <= Cardinality(S)
      /\ Cardinality(S) = Cardinality(T) => S = T
  BY FS_Subset, FS_CardinalityType
<1> QED
  BY <1>1

PointsOf(c) == {m \in MemoryIds : points[m] = c}

\* No customer has more points than a search returns.
FewPoints ==
  \A c \in Customers : IsFiniteSet(PointsOf(c)) /\ Cardinality(PointsOf(c)) <= SearchLimit

\* What search s has to find of write w.
Due(s, w) ==
  w \in before[s] /\ pc[w] = "done" /\ user[w] = user[s] /\ ~ForgetOverlaps(w)

Found ==
  \A s \in Searchers, w \in Writers :
    Due(s, w) /\ pc[s] \in {"get_memories_by_ids", "done"} => Planned(w) \subseteq listing[s]

\* A write that is due has its rows and points.
LEMMA DueStored ==
  ASSUME TypeInv, Durable, NEW s \in Searchers, NEW w \in Writers, Due(s, w),
         NEW m \in Planned(w)
  PROVE  memories[m] # Nil /\ points[m] = user[w]
<1>1. StoredSoFar(w) /\ pc[w] = "done"
  BY DEF Due, Durable
<1> QED
  BY <1>1 DEF StoredSoFar, Planning

LEMMA FoundStep ==
  ASSUME TypeInv, ForgetInv, Durable, FewPoints, Found, [Next]_vars
  PROVE  Found'
<1> SUFFICES ASSUME NEW s \in Searchers, NEW w \in Writers, Due(s, w)',
                    pc'[s] \in {"get_memories_by_ids", "done"}, NEW m \in Planned(w)'
             PROVE  m \in listing'[s]
  BY DEF Found
<1> s \in Requests \ Sweepers /\ w \in Requests /\ TypeOK
  BY RequestsAssumption DEF Requests, TypeInv
<1>1. /\ pc[s] # "idle" /\ user'[s] = user[s] /\ before'[s] = before[s]
      /\ Step(s) \/ (pc'[s] = pc[s] /\ listing'[s] = listing[s])
  BY Entered DEF FirstCalls
<1>2. w \in before[s] /\ pc[w] \in Returned
  BY <1>1 DEF Due, ForgetInv, BeforeReturned
<1>3. pc[w] = "done" /\ user'[w] = user[w] /\ batch'[w] = batch[w]
  BY <1>2, Settled DEF Due
<1>4. Due(s, w)
  BY <1>1, <1>2, <1>3, OverlapStays DEF Due
<1>5. m \in Planned(w)
  BY <1>3 DEF Planned
<1>6. memories[m] # Nil /\ points[m] = user[w] /\ user[w] = user[s] /\ m \in MemoryIds
  BY <1>4, <1>5, DueStored, PlannedIds DEF Due
<1>7. memories[m].customer = user[s]
  BY <1>5, <1>6, PlannedIds DEF ForgetInv, OwnRows
<1>8. CASE Step(s)
  <2> USE DEF At, Goto, Fail, TypeOK
  <2>1. CASE EmbedQuery(s)
    BY <2>1 DEF EmbedQuery
  <2>2. CASE SearchPoints(s)
    <3>1. PICK S \in Hits(user[s]) : listing'[s] = S
      BY <2>2 DEF SearchPoints
    <3>2. user[s] \in Customers
      BY <1>1 DEF TypeInv, Begun
    <3>3. S = PointsOf(user[s])
      <4>1. /\ IsFiniteSet(PointsOf(user[s])) /\ Cardinality(PointsOf(user[s])) <= SearchLimit
            /\ SearchLimit \in Nat
        BY <3>2, ConfigAssumption DEF FewPoints
      <4>2. S \in SUBSET PointsOf(user[s]) /\ (S = PointsOf(user[s]) \/ Cardinality(S) = SearchLimit)
        BY <3>1 DEF Hits, PointsOf
      <4> QED
        BY <4>1, <4>2, WholeSet
    <3> QED
      BY <1>6, <3>1, <3>3 DEF PointsOf
  <2>3. CASE GetMemoriesByIds(s)
    <3>1. m \in listing[s]
      BY <1>4, <1>5, <2>3 DEF Found, GetMemoriesByIds
    <3> QED
      BY <1>6, <1>7, <2>3, <3>1 DEF GetMemoriesByIds
  <2>4. CASE Raise(s)
    BY <2>4 DEF Raise
  <2> QED
    BY <1>8, <2>1, <2>2, <2>3, <2>4, ClassOfStep DEF SearchStep
<1>9. CASE ~Step(s)
  BY <1>1, <1>4, <1>5, <1>9 DEF Found
<1> QED
  BY <1>8, <1>9

\* A search that began after a write returned finds what the write stored
\* (manager.py:370-405), as long as no customer has more points than a search
\* returns.
THEOREM SearchesFind == Spec /\ []FewPoints => []SearchAfterWrite
<1>1. Init => Found
  BY DEF Init, Found, Requests
<1>2. TypeInv /\ ForgetInv /\ Durable /\ FewPoints /\ Found /\ [Next]_vars => Found'
  BY FoundStep
<1>3. Found => SearchAfterWrite
  BY DEF Found, Due, SearchAfterWrite
<1> QED
  BY <1>1, <1>2, <1>3, DurableCorrect, TypeCorrect, ForgetCorrect, PTL DEF Spec

-----------------------------------------------------------------------------
(* Conflicts.                                                              *)

\* No customer has more active rows than a listing shows.
FewRows ==
  \A c \in Customers : IsFiniteSet(Active(c, Nil)) /\ Cardinality(Active(c, Nil)) <= ListLimit

LEMMA WholeListing ==
  ASSUME FewRows, NEW c \in Customers, NEW S \in Listings(c, Nil, ListLimit)
  PROVE  S = Active(c, Nil)
<1>1. /\ IsFiniteSet(Active(c, Nil)) /\ Cardinality(Active(c, Nil)) <= ListLimit
      /\ ListLimit \in Nat
  BY ConfigAssumption DEF FewRows
<1>2. S \in SUBSET Active(c, Nil) /\ (S = Active(c, Nil) \/ Cardinality(S) = ListLimit)
  BY DEF Listings
<1> QED
  BY <1>1, <1>2, WholeSet

IsActive(m) == memories[m] # Nil /\ memories[m].active

\* Only the insert of its own write makes a row active.
LEMMA ActiveFrom ==
  ASSUME TypeInv, [Next]_vars, NEW m \in MemoryIds, IsActive(m)'
  PROVE  IsActive(m) \/ (m[1] \in Writers /\ Step(m[1]) /\ InsertMemory(m[1]))
<1> TypeOK
  BY DEF TypeInv
<1>0. memories'[m] # Nil /\ memories'[m].active
  BY DEF IsActive
<1>1. CASE memories'[m] = memories[m]
  BY <1>1 DEF IsActive
<1>2. ASSUME NEW r \in Requests, Step(r)
      PROVE  IsActive(m) \/ (m[1] \in Writers /\ Step(m[1]) /\ InsertMemory(m[1]))
  <2>1. ASSUME NEW n \in MemoryIds, NEW by \in MemoryIds, memories' = Superseded(n, by)
        PROVE  IsActive(m)
    BY <1>0, <2>1, SupersededRows DEF IsActive
  <2>2. CASE r \in Writers /\ Supersede(r)
    <3>1. PICK n \in todo[r], j \in pending[r] :
            memories' = memories \/ memories' = Superseded(n, <<r, j>>)
      BY <2>2 DEF Supersede
    <3>2. n \in MemoryIds /\ <<r, j>> \in MemoryIds
      BY <2>2 DEF TypeOK, MemoryIds
    <3> QED
      BY <1>1, <2>1, <3>1, <3>2
  <2>3. CASE r \in Writers /\ InsertMemory(r)
    <3>1. PICK j \in pending[r] :
            memories' = [memories EXCEPT ![<<r, j>>] =
                           [customer |-> user[r], active |-> TRUE, superseded_by |-> Nil]]
      BY <2>3 DEF InsertMemory
    <3>2. CASE m = <<r, j>>
      BY <1>2, <2>3, <3>2
    <3>3. CASE m # <<r, j>>
      BY <1>1, <3>1, <3>3 DEF TypeOK
    <3> QED
      BY <3>2, <3>3
  <2>4. CASE r \in Forgetters /\ DeleteRows(r)
    BY <1>0, <1>1, <2>4 DEF DeleteRows
  <2>5. CASE r \in Sweepers /\ Expire(r)
    <3>1. PICK n \in todo[r] : memories' = Superseded(n, n)
      BY <2>5 DEF Expire
    <3>2. n \in MemoryIds
      BY DEF TypeOK
    <3> QED
      BY <2>1, <3>1, <3>2
  <2> QED
    BY <1>1, <1>2, <2>2, <2>3, <2>4, <2>5, StepRows
<1>3. CASE Call
  BY <1>1, <1>3, CallFrame DEF stores
<1>4. CASE Environment \/ Quiet \/ UNCHANGED vars
  BY <1>1, <1>4, QuietStores
<1> QED
  BY <1>2, <1>3, <1>4 DEF Next

\* A write that has returned stores no more.
LEMMA ActiveBefore ==
  ASSUME TypeInv, [Next]_vars, NEW m \in MemoryIds, IsActive(m)', pc[m[1]] \in Returned
  PROVE  IsActive(m)
<1>1. ~(m[1] \in Writers /\ Step(m[1]))
  BY StepFrame DEF StepOf, TypeInv, Requests
<1> QED
  BY <1>1, ActiveFrom

\* Write w resolves the conflict of its fact n with memory m: n is still to be
\* stored, m is on w's list, and m goes before n is stored.
Resolves(w, n, m) ==
  /\ n[2] \in pending[w] /\ m \in listing[w]
  /\ Least(pending[w], n[2]) => /\ pc[w] \notin {"embed", "upsert_point", "insert_memory"}
                                /\ pc[w] = "supersede" => m \in todo[w]

Contradicts(n, m) == <<Text(n), Text(m)>> \in Opposed

\* What a planned fact of w contradicts among the active memories of the writes
\* that had returned, w resolves.
ResolvedBy(w) ==
  /\ pc[w] = "current" => Planned(w) = {}
  /\ pc[w] \in Planning =>
       \A v \in Writers : v \in before[w] /\ user[v] = user[w] =>
         \A m \in Planned(v), n \in Planned(w) :
           IsActive(m) /\ Contradicts(n, m) => Resolves(w, n, m)

Resolved == \A w \in Writers : ResolvedBy(w)

\* The head of the loop leaves no conflict of the next fact behind.
LEMMA StoreNextResolves ==
  ASSUME TypeOK, NEW w \in Writers, NEW rest \in SUBSET (1 .. MaxFacts), StoreNext(w, rest),
         listing' = listing, Strategy = "latest_wins",
         NEW i \in rest, NEW m \in listing[w], <<batch[w][i], Text(m)>> \in Opposed
  PROVE  /\ pending'[w] = rest
         /\ Least(rest, i) => /\ pc'[w] \notin {"embed", "upsert_point", "insert_memory"}
                              /\ pc'[w] = "supersede" => m \in todo'[w]
<1> w \in Requests
  BY DEF Requests
<1>1. pending'[w] = rest
  BY DEF StoreNext, TypeOK
<1>2. ASSUME Least(rest, i)
      PROVE  /\ pc'[w] \notin {"embed", "upsert_point", "insert_memory"}
             /\ pc'[w] = "supersede" => m \in todo'[w]
  <2>1. PICK j \in rest : /\ Least(rest, j)
                          /\ todo' = [todo EXCEPT ![w] = Conflicts(w, j)]
                          /\ Goto(w, IF Conflicts(w, j) = {} THEN "embed" ELSE "supersede")
    BY DEF StoreNext
  <2>2. j = i
    BY <1>2, <2>1, FactsAssumption DEF Least
  <2>3. m \in Conflicts(w, i)
    BY DEF Conflicts
  <2>4. Goto(w, "supersede") /\ todo'[w] = Conflicts(w, i)
    BY <2>1, <2>2, <2>3 DEF TypeOK
  <2> QED
    BY <2>3, <2>4 DEF Goto, TypeOK
<1> QED
  BY <1>1, <1>2

LEMMA ResolvedStep ==
  ASSUME TypeInv, ForgetInv, FewRows, Strategy = "latest_wins", Resolved, [Next]_vars
  PROVE  Resolved'
<1> SUFFICES ASSUME NEW w \in Writers PROVE ResolvedBy(w)'
  BY DEF Resolved
<1> w \in Requests \ Sweepers /\ TypeOK /\ ResolvedBy(w)
  BY RequestsAssumption DEF Requests, TypeInv, Resolved
<1> USE DEF Planning, Storing
<1>0. ASSUME pc'[w] = "current" PROVE Planned(w)' = {}
  <2>1. CASE Step(w)
    <3> USE DEF At, Goto, Fail, TypeOK, stores, locals
    <3>1. CASE ListExisting(w)
      <4>1. batch' = batch /\ {i \in 1 .. Len(batch[w]) : batch[w][i] \notin Refused} = {}
        BY <1>0, <3>1 DEF ListExisting
      <4> QED
        BY <4>1 DEF Planned
    <3>2. CASE ~ListExisting(w)
      <4>1. CASE GetCustomer(w) \/ UpsertCustomer(w) \/ Extract(w) \/ CurrentVersion(w)
        BY <1>0, <4>1 DEF GetCustomer, UpsertCustomer, Extract, CurrentVersion
      <4>2. CASE BumpVersion(w) \/ AppendLedger(w) \/ Supersede(w) \/ Embed(w)
        BY <1>0, <4>2 DEF BumpVersion, AppendLedger, Supersede, Embed, StoreNext
      <4>3. CASE UpsertPoint(w) \/ InsertMemory(w) \/ InvalidateHot(w) \/ Publish(w) \/ Raise(w)
        BY <1>0, <4>3 DEF UpsertPoint, InsertMemory, InvalidateHot, Publish, Raise, StoreNext
      <4> QED
        BY <2>1, <3>2, <4>1, <4>2, <4>3, ClassOfStep DEF WriteStep
    <3> QED
      BY <3>1, <3>2
  <2>2. CASE ~Step(w)
    <3>1. pc[w] = "current" /\ batch'[w] = batch[w]
      BY <1>0, <2>2, Alone DEF FirstCalls
    <3> QED
      BY <3>1 DEF ResolvedBy, Planned
  <2> QED
    BY <2>1, <2>2
<1>1. ASSUME pc'[w] \in Planning, NEW v \in Writers, v \in before'[w], user'[v] = user'[w],
             NEW m \in Planned(v)', NEW n \in Planned(w)', IsActive(m)', Contradicts(n, m)'
      PROVE  Resolves(w, n, m)'
  <2>1. /\ pc[w] # "idle" /\ user'[w] = user[w] /\ before'[w] = before[w]
        /\ user[w] \in Customers
    BY <1>1, Entered DEF FirstCalls, TypeInv, Begun
  <2>2. v \in Requests /\ pc[v] \in Returned /\ v \in before[w]
    BY <1>1, <2>1 DEF ForgetInv, BeforeReturned, Requests
  <2>3. user'[v] = user[v] /\ batch'[v] = batch[v] /\ user[v] = user[w]
    BY <1>1, <2>1, <2>2, Settled
  <2>4. m \in Planned(v) /\ m \in MemoryIds /\ m[1] = v
    <3>1. m \in Planned(v)
      BY <2>3 DEF Planned
    <3>2. m = <<v, m[2]>> /\ m \in MemoryIds
      BY <3>1, PlannedIds
    <3> QED
      BY <3>1, <3>2
  <2>5. IsActive(m)
    BY <1>1, <2>2, <2>4, ActiveBefore
  <2>6. ASSUME batch'[w] = batch[w], pc[w] \in Planning
        PROVE  n \in Planned(w) /\ Contradicts(n, m) /\ Resolves(w, n, m)
    <3>1. n \in Planned(w)
      BY <2>6 DEF Planned
    <3>2. n[1] = w
      <4>1. n = <<w, n[2]>>
        BY <3>1, PlannedIds
      <4> QED
        BY <4>1
    <3>3. Contradicts(n, m)
      BY <1>1, <2>3, <2>4, <2>6, <3>2 DEF Contradicts, Text
    <3> QED
      BY <2>2, <2>3, <2>4, <2>5, <2>6, <3>1, <3>3 DEF ResolvedBy
  <2>7. n[1] = w /\ n[2] \in 1 .. Len(batch'[w]) /\ batch'[w][n[2]] \notin Refused
    <3>1. PICK i \in 1 .. Len(batch'[w]) : batch'[w][i] \notin Refused /\ n = <<w, i>>
      BY DEF Planned
    <3> QED
      BY <3>1
  <2>8. <<batch'[w][n[2]], batch'[m[1]][m[2]]>> \in Opposed
    BY <1>1, <2>7 DEF Contradicts, Text
  <2>9. CASE Step(w)
    <3> USE DEF At, Goto, Fail
    <3>1. CASE GetCustomer(w) \/ UpsertCustomer(w)
      BY <1>1, <3>1 DEF GetCustomer, UpsertCustomer, TypeOK
    <3>2. CASE Extract(w)
      <4>1. batch'[w] = <<>>
        BY <1>1, <3>2 DEF Extract, TypeOK
      <4> QED
        BY <2>7, <4>1
    <3>3. CASE ListExisting(w)
      <4>1. /\ listing'[w] \in Listings(user[w], Nil, ListLimit)
            /\ batch' = batch /\ pc'[w] = "bump"
            /\ pending'[w] = {i \in 1 .. Len(batch[w]) : batch[w][i] \notin Refused}
        BY <1>1, <3>3 DEF ListExisting, TypeOK
      <4>2. m \in Active(user[w], Nil)
        <5>1. memories[m] # Nil /\ memories[m].active
          BY <2>5 DEF IsActive
        <5> QED
          BY <2>3, <2>4, <5>1 DEF Active, ForgetInv, OwnRows
      <4>3. m \in listing'[w]
        BY <2>1, <4>1, <4>2, WholeListing
      <4> QED
        BY <2>7, <4>1, <4>3 DEF Resolves
    <3>4. CASE CurrentVersion(w)
      <4>1. pc[w] = "current" /\ batch' = batch
        BY <3>4 DEF CurrentVersion, locals
      <4> QED
        BY <4>1 DEF ResolvedBy, Planned
    <3>5. CASE BumpVersion(w) \/ Embed(w) \/ UpsertPoint(w) \/ InvalidateHot(w) \/ Publish(w)
      <4>1. /\ UNCHANGED <<batch, pending, listing, todo>>
            /\ \/ pc[w] = "bump" /\ pc'[w] = "append"
               \/ pc[w] = "embed" /\ pc'[w] = "upsert_point"
               \/ pc[w] = "upsert_point" /\ pc'[w] = "insert_memory"
               \/ pc[w] = "invalidate" /\ pc'[w] = "publish"
               \/ pc[w] = "publish" /\ pc'[w] = "done"
        BY <1>1, <3>5 DEF BumpVersion, Embed, UpsertPoint, InvalidateHot, Publish, locals, TypeOK
      <4> QED
        BY <2>6, <4>1 DEF Resolves, Least
    <3>6. CASE AppendLedger(w)
      <4>1. /\ StoreNext(w, pending[w]) /\ UNCHANGED <<batch, listing>> /\ pc[w] = "append"
        BY <3>6 DEF AppendLedger
      <4>2. pending[w] \in SUBSET (1 .. MaxFacts)
        BY DEF TypeOK
      <4>3. n[2] \in pending[w] /\ m \in listing[w]
        BY <2>6, <4>1 DEF Resolves
      <4>4. <<batch[w][n[2]], Text(m)>> \in Opposed
        BY <2>8, <4>1 DEF Text
      <4>5. /\ pending'[w] = pending[w]
            /\ Least(pending[w], n[2]) => /\ pc'[w] \notin {"embed", "upsert_point", "insert_memory"}
                                          /\ pc'[w] = "supersede" => m \in todo'[w]
        BY <4>1, <4>2, <4>3, <4>4, StoreNextResolves
      <4> QED
        BY <4>1, <4>3, <4>5 DEF Resolves, Least
    <3>7. CASE Supersede(w)
      <4>1. PICK k \in todo[w], i \in pending[w] :
              /\ Least(pending[w], i)
              /\ memories' = Superseded(k, <<w, i>>)
              /\ todo' = [todo EXCEPT ![w] = @ \ {k}]
              /\ pc'[w] = IF todo[w] = {k} THEN "embed" ELSE "supersede"
        BY <1>1, <3>7 DEF Supersede, TypeOK
      <4>2. UNCHANGED <<batch, pending, listing>> /\ pc[w] = "supersede"
        BY <3>7 DEF Supersede
      <4>3. Resolves(w, n, m)
        BY <2>6, <4>2
      <4>4. m # k
        <5>1. k \in MemoryIds /\ <<w, i>> \in MemoryIds
          BY DEF TypeOK, MemoryIds
        <5>2. memories[m] # Nil /\ memories'[m].active
          BY <1>1, <2>5 DEF IsActive
        <5> QED
          BY <2>4, <4>1, <5>1, <5>2, SupersededRows
      <4>5. Least(pending[w], n[2]) => m \in todo'[w] /\ pc'[w] = "supersede"
        BY <4>1, <4>2, <4>3, <4>4 DEF Resolves, TypeOK
      <4> QED
        BY <4>2, <4>3, <4>5 DEF Resolves, Least
    <3>8. CASE InsertMemory(w)
      <4>1. PICK i \in pending[w] : Least(pending[w], i) /\ StoreNext(w, pending[w] \ {i})
        BY <3>8 DEF InsertMemory
      <4>2. UNCHANGED <<batch, listing>> /\ pc[w] = "insert_memory"
        BY <3>8 DEF InsertMemory
      <4>3. Resolves(w, n, m)
        BY <2>6, <4>2
      <4>4. n[2] # i
        BY <4>1, <4>2, <4>3 DEF Resolves
      <4>5. pending[w] \ {i} \in SUBSET (1 .. MaxFacts)
        BY DEF TypeOK
      <4>6. n[2] \in pending[w] \ {i} /\ m \in listing[w]
        BY <4>3, <4>4 DEF Resolves
      <4>7. <<batch[w][n[2]], Text(m)>> \in Opposed
        BY <2>8, <4>2 DEF Text
      <4>8. /\ pending'[w] = pending[w] \ {i}
            /\ Least(pending[w] \ {i}, n[2]) =>
                 /\ pc'[w] \notin {"embed", "upsert_point", "insert_memory"}
                 /\ pc'[w] = "supersede" => m \in todo'[w]
        BY <4>1, <4>2, <4>5, <4>6, <4>7, StoreNextResolves
      <4> QED
        BY <4>2, <4>6, <4>8 DEF Resolves, Least
    <3>9. CASE Raise(w)
      BY <1>1, <3>9 DEF Raise, TypeOK
    <3> QED
      BY <2>9, <3>1, <3>2, <3>3, <3>4, <3>5, <3>6, <3>7, <3>8, <3>9, ClassOfStep DEF WriteStep
  <2>10. CASE ~Step(w)
    <3>1. /\ pc'[w] = pc[w] /\ listing'[w] = listing[w] /\ todo'[w] = todo[w]
          /\ batch'[w] = batch[w] /\ pending'[w] = pending[w]
      BY <1>1, <2>10, Alone DEF FirstCalls
    <3> QED
      BY <1>1, <2>6, <3>1 DEF Resolves, Least
  <2> QED
    BY <2>9, <2>10
<1> QED
  BY <1>0, <1>1 DEF ResolvedBy

LEMMA ResolvedCorrect == Spec /\ []FewRows => [](Strategy = "latest_wins" => Resolved)
<1>1. Init => Resolved
  BY DEF Init, Resolved, ResolvedBy, Planning, Storing, Requests
<1>2. TypeInv /\ ForgetInv /\ FewRows /\ (Strategy = "latest_wins" => Resolved) /\ [Next]_vars
        => (Strategy = "latest_wins" => Resolved)'
  BY ResolvedStep
<1> QED
  BY <1>1, <1>2, TypeCorrect, ForgetCorrect, PTL DEF Spec

\* Once a write has seen another return, the two leave no contradicting facts
\* active (manager.py:196-222), whatever runs beside them, as long as no customer
\* has more active rows than the write's listing shows (manager.py:181).
THEOREM ConflictsResolve == Spec /\ []FewRows => []SerialConflictsResolved
<1>1. TypeInv /\ LifeInv /\ (Strategy = "latest_wins" => Resolved) => SerialConflictsResolved
  <2> SUFFICES ASSUME TypeInv, LifeInv, Resolved, NEW v \in Writers, NEW w \in Writers,
                      v \in before[w], pc[w] = "done", user[v] = user[w],
                      NEW m \in Planned(v), NEW n \in Planned(w), <<Text(m), Text(n)>> \in Opposed,
                      IsActive(m), IsActive(n)
               PROVE  FALSE
    BY DEF SerialConflictsResolved, IsActive
  <2>1. Contradicts(n, m)
    BY FactsAssumption DEF Contradicts
  <2>2. n[2] \in pending[w]
    BY <2>1 DEF Resolved, ResolvedBy, Planning, Resolves
  <2>3. n = <<w, n[2]>>
    BY PlannedIds
  <2> QED
    BY <2>2, <2>3 DEF LifeInv, LifeOfWrite, IsActive
<1> QED
  BY <1>1, ResolvedCorrect, LifeCorrect, TypeCorrect, PTL

-----------------------------------------------------------------------------
(* The cache of one process (no Redis, no Postgres).                       *)

\* While a request holds the event loop, nothing else happens.
LEMMA LoopHolds ==
  ASSUME TypeInv, [Next]_vars, NEW r \in Requests, loop = r, pc[r] # "idle", ~Step(r)
  PROVE  UNCHANGED vars
<1> r # Nil
  BY RequestsAssumption
<1>1. ASSUME NEW q \in Requests, Step(q) PROVE FALSE
  BY <1>1, StepFrame DEF StepOf, TypeInv
<1>2. ~Call
  BY CallFrame DEF TypeInv
<1>3. ~Environment
  BY DEF Environment, Deliver, EvictHot
<1> QED
  BY <1>1, <1>2, <1>3 DEF Next, Quiet

\* The cache of a customer is emptied, or filled by a read of the customer.
LEMMA HotFrom ==
  ASSUME TypeInv, [Next]_vars, NEW c \in Customers
  PROVE  \/ hot'[c] = hot[c] \/ hot'[c] = Nil
         \/ \E r \in Readers : /\ Step(r) /\ SetWorkingMemory(r)
                               /\ user[r] = c /\ hot'[c] = listing[r]
<1> TypeOK
  BY DEF TypeInv
<1> USE DEF stores, locals
<1>1. ASSUME NEW r \in Requests, Step(r)
      PROVE  \/ hot'[c] = hot[c] \/ hot'[c] = Nil
             \/ /\ r \in Readers /\ SetWorkingMemory(r)
                /\ user[r] = c /\ hot'[c] = listing[r]
  <2>1. CASE r \in Writers /\ WriteStep(r)
    <3>1. CASE InvalidateHot(r) \/ Publish(r)
      BY <3>1 DEF InvalidateHot, Publish, TypeOK
    <3>2. CASE ~(InvalidateHot(r) \/ Publish(r))
      BY <2>1, <3>2 DEF WriteStep, GetCustomer, UpsertCustomer, Extract, ListExisting,
        CurrentVersion, BumpVersion, AppendLedger, Supersede, Embed, UpsertPoint, InsertMemory
    <3> QED
      BY <3>1, <3>2
  <2>2. CASE r \in Readers /\ ReadStep(r)
    <3>1. CASE SetWorkingMemory(r)
      BY <2>2, <3>1 DEF SetWorkingMemory, TypeOK
    <3>2. CASE ~SetWorkingMemory(r)
      BY <2>2, <3>2 DEF ReadStep, AwaitVersion, Poll, TimeOut, GetWorkingMemory, ListMemories
    <3> QED
      BY <3>1, <3>2
  <2>3. CASE r \in Searchers /\ SearchStep(r)
    BY <2>3 DEF SearchStep, EmbedQuery, SearchPoints, GetMemoriesByIds
  <2>4. CASE r \in Forgetters /\ ForgetStep(r)
    BY <2>4 DEF ForgetStep, ForgetHot, DeleteRows, DeletePoints, TypeOK
  <2>5. CASE r \in Sweepers /\ SweepStep(r)
    BY <2>5 DEF SweepStep, ListExpired, Expire
  <2>6. CASE Raise(r)
    BY <2>6 DEF Raise
  <2> QED
    BY <1>1, <2>1, <2>2, <2>3, <2>4, <2>5, <2>6 DEF Step
<1>2. CASE Call
  BY <1>2, CallFrame
<1>3. CASE Environment
  BY <1>3 DEF Environment, Deliver, EvictHot, TypeOK
<1>4. CASE Quiet \/ UNCHANGED vars
  BY <1>4 DEF Quiet, vars
<1> QED
  BY <1>1, <1>2, <1>3, <1>4 DEF Next

\* A row keeps its customer until a forget of the customer deletes it.
LEMMA RowKeepsCustomer ==
  ASSUME TypeInv, OwnRows, [Next]_vars, NEW m \in MemoryIds, memories[m] # Nil
  PROVE  \/ memories'[m] # Nil /\ memories'[m].customer = memories[m].customer
         \/ \E f \in Forgetters : /\ Step(f) /\ DeleteRows(f)
                                  /\ memories[m].customer = user[f]
<1> TypeOK
  BY DEF TypeInv
<1>1. memories'[m] # Nil => memories'[m].customer = memories[m].customer
  BY RowOrigin DEF OwnRows
<1>2. ASSUME NEW r \in Requests, Step(r), memories'[m] = Nil
      PROVE  r \in Forgetters /\ DeleteRows(r) /\ memories[m].customer = user[r]
  <2>1. CASE r \in Writers /\ Supersede(r)
    <3>1. PICK n \in todo[r], j \in pending[r] :
            memories' = memories \/ memories' = Superseded(n, <<r, j>>)
      BY <2>1 DEF Supersede
    <3>2. n \in MemoryIds /\ <<r, j>> \in MemoryIds
      BY <2>1 DEF TypeOK, MemoryIds
    <3> QED
      BY <1>2, <3>1, <3>2, SupersededRows
  <2>2. CASE r \in Writers /\ InsertMemory(r)
    <3>1. PICK j \in pending[r] :
            memories' = [memories EXCEPT ![<<r, j>>] =
                           [customer |-> user[r], active |-> TRUE, superseded_by |-> Nil]]
      BY <2>2 DEF InsertMemory
    <3>2. user[r] \in Customers
      BY <2>2, RequestsAssumption DEF InsertMemory, At, TypeInv, Begun, Requests
    <3>3. [customer |-> user[r], active |-> TRUE, superseded_by |-> Nil] \in Memory
      BY <3>2 DEF Memory
    <3> QED
      BY <1>2, <3>1, <3>3, NilAssumption DEF TypeOK
  <2>3. CASE r \in Forgetters /\ DeleteRows(r)
    BY <1>2, <2>3 DEF DeleteRows
  <2>4. CASE r \in Sweepers /\ Expire(r)
    <3>1. PICK n \in todo[r] : memories' = Superseded(n, n)
      BY <2>4 DEF Expire
    <3>2. n \in MemoryIds
      BY DEF TypeOK
    <3> QED
      BY <1>2, <3>1, <3>2, SupersededRows
  <2> QED
    BY <1>2, <2>1, <2>2, <2>3, <2>4, StepRows
<1>3. CASE Call
  BY <1>1, <1>3, CallFrame DEF stores
<1>4. CASE Environment \/ Quiet \/ UNCHANGED vars
  BY <1>1, <1>4, QuietStores
<1> QED
  BY <1>1, <1>2, <1>3, <1>4 DEF Next

\* What is cached is rows of the customer; between its listing and the cache, and
\* between the purge of the cache and that of the rows, a request holds the loop.
Cached ==
  /\ \A c \in Customers : hot[c] # Nil =>
       \A m \in hot[c] : memories[m] # Nil /\ memories[m].customer = c
  /\ \A r \in Readers : pc[r] = "set_working_memory" =>
       loop = r /\ listing[r] \subseteq Active(user[r], Nil)
  /\ \A f \in Forgetters : pc[f] = "delete_rows" => loop = f /\ hot[user[f]] = Nil

\* How a read comes to the cache, and a forget to the rows.
LEMMA CacheFrom ==
  ASSUME TypeInv, ~Redis, ~Postgres, NEW r \in Requests, Step(r)
  PROVE  /\ r \in Readers /\ pc'[r] = "set_working_memory" =>
              loop' = r /\ memories' = memories /\ listing'[r] \in Listings(user[r], filter[r], ListLimit)
         /\ r \in Forgetters /\ pc'[r] = "delete_rows" => loop' = r /\ hot'[user[r]] = Nil
<1> TypeOK
  BY DEF TypeInv
<1> USE DEF At, Goto, Fail, TypeOK, Suspends, Remote, Returned, WarmCalls, HotCalls, SemanticCalls,
    ModelCalls, stores
<1>1. ASSUME r \in Readers, pc'[r] = "set_working_memory"
      PROVE  loop' = r /\ memories' = memories /\ listing'[r] \in Listings(user[r], filter[r], ListLimit)
  <2>1. CASE ListMemories(r)
    BY <1>1, <2>1 DEF ListMemories
  <2>2. CASE AwaitVersion(r) \/ TimeOut(r) \/ GetWorkingMemory(r) \/ SetWorkingMemory(r) \/ Raise(r)
    BY <1>1, <2>2 DEF AwaitVersion, TimeOut, GetWorkingMemory, SetWorkingMemory, Raise
  <2>3. CASE Poll(r)
    BY <1>1, <2>3 DEF Poll
  <2> QED
    BY <1>1, <2>1, <2>2, <2>3, ClassOfStep DEF ReadStep
<1>2. ASSUME r \in Forgetters, pc'[r] = "delete_rows"
      PROVE  loop' = r /\ hot'[user[r]] = Nil
  <2>1. CASE ForgetHot(r)
    <3>1. user[r] \in Customers
      BY <1>2, <2>1, RequestsAssumption DEF ForgetHot, TypeInv, Begun
    <3> QED
      BY <1>2, <2>1, <3>1 DEF ForgetHot
  <2>2. CASE DeleteRows(r) \/ DeletePoints(r) \/ Raise(r)
    BY <1>2, <2>2 DEF DeleteRows, DeletePoints, Raise
  <2> QED
    BY <1>2, <2>1, <2>2, ClassOfStep DEF ForgetStep
<1> QED
  BY <1>1, <1>2

LEMMA CachedStep ==
  ASSUME TypeInv, OwnRows, Cached, ~Redis, ~Postgres, [Next]_vars
  PROVE  Cached'
<1> TypeOK
  BY DEF TypeInv
<1>1. ASSUME NEW c \in Customers, hot'[c] # Nil, NEW m \in hot'[c]
      PROVE  memories'[m] # Nil /\ memories'[m].customer = c
  <2>1. m \in MemoryIds
    BY <1>1, StepType DEF TypeOK
  <2>2. CASE hot'[c] = hot[c]
    <3>1. memories[m] # Nil /\ memories[m].customer = c
      BY <1>1, <2>2 DEF Cached
    <3>2. ~(\E f \in Forgetters : Step(f) /\ DeleteRows(f) /\ memories[m].customer = user[f])
      BY <1>1, <2>2, <3>1 DEF Cached, DeleteRows, At
    <3> QED
      BY <2>1, <3>1, <3>2, RowKeepsCustomer
  <2>3. CASE \E r \in Readers : Step(r) /\ SetWorkingMemory(r) /\ user[r] = c /\ hot'[c] = listing[r]
    <3>1. PICK r \in Readers : SetWorkingMemory(r) /\ user[r] = c /\ hot'[c] = listing[r]
      BY <2>3
    <3>2. m \in Active(c, Nil) /\ memories' = memories
      BY <1>1, <3>1 DEF Cached, SetWorkingMemory, At
    <3> QED
      BY <3>2 DEF Active
  <2> QED
    BY <1>1, <2>2, <2>3, HotFrom
<1>2. ASSUME NEW r \in Readers, pc'[r] = "set_working_memory"
      PROVE  loop' = r /\ listing'[r] \subseteq Active(user[r], Nil)'
  <2>1. r \in Requests
    BY DEF Requests
  <2>2. pc[r] # "idle" /\ user'[r] = user[r]
    BY <1>2, <2>1, Entered DEF FirstCalls
  <2>3. CASE Step(r)
    <3>1. /\ loop' = r /\ memories' = memories
          /\ listing'[r] \subseteq Active(user[r], filter[r])
      BY <1>2, <2>1, <2>3, CacheFrom DEF Listings
    <3> QED
      BY <2>2, <3>1 DEF Active
  <2>4. CASE ~Step(r)
    <3>1. pc[r] = "set_working_memory"
      BY <1>2, <2>1, <2>4, Entered DEF FirstCalls
    <3>2. loop = r /\ listing[r] \subseteq Active(user[r], Nil)
      BY <3>1 DEF Cached
    <3>3. UNCHANGED vars
      BY <2>1, <2>2, <2>4, <3>2, LoopHolds
    <3> QED
      BY <3>2, <3>3 DEF vars, Active, Text
  <2> QED
    BY <2>3, <2>4
<1>3. ASSUME NEW f \in Forgetters, pc'[f] = "delete_rows"
      PROVE  loop' = f /\ hot'[user'[f]] = Nil
  <2>1. f \in Requests
    BY DEF Requests
  <2>2. pc[f] # "idle" /\ user'[f] = user[f]
    BY <1>3, <2>1, Entered DEF FirstCalls
  <2>3. CASE Step(f)
    BY <1>3, <2>1, <2>2, <2>3, CacheFrom
  <2>4. CASE ~Step(f)
    <3>1. pc[f] = "delete_rows"
      BY <1>3, <2>1, <2>4, Entered DEF FirstCalls
    <3>2. loop = f /\ hot[user[f]] = Nil
      BY <3>1 DEF Cached
    <3>3. UNCHANGED vars
      BY <2>1, <2>2, <2>4, <3>2, LoopHolds
    <3> QED
      BY <3>2, <3>3 DEF vars
  <2> QED
    BY <2>3, <2>4
<1> QED
  BY <1>1, <1>2, <1>3 DEF Cached

LEMMA CachedCorrect ==
  ASSUME ~Redis, ~Postgres
  PROVE  Spec => []Cached
<1>1. Init => Cached
  BY DEF Init, Cached, Requests
<1>2. TypeInv /\ ForgetInv /\ Cached /\ [Next]_vars => Cached'
  BY CachedStep DEF ForgetInv
<1> QED
  BY <1>1, <1>2, TypeCorrect, ForgetCorrect, PTL DEF Spec

\* With every store in one process, a forget that returned left nothing of an
\* earlier write in the cache either (gdpr.py:3).
THEOREM ForgetUncaches ==
  ASSUME ~Redis, ~Postgres
  PROVE  Spec => []ForgottenNotCached
<1>1. TypeInv /\ Cached /\ ForgottenGone => ForgottenNotCached
  <2> SUFFICES ASSUME TypeInv, Cached, ForgottenGone, NEW f \in Forgetters, NEW w \in Writers,
                      pc[f] = "done", w \in before[f], user[w] = user[f], hot[user[f]] # Nil,
                      NEW i \in 1 .. MaxFacts, <<w, i>> \in hot[user[f]]
               PROVE  FALSE
    BY DEF ForgottenNotCached
  <2>1. user[f] \in Customers
    BY RequestsAssumption DEF TypeInv, Begun, Requests
  <2> QED
    BY <2>1 DEF Cached, ForgottenGone
<1> QED
  BY <1>1, CachedCorrect, ForgetPurges, TypeCorrect, PTL

-----------------------------------------------------------------------------
(* Read after write, in one process.                                       *)

\* The calls by which a write has invalidated its customer's cache.
Invalidated == {"publish", "done"}

\* A read that is about to cache lists every active row; the cache, when there is
\* one, holds every active row of the writes that have invalidated it; and a read
\* that returned lists those of the writes that had returned before it.
Fresh ==
  /\ \A r \in Readers : pc[r] = "set_working_memory" =>
       loop = r /\ listing[r] = Active(user[r], Nil)
  /\ \A m \in MemoryIds : IsActive(m) /\ pc[m[1]] \in Invalidated =>
       hot[user[m[1]]] = Nil \/ m \in hot[user[m[1]]]
  /\ \A r \in Readers, m \in MemoryIds :
       /\ pc[r] = "done" /\ m[1] \in before[r] /\ pc[m[1]] = "done"
       /\ user[m[1]] = user[r] /\ IsActive(m)
       => m \in listing[r]

\* A write with a row comes to Invalidated by emptying the cache.
LEMMA InvalidatedFrom ==
  ASSUME TypeInv, NEW w \in Writers, Step(w), ~Redis, pc'[w] \in Invalidated
  PROVE  \/ hot'[user[w]] = Nil
         \/ pc[w] \in {"extract", "current"}
<1> w \in Requests /\ TypeOK
  BY DEF Requests, TypeInv
<1>0. user[w] \in Customers
  BY StepFrame, RequestsAssumption DEF StepOf, TypeInv, Begun, Requests
<1> USE DEF Invalidated, TypeOK, Goto, Fail, At, stores, locals
<1>1. CASE GetCustomer(w) \/ UpsertCustomer(w) \/ CurrentVersion(w) \/ Extract(w)
  BY <1>1 DEF GetCustomer, UpsertCustomer, CurrentVersion, Extract
<1>2. CASE ListExisting(w)
  BY <1>2 DEF ListExisting
<1>3. CASE BumpVersion(w)
  BY <1>3 DEF BumpVersion
<1>4. CASE AppendLedger(w) \/ InsertMemory(w)
  BY <1>4 DEF AppendLedger, InsertMemory, StoreNext
<1>5. CASE Supersede(w) \/ Embed(w) \/ UpsertPoint(w)
  BY <1>5 DEF Supersede, Embed, UpsertPoint
<1>6. CASE InvalidateHot(w) \/ Publish(w)
  BY <1>0, <1>6 DEF InvalidateHot, Publish
<1>7. CASE Raise(w)
  BY <1>7 DEF Raise
<1> QED
  BY <1>1, <1>2, <1>3, <1>4, <1>5, <1>6, <1>7, ClassOfStep DEF WriteStep

\* How a read comes to its end.
LEMMA ReadDoneFrom ==
  ASSUME TypeInv, NEW r \in Readers, Step(r), pc'[r] = "done"
  PROVE  /\ memories' = memories
         /\ \/ hot[user[r]] # Nil /\ listing'[r] = hot[user[r]]
            \/ pc[r] = "set_working_memory" /\ listing'[r] = listing[r]
<1> r \in Requests /\ TypeOK
  BY DEF Requests, TypeInv
<1> USE DEF TypeOK, Goto, Fail, At, stores, locals
<1>1. CASE AwaitVersion(r) \/ TimeOut(r) \/ ListMemories(r) \/ Raise(r)
  BY <1>1 DEF AwaitVersion, TimeOut, ListMemories, Raise
<1>2. CASE Poll(r)
  BY <1>2 DEF Poll
<1>3. CASE GetWorkingMemory(r) \/ SetWorkingMemory(r)
  BY <1>3 DEF GetWorkingMemory, SetWorkingMemory
<1> QED
  BY <1>1, <1>2, <1>3, ClassOfStep DEF ReadStep

LEMMA FreshStep ==
  ASSUME TypeInv, ForgetInv, LedgerFirst, LifeInv, FewRows, Fresh, [Next]_vars,
         ~Redis, ~Postgres, Filters \subseteq {Nil}
  PROVE  Fresh'
<1> TypeOK
  BY DEF TypeInv
<1>1. ASSUME NEW r \in Readers, pc'[r] = "set_working_memory"
      PROVE  loop' = r /\ listing'[r] = Active(user[r], Nil)' /\ user'[r] = user[r]
  <2>1. r \in Requests /\ r \notin Sweepers
    BY RequestsAssumption DEF Requests
  <2>2. pc[r] # "idle" /\ user'[r] = user[r] /\ user[r] \in Customers
    BY <1>1, <2>1, Entered DEF FirstCalls, TypeInv, Begun
  <2>3. CASE Step(r)
    <3>1. filter[r] = Nil
      BY DEF TypeOK
    <3>2. /\ loop' = r /\ memories' = memories
          /\ listing'[r] \in Listings(user[r], Nil, ListLimit)
      BY <1>1, <2>1, <2>3, <3>1, CacheFrom
    <3>3. listing'[r] = Active(user[r], Nil)
      BY <2>2, <3>2, WholeListing
    <3>4. Active(user[r], Nil)' = Active(user[r], Nil)
      BY <2>2, <3>2 DEF Active
    <3> QED
      BY <2>2, <3>2, <3>3, <3>4
  <2>4. CASE ~Step(r)
    <3>1. pc[r] = "set_working_memory"
      BY <1>1, <2>1, <2>4, Entered DEF FirstCalls
    <3>2. loop = r /\ listing[r] = Active(user[r], Nil)
      BY <3>1 DEF Fresh
    <3>3. UNCHANGED vars
      BY <2>1, <2>2, <2>4, <3>2, LoopHolds
    <3>4. Active(user[r], Nil)' = Active(user[r], Nil)
      BY <3>3 DEF vars, Active, Text
    <3> QED
      BY <2>2, <3>2, <3>3, <3>4 DEF vars
  <2> QED
    BY <2>3, <2>4
<1>2. ASSUME NEW m \in MemoryIds, IsActive(m)', pc'[m[1]] \in Invalidated
      PROVE  hot'[user'[m[1]]] = Nil \/ m \in hot'[user'[m[1]]]
  <2> DEFINE w == m[1]
  <2>1. w \in Writers /\ w \in Requests /\ w \notin Sweepers
    BY MemoryIdsWriters, RequestsAssumption
  <2> HIDE DEF w
  <2>2. pc[w] # "idle" /\ user'[w] = user[w] /\ user[w] \in Customers
    BY <1>2, <2>1, Entered DEF Invalidated, FirstCalls, TypeInv, Begun, w
  <2>3. IsActive(m)
    <3>1. SUFFICES ASSUME Step(w), InsertMemory(w) PROVE FALSE
      BY <1>2, ActiveFrom DEF w
    <3> QED
      BY <1>2, <2>1, <3>1 DEF InsertMemory, StoreNext, Goto, TypeOK, Invalidated, w
  <2>4. memories[m] # Nil /\ memories[m].customer = user[w] /\ m \in Active(user[w], Nil)
    BY <2>3 DEF IsActive, ForgetInv, OwnRows, w, Active
  <2>5. CASE pc[w] \notin Invalidated
    <3>1. Step(w)
      BY <1>2, <2>1, <2>5, Entered DEF Invalidated, FirstCalls, w
    <3>2. hot'[user[w]] = Nil \/ pc[w] \in {"extract", "current"}
      BY <1>2, <2>1, <3>1, InvalidatedFrom DEF w
    <3>3. pc[w] \notin BeforeAppend
      <4>1. PICK i \in 1 .. MaxFacts : m = <<w, i>>
        BY DEF MemoryIds, w
      <4>2. Promised(m)
        BY <2>4 DEF LedgerFirst
      <4> QED
        BY <2>1, <4>1, <4>2 DEF LifeInv, LifeOfWrite
    <3> QED
      BY <2>2, <3>2, <3>3 DEF BeforeAppend, w
  <2>6. CASE pc[w] \in Invalidated
    <3>1. hot[user[w]] = Nil \/ m \in hot[user[w]]
      BY <2>3, <2>6 DEF Fresh, w
    <3>2. CASE hot'[user[w]] = hot[user[w]] \/ hot'[user[w]] = Nil
      BY <2>2, <3>1, <3>2 DEF w
    <3>3. CASE \E r \in Readers : /\ Step(r) /\ SetWorkingMemory(r)
                                  /\ user[r] = user[w] /\ hot'[user[w]] = listing[r]
      <4>1. PICK r \in Readers : /\ SetWorkingMemory(r)
                                 /\ user[r] = user[w] /\ hot'[user[w]] = listing[r]
        BY <3>3
      <4>2. listing[r] = Active(user[w], Nil)
        BY <4>1 DEF Fresh, SetWorkingMemory, At
      <4> QED
        BY <2>2, <2>4, <4>1, <4>2 DEF w
    <3> QED
      BY <2>2, <3>2, <3>3, HotFrom
  <2> QED
    BY <2>5, <2>6
<1>3. ASSUME NEW r \in Readers, NEW m \in MemoryIds, pc'[r] = "done", m[1] \in before'[r],
             pc'[m[1]] = "done", user'[m[1]] = user'[r], IsActive(m)'
      PROVE  m \in listing'[r]
  <2> DEFINE w == m[1]
  <2>1. w \in Requests /\ r \in Requests
    BY MemoryIdsWriters DEF Requests
  <2>2. pc[r] # "idle" /\ user'[r] = user[r] /\ before'[r] = before[r]
        /\ (Step(r) \/ (pc'[r] = pc[r] /\ listing'[r] = listing[r]))
    BY <1>3, <2>1, Entered DEF FirstCalls
  <2>3. w \in before[r] /\ pc[w] \in Returned
    BY <1>3, <2>1, <2>2 DEF ForgetInv, BeforeReturned
  <2>4. pc[w] = "done" /\ user[w] = user[r] /\ IsActive(m)
    BY <1>3, <2>1, <2>2, <2>3, Settled, ActiveBefore
  <2>5. CASE ~Step(r)
    BY <1>3, <2>2, <2>3, <2>4, <2>5 DEF Fresh
  <2>6. CASE Step(r)
    <3>1. CASE hot[user[r]] # Nil /\ listing'[r] = hot[user[r]]
      <4>1. hot[user[w]] = Nil \/ m \in hot[user[w]]
        BY <2>4 DEF Fresh, Invalidated
      <4> QED
        BY <2>4, <3>1, <4>1
    <3>2. CASE pc[r] = "set_working_memory" /\ listing'[r] = listing[r]
      <4>1. listing'[r] = Active(user[r], Nil)
        BY <3>2 DEF Fresh
      <4>2. memories[m] # Nil /\ memories[m].active /\ memories[m].customer = user[r]
        BY <2>4 DEF IsActive, ForgetInv, OwnRows
      <4> QED
        BY <4>1, <4>2 DEF Active
    <3> QED
      BY <1>3, <2>6, <3>1, <3>2, ReadDoneFrom
  <2> QED
    BY <2>5, <2>6
<1>4. \A r \in Readers : pc'[r] = "set_working_memory" =>
        loop' = r /\ listing'[r] = Active(user[r], Nil)'
  BY <1>1
<1> QED
  BY <1>2, <1>3, <1>4 DEF Fresh

LEMMA FreshCorrect ==
  ASSUME ~Redis, ~Postgres, Filters \subseteq {Nil}
  PROVE  Spec /\ []FewRows => []Fresh
<1>1. Init => Fresh
  BY DEF Init, Fresh, IsActive, Requests
<1>2. TypeInv /\ ForgetInv /\ LedgerFirst /\ LifeInv /\ FewRows /\ Fresh /\ [Next]_vars => Fresh'
  BY FreshStep
<1> QED
  BY <1>1, <1>2, TypeCorrect, ForgetCorrect, DurabilityFirst, LifeCorrect, PTL DEF Spec

\* A read that began after a write returned lists the write's memories, save those
\* superseded or forgotten since (manager.py:325), with every store in one process,
\* no fact_type and no more active rows than a listing shows.
THEOREM ReadsSeeWrites ==
  ASSUME ~Redis, ~Postgres, Filters \subseteq {Nil}
  PROVE  Spec /\ []FewRows => []ReadAfterWrite
<1>1. TypeInv /\ Fresh => ReadAfterWrite
  <2> SUFFICES ASSUME TypeInv, Fresh, NEW r \in Readers, NEW w \in Writers, pc[r] = "done",
                      w \in before[r], pc[w] = "done", user[w] = user[r],
                      NEW m \in Planned(w), IsActive(m)
               PROVE  m \in listing[r]
    BY DEF ReadAfterWrite, IsActive
  <2>1. m = <<w, m[2]>> /\ m \in MemoryIds
    BY PlannedIds
  <2>2. m[1] = w
    BY <2>1
  <2> QED
    BY <2>1, <2>2 DEF Fresh
<1> QED
  BY <1>1, FreshCorrect, TypeCorrect, PTL
=============================================================================
