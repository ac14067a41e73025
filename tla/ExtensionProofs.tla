--------------------------- MODULE ExtensionProofs --------------------------
(***************************************************************************)
(* The memory service beside the compaction worker (Compaction) and through *)
(* crashes and losses of Redis (Recovery): what it keeps alone it keeps there, *)
(* compaction keeps what was said, every row stays searchable, and the service *)
(* with its worker implements the life cycle of MemoryLifecycle.           *)
(***************************************************************************)
EXTENDS Compaction, Recovery, ReturnProofs

-----------------------------------------------------------------------------
(* A pass and the rows.                                                    *)

\* A pass leaves a row alone or retires it, with itself as its successor.
LEMMA RunOnceRows ==
  ASSUME TypeOK, RunOnce, NEW m \in MemoryIds
  PROVE  \/ memories'[m] = memories[m]
         \/ /\ memories[m] # Nil
            /\ memories'[m] = [memories[m] EXCEPT !.active = FALSE, !.superseded_by = m]
<1>1. PICK retired : memories' = [n \in MemoryIds |-> IF n \in retired THEN Superseded(n, n)[n]
                                                                  ELSE memories[n]]
  BY DEF RunOnce
<1>2. memories'[m] = Superseded(m, m)[m] \/ memories'[m] = memories[m]
  BY <1>1
<1>3. CASE memories[m] = Nil
  BY <1>2, <1>3 DEF Superseded
<1>4. CASE memories[m] # Nil
  <2>1. Superseded(m, m)[m] = [memories[m] EXCEPT !.active = FALSE, !.superseded_by = m]
    BY <1>4 DEF Superseded, TypeOK
  <2> QED
    BY <1>2, <1>4, <2>1
<1> QED
  BY <1>3, <1>4

LEMMA RunOnceType ==
  ASSUME TypeInv, RunOnce
  PROVE  TypeInv'
<1> TypeOK
  BY DEF TypeInv
<1>1. \A m \in MemoryIds : memories'[m] \in Memory \cup {Nil}
  <2> SUFFICES ASSUME NEW m \in MemoryIds PROVE memories'[m] \in Memory \cup {Nil}
    OBVIOUS
  <2>1. memories[m] \in Memory \cup {Nil}
    BY DEF TypeOK
  <2>2. ASSUME NEW row \in Memory
        PROVE  [row EXCEPT !.active = FALSE, !.superseded_by = m] \in Memory
    BY DEF Memory
  <2> QED
    BY <2>1, <2>2, RunOnceRows
<1>2. memories' \in [MemoryIds -> Memory \cup {Nil}]
  <2>1. PICK row : memories' = [m \in MemoryIds |-> row[m]]
    <3>1. PICK retired : memories' = [n \in MemoryIds |-> IF n \in retired THEN Superseded(n, n)[n]
                                                                      ELSE memories[n]]
      BY DEF RunOnce
    <3> WITNESS [n \in MemoryIds |-> IF n \in retired THEN Superseded(n, n)[n] ELSE memories[n]]
    <3> QED
      BY <3>1
  <2> QED
    BY <1>1, <2>1
<1>3. UNCHANGED <<customers, points, hot, versions, ledger, bus, loop, pc, locals>>
  BY DEF RunOnce
<1>4. TypeOK'
  BY <1>2, <1>3 DEF TypeOK, locals
<1>5. Begun'
  BY <1>3 DEF TypeInv, Begun, locals
<1> QED
  BY <1>4, <1>5 DEF TypeInv

\* The invariant of type correctness, with passes.
THEOREM CompactingTypeCorrect == CompactingSpec => []TypeInv
<1>1. TypeInv /\ [Next \/ RunOnce]_vars => TypeInv'
  BY StepType, BegunStep, RunOnceType DEF TypeInv
<1> QED
  BY <1>1, InitType, PTL DEF CompactingSpec

-----------------------------------------------------------------------------
(* What the passes leave as it is.                                         *)

LEMMA RunOnceLedger ==
  ASSUME TypeInv, PendingPromised, LedgerFirst, RunOnce
  PROVE  (PendingPromised /\ LedgerFirst)'
<1> TypeOK
  BY DEF TypeInv
<1>1. UNCHANGED <<points, ledger, pc, pending>>
  BY DEF RunOnce, locals
<1>2. \A m : Promised(m)' <=> Promised(m)
  BY <1>1 DEF Promised
<1>3. PendingPromised'
  BY <1>1, <1>2 DEF PendingPromised
<1>4. ASSUME NEW m \in MemoryIds
      PROVE  RowPromised(m)' /\ PointPromised(m)'
  <2>1. RowPromised(m) /\ PointPromised(m)
    BY DEF LedgerFirst, RowPromised, PointPromised
  <2>2. PointPromised(m)'
    BY <1>1, <1>2, <2>1 DEF PointPromised
  <2>3. CASE memories'[m] = memories[m]
    BY <1>2, <2>1, <2>2, <2>3 DEF RowPromised
  <2>4. CASE /\ memories[m] # Nil
             /\ memories'[m] = [memories[m] EXCEPT !.active = FALSE, !.superseded_by = m]
    <3>1. memories[m] \in Memory
      BY <2>4 DEF TypeOK
    <3>2. memories'[m].superseded_by = m
      BY <2>4, <3>1 DEF Memory
    <3> QED
      BY <1>2, <2>1, <2>2, <2>4, <3>2 DEF RowPromised
  <2> QED
    BY <2>3, <2>4, RunOnceRows
<1> QED
  BY <1>3, <1>4 DEF LedgerFirst, RowPromised, PointPromised

\* A pass retires rows only, so that the ledger still names every row, point and
\* successor link (manager.py:243, workers/compaction.py:63-78).
THEOREM DurabilityCompacting == CompactingSpec => []LedgerFirst
<1>1. Init => PendingPromised /\ LedgerFirst
  BY DEF Init, PendingPromised, Storing, LedgerFirst, Requests
<1>2. TypeInv /\ PendingPromised /\ LedgerFirst /\ [Next \/ RunOnce]_vars
        => (PendingPromised /\ LedgerFirst)'
  BY PendingPromisedStep, LedgerFirstStep, RunOnceLedger
<1> QED
  BY <1>1, <1>2, CompactingTypeCorrect, PTL DEF CompactingSpec

\* Passes take no part in the clock: versions stay unique (versions.py:3).
THEOREM VersionsCompacting == CompactingSpec => []UniqueVersions
<1>1. Init => VersionInv
  BY DEF Init, VersionInv, VersionsFresh, LoopHeld, UniqueVersions, LedgerInVersionOrder,
    Appending, Requests
<1>2. VersionInv /\ RunOnce => VersionInv'
  BY DEF RunOnce, locals, VersionInv, VersionsFresh, LoopHeld, UniqueVersions,
    LedgerInVersionOrder, Appending
<1>3. TypeInv /\ VersionInv /\ [Next \/ RunOnce]_vars => VersionInv'
  BY <1>2, VersionStep
<1>4. VersionInv => UniqueVersions
  BY DEF VersionInv
<1> QED
  BY <1>1, <1>3, <1>4, CompactingTypeCorrect, PTL DEF CompactingSpec

\* A pass removes no row, makes none, and leaves each with its customer.
LEMMA RunOnceKeeps ==
  ASSUME TypeOK, RunOnce, NEW m \in MemoryIds
  PROVE  /\ memories'[m] = Nil <=> memories[m] = Nil
         /\ memories[m] # Nil => memories'[m].customer = memories[m].customer
<1>1. ASSUME NEW row \in Memory
      PROVE  /\ [row EXCEPT !.active = FALSE, !.superseded_by = m] \in Memory
             /\ [row EXCEPT !.active = FALSE, !.superseded_by = m].customer = row.customer
  BY DEF Memory
<1>2. Nil \notin Memory
  BY NilAssumption
<1>3. memories[m] \in Memory \cup {Nil}
  BY DEF TypeOK
<1> QED
  BY <1>1, <1>2, <1>3, RunOnceRows

LEMMA RunOnceForget ==
  ASSUME TypeInv, ForgetInv, RunOnce
  PROVE  ForgetInv'
<1> TypeOK
  BY DEF TypeInv
<1>1. UNCHANGED <<points, pc, user, before>>
  BY DEF RunOnce, locals
<1>2. \A m \in MemoryIds :
        /\ memories'[m] = Nil <=> memories[m] = Nil
        /\ memories[m] # Nil => memories'[m].customer = memories[m].customer
  BY RunOnceKeeps
<1>3. OwnRows'
  BY <1>1, <1>2 DEF ForgetInv, OwnRows
<1>4. BeforeReturned'
  BY <1>1 DEF ForgetInv, BeforeReturned
<1>5. GoneInOrder'
  <2>1. \A w \in Writers, i \in 1 .. MaxFacts : <<w, i>> \in MemoryIds
    BY DEF MemoryIds
  <2>2. \A f : Prior(f)' = Prior(f)
    BY <1>1 DEF Prior
  <2> QED
    BY <1>1, <1>2, <2>1, <2>2 DEF ForgetInv, GoneInOrder, Prior
<1> QED
  BY <1>3, <1>4, <1>5 DEF ForgetInv

\* A pass brings nothing back that a forget removed (gdpr.py:3).
THEOREM ForgetCompacting == CompactingSpec => []ForgottenGone
<1>1. Init => ForgetInv
  BY DEF Init, ForgetInv, OwnRows, BeforeReturned, GoneInOrder, Requests
<1>2. TypeInv /\ ForgetInv /\ [Next \/ RunOnce]_vars => ForgetInv'
  BY OwnRowsStep, BeforeReturnedStep, GoneInOrderStep, RunOnceForget DEF ForgetInv
<1>3. ForgetInv => ForgottenGone
  BY DEF ForgetInv, GoneInOrder, Prior, ForgottenGone
<1> QED
  BY <1>1, <1>2, <1>3, CompactingTypeCorrect, PTL DEF CompactingSpec

-----------------------------------------------------------------------------
(* What a write has stored, beside the passes.                             *)

LEMMA RunOnceDurable ==
  ASSUME TypeInv, Durable, RunOnce
  PROVE  Durable'
<1> SUFFICES ASSUME NEW w \in Writers, ~ForgetOverlaps(w)' PROVE StoredSoFar(w)'
  BY DEF Durable
<1>1. UNCHANGED <<customers, points, pc, user, batch, pending, before>>
  BY DEF RunOnce, locals
<1>2. StoredSoFar(w) /\ Planned(w)' = Planned(w)
  BY <1>1 DEF Durable, ForgetOverlaps, Planned
<1>3. \A m \in Planned(w) : memories[m] # Nil => memories'[m] # Nil
  BY PlannedIds, RunOnceKeeps DEF TypeInv
<1> QED
  BY <1>1, <1>2, <1>3 DEF StoredSoFar, Least

LEMMA DurableCompactingInv == CompactingSpec => [](ForgetInv /\ Durable)
<1>1. Init => ForgetInv /\ Durable
  BY DEF Init, ForgetInv, OwnRows, BeforeReturned, GoneInOrder, Durable, StoredSoFar, Received,
    Planning, Storing, Requests
<1>2. TypeInv /\ ForgetInv /\ Durable /\ [Next \/ RunOnce]_vars => (ForgetInv /\ Durable)'
  BY OwnRowsStep, BeforeReturnedStep, GoneInOrderStep, DurableStep, RunOnceForget, RunOnceDurable
  DEF ForgetInv
<1> QED
  BY <1>1, <1>2, CompactingTypeCorrect, PTL DEF CompactingSpec

\* Passes retire rows and remove none: what a write that returned has stored stays
\* until a forget takes it (manager.py:245-305, workers/compaction.py:63-78).
THEOREM ReturnsCompacting == CompactingSpec => []DurableOnReturn
BY DurableCompactingInv, CompactingTypeCorrect, DurableReturns, PTL

-----------------------------------------------------------------------------
(* Every row has a fact.                                                   *)

\* The calls before a write has a batch.
Early == {"idle", "get_customer", "upsert_customer", "extract"}

\* What a write plans to store, and what it has stored, is in its batch, which
\* it chooses before either.
TextsOf(w) ==
  /\ pending[w] \subseteq DOMAIN batch[w]
  /\ \A i \in 1 .. MaxFacts : memories[<<w, i>>] # Nil => i \in DOMAIN batch[w]
  /\ pc[w] \in Early => pending[w] = {} /\ \A i \in 1 .. MaxFacts : memories[<<w, i>>] = Nil

Texts == \A w \in Writers : TextsOf(w)

\* How a write comes by its batch and its plan.
LEMMA BatchFrom ==
  ASSUME TypeInv, NEW w \in Writers, Step(w)
  PROVE  /\ batch' = batch \/ Extract(w)
         /\ pending'[w] \subseteq pending[w] \/ ListExisting(w)
         /\ pc'[w] \in Early => pc[w] \in Early /\ ~ListExisting(w)
<1> w \in Requests /\ TypeOK
  BY DEF Requests, TypeInv
<1>1. batch' = batch \/ Extract(w)
  <2>1. CASE WriteStep(w)
    BY <2>1 DEF WriteStep, GetCustomer, UpsertCustomer, Extract, ListExisting, CurrentVersion,
      BumpVersion, AppendLedger, Supersede, Embed, UpsertPoint, InsertMemory, InvalidateHot, Publish,
      locals
  <2>2. CASE Raise(w)
    BY <2>2 DEF Raise, locals
  <2> QED
    BY <2>1, <2>2, ClassOfStep
<1>2. pending'[w] \subseteq pending[w] \/ ListExisting(w)
  <2>1. AppendLedger(w) => pending'[w] = pending[w]
    BY DEF AppendLedger, StoreNext, TypeOK
  <2>2. InsertMemory(w) => \E i : pending'[w] = pending[w] \ {i}
    BY DEF InsertMemory, StoreNext, TypeOK
  <2> QED
    BY <2>1, <2>2, WriteKeepsLedger
<1>3. pc'[w] \in Early => pc[w] \in Early /\ ~ListExisting(w)
  <2> USE DEF Early, TypeOK, Goto, Fail, At
  <2>1. CASE GetCustomer(w) \/ UpsertCustomer(w) \/ Extract(w)
    BY <2>1 DEF GetCustomer, UpsertCustomer, Extract, ListExisting
  <2>2. CASE ListExisting(w) \/ CurrentVersion(w) \/ BumpVersion(w) \/ AppendLedger(w)
    BY <2>2 DEF ListExisting, CurrentVersion, BumpVersion, AppendLedger, StoreNext
  <2>3. CASE Supersede(w) \/ Embed(w) \/ UpsertPoint(w)
    BY <2>3 DEF Supersede, Embed, UpsertPoint
  <2>4. CASE InsertMemory(w) \/ InvalidateHot(w) \/ Publish(w)
    BY <2>4 DEF InsertMemory, StoreNext, InvalidateHot, Publish
  <2>5. CASE Raise(w)
    BY <2>5 DEF Raise
  <2> QED
    BY <2>1, <2>2, <2>3, <2>4, <2>5, ClassOfStep DEF WriteStep
<1> QED
  BY <1>1, <1>2, <1>3

LEMMA TextsStep ==
  ASSUME TypeInv, Texts, [Next]_vars, NEW w \in Writers
  PROVE  TextsOf(w)'
<1> w \in Requests /\ TypeOK /\ TextsOf(w)
  BY DEF Requests, TypeInv, Texts
<1>1. CASE Step(w)
  <2>1. CASE Extract(w)
    <3>1. UNCHANGED <<pending, memories>> /\ pc[w] = "extract"
      BY <2>1 DEF Extract, At, stores
    <3> QED
      BY <3>1 DEF TextsOf, Early
  <2>2. CASE ListExisting(w)
    <3>1. UNCHANGED <<batch, memories>>
      BY <2>2 DEF ListExisting, stores
    <3>2. pending'[w] \subseteq DOMAIN batch[w]
      <4>1. pending'[w] \subseteq 1 .. Len(batch[w])
        BY <2>2 DEF ListExisting, TypeOK
      <4> QED
        BY <4>1, BatchType
    <3> QED
      BY <1>1, <2>2, <3>1, <3>2, BatchFrom DEF TextsOf
  <2>3. CASE ~Extract(w) /\ ~ListExisting(w)
    <3>1. batch' = batch /\ pending'[w] \subseteq pending[w]
      BY <1>1, <2>3, BatchFrom
    <3>2. ASSUME NEW i \in 1 .. MaxFacts, memories'[<<w, i>>] # Nil
          PROVE  i \in DOMAIN batch[w] /\ pc[w] \notin Early
      <4>1. CASE memories[<<w, i>>] # Nil
        BY <4>1 DEF TextsOf
      <4>2. CASE memories[<<w, i>>] = Nil
        <5>1. InsertMemory(w) /\ i \in pending[w]
          BY <3>2, <4>2, RowBorn
        <5> QED
          BY <5>1 DEF TextsOf
      <4> QED
        BY <4>1, <4>2
    <3> QED
      BY <1>1, <3>1, <3>2, BatchFrom DEF TextsOf
  <2> QED
    BY <2>1, <2>2, <2>3
<1>2. CASE ~Step(w)
  <2>1. batch'[w] = batch[w] /\ pending'[w] = pending[w] /\ (pc'[w] \in Early => pc[w] \in Early)
    <3>1. ASSUME NEW r \in Requests, Step(r)
          PROVE  batch'[w] = batch[w] /\ pending'[w] = pending[w] /\ pc'[w] = pc[w]
      <4>1. r # w
        BY <1>2, <3>1
      <4>2. pc'[w] = pc[w]
        BY <3>1, <4>1, StepFrame DEF StepOf
      <4>3. CASE r \in Writers
        <5>1. batch' = batch \/ Extract(r)
          BY <3>1, <4>3, BatchFrom
        <5>2. batch'[w] = batch[w]
          BY <4>1, <5>1 DEF Extract, TypeOK
        <5>3. pending'[w] = pending[w]
          BY <3>1, <4>1, <4>3, WriteKeepsLedger DEF ListExisting, AppendLedger, InsertMemory,
            StoreNext, TypeOK
        <5> QED
          BY <4>2, <5>2, <5>3
      <4>4. CASE r \notin Writers
        BY <3>1, <4>2, <4>4, OthersKeepLedger
      <4> QED
        BY <4>3, <4>4
    <3>2. CASE Call
      <4>1. UNCHANGED <<batch, pending>>
        BY <3>2, CallFrame
      <4>2. PICK r \in Requests : pc[r] = "idle" /\ \A q \in Requests \ {r} : pc'[q] = pc[q]
        BY <3>2, CallFrame
      <4> QED
        BY <4>1, <4>2 DEF Early
    <3>3. CASE Environment \/ Quiet \/ UNCHANGED vars
      <4>1. UNCHANGED <<batch, pending, pc>>
        BY <3>3 DEF Environment, Quiet, Deliver, EvictHot, vars, locals
      <4> QED
        BY <4>1
    <3> QED
      BY <3>1, <3>2, <3>3 DEF Next
  <2>2. \A i \in 1 .. MaxFacts : memories'[<<w, i>>] # Nil => memories[<<w, i>>] # Nil
    BY <1>2, RowBorn
  <2> QED
    BY <2>1, <2>2 DEF TextsOf
<1> QED
  BY <1>1, <1>2

LEMMA RunOnceTexts ==
  ASSUME TypeInv, Texts, RunOnce, NEW w \in Writers
  PROVE  TextsOf(w)'
<1> TypeOK /\ TextsOf(w)
  BY DEF TypeInv, Texts
<1>1. UNCHANGED <<batch, pending, pc>>
  BY DEF RunOnce, locals
<1>2. \A i \in 1 .. MaxFacts : memories'[<<w, i>>] # Nil => memories[<<w, i>>] # Nil
  <2>1. \A i \in 1 .. MaxFacts : <<w, i>> \in MemoryIds
    BY DEF MemoryIds
  <2> QED
    BY <2>1, RunOnceRows
<1> QED
  BY <1>1, <1>2 DEF TextsOf

LEMMA TextsCorrect == CompactingSpec => []Texts
<1>1. Init => Texts
  <2> SUFFICES ASSUME Init, NEW w \in Writers PROVE TextsOf(w)
    BY DEF Texts
  <2>1. \A i \in 1 .. MaxFacts : <<w, i>> \in MemoryIds
    BY DEF MemoryIds
  <2> QED
    BY <2>1 DEF Init, TextsOf
<1>2. TypeInv /\ Texts /\ [Next \/ RunOnce]_vars => Texts'
  BY TextsStep, RunOnceTexts DEF Texts
<1> QED
  BY <1>1, <1>2, CompactingTypeCorrect, PTL DEF CompactingSpec

-----------------------------------------------------------------------------
(* What a pass keeps.                                                      *)

\* Of the steps that leave every request where it is, only a pass changes rows.
LEMMA RowsByPass ==
  ASSUME TypeInv, [Next]_vars, UNCHANGED <<pc, locals>>
  PROVE  memories' = memories
<1> TypeOK
  BY DEF TypeInv
<1>1. ASSUME NEW r \in Requests, Step(r)
      PROVE  memories' = memories
  <2> USE DEF TypeOK, Goto, Fail, At
  <2>1. CASE r \in Writers /\ Supersede(r)
    <3>1. todo' = todo
      BY DEF locals
    <3> QED
      BY <2>1, <3>1 DEF Supersede
  <2>2. CASE r \in Writers /\ InsertMemory(r)
    BY <2>2 DEF InsertMemory, StoreNext
  <2>3. CASE r \in Forgetters /\ DeleteRows(r)
    BY <2>3 DEF DeleteRows
  <2>4. CASE r \in Sweepers /\ Expire(r)
    <3>1. todo' = todo
      BY DEF locals
    <3> QED
      BY <2>4, <3>1 DEF Expire
  <2> QED
    BY <1>1, <2>1, <2>2, <2>3, <2>4, StepRows
<1>2. Call => memories' = memories
  BY CallFrame DEF stores
<1> QED
  BY <1>1, <1>2, QuietStores DEF Next

\* What was said and not yet faded is still said by an active row.
Kept ==
  UNCHANGED <<pc, locals>> =>
    \A m \in MemoryIds :
      /\ memories[m] # Nil /\ memories[m].active /\ ~memories'[m].active
      /\ Text(m) \notin Faded
      => \E n \in MemoryIds :
           /\ memories'[n] # Nil /\ memories'[n].active
           /\ Duplicate(m, n)

\* A retired row that has not faded duplicates one in `seen` that is no less
\* salient, and which therefore has not faded either.
LEMMA PassKeeps ==
  ASSUME TypeInv, Texts, RunOnce
  PROVE  Kept
<1> TypeOK
  BY DEF TypeInv
<1> SUFFICES ASSUME NEW m \in MemoryIds, memories[m] # Nil, memories[m].active,
                    ~memories'[m].active, Text(m) \notin Faded
             PROVE  \E n \in MemoryIds : /\ memories'[n] # Nil /\ memories'[n].active
                                         /\ Duplicate(m, n)
  BY DEF Kept
<1>1. PICK old \in SUBSET {n[1] : n \in Listed} : \E seen \in Seens(old) :
        memories' = [n \in MemoryIds |->
          IF n \in {k \in Listed : k[1] \in old /\ Text(k) \in Faded} \cup (Listed \ seen)
          THEN Superseded(n, n)[n] ELSE memories[n]]
  BY DEF RunOnce
<1>2. PICK seen \in Seens(old) :
        memories' = [n \in MemoryIds |->
          IF n \in {k \in Listed : k[1] \in old /\ Text(k) \in Faded} \cup (Listed \ seen)
          THEN Superseded(n, n)[n] ELSE memories[n]]
  BY <1>1
<1>3. m \in Listed \ seen
  BY <1>2
<1>4. PICK n \in seen : Duplicate(m, n) /\ ListedBefore(n, m, old)
  BY <1>3 DEF Seens
<1>5. n \in Listed
  BY DEF Seens
<1>6. n \in MemoryIds /\ memories[n] # Nil /\ memories[n].active
  BY <1>5 DEF Listed, Active
<1>7. ASSUME NEW k \in MemoryIds, memories[k] # Nil PROVE Text(k) \in Facts
  <2>1. PICK w \in Writers, i \in 1 .. MaxFacts : k = <<w, i>>
    BY DEF MemoryIds
  <2>2. i \in DOMAIN batch[w]
    BY <1>7, <2>1 DEF Texts, TextsOf
  <2>3. batch[w] \in Seq(Facts)
    BY BatchType
  <2> QED
    BY <2>1, <2>2, <2>3 DEF Text
<1>8. Text(n) \notin Faded
  <2>1. Text(m) \in Facts /\ Text(n) \in Facts
    BY <1>6, <1>7
  <2>2. Salience[Text(n)] >= Salience[Text(m)]
    BY <1>4, <2>1, FactsAssumption DEF ListedBefore
  <2>3. Text(n) \in Faded => Salience[Text(n)] < Salience[Text(m)]
    BY <2>1, CompactionAssumption
  <2> QED
    BY <2>1, <2>2, <2>3, FactsAssumption
<1>9. memories'[n] = memories[n]
  BY <1>2, <1>6, <1>8
<1> QED
  BY <1>4, <1>6, <1>9

\* A pass of the worker never retires the last row that says what has not faded
\* (workers/compaction.py:57-80).
THEOREM CompactionIsSafe == CompactingSpec => CompactionKeepsFacts
<1>1. TypeInv /\ Texts /\ [Next \/ RunOnce]_vars => [Kept]_vars
  <2> SUFFICES ASSUME TypeInv, Texts, [Next \/ RunOnce]_vars PROVE Kept \/ UNCHANGED vars
    OBVIOUS
  <2>1. CASE RunOnce
    BY <2>1, PassKeeps
  <2>2. CASE [Next]_vars
    BY <2>2, RowsByPass DEF Kept
  <2> QED
    BY <2>1, <2>2
<1>2. CompactingSpec => [][Kept]_vars
  BY <1>1, TextsCorrect, CompactingTypeCorrect, PTL DEF CompactingSpec
<1> QED
  BY <1>2 DEF CompactionKeepsFacts, Kept

-----------------------------------------------------------------------------
(* The life cycle.                                                         *)

LEMMA RunOnceLife ==
  ASSUME TypeInv, LifeInv, RunOnce
  PROVE  LifeInv'
<1> SUFFICES ASSUME NEW w \in Writers PROVE LifeOfWrite(w)'
  BY DEF LifeInv
<1> TypeOK /\ LifeOfWrite(w)
  BY DEF TypeInv, LifeInv
<1>1. UNCHANGED <<pc, pending, ledger, versions, user>>
  BY DEF RunOnce, locals
<1>2. ASSUME NEW i \in pending[w] PROVE memories'[<<w, i>>] = Nil
  <2>1. <<w, i>> \in MemoryIds /\ memories[<<w, i>>] = Nil
    BY DEF TypeOK, MemoryIds, LifeOfWrite
  <2> QED
    BY <2>1, RunOnceRows
<1> QED
  BY <1>1, <1>2 DEF LifeOfWrite, Promised

LifecycleInv == PendingPromised /\ LedgerFirst /\ ForgetInv /\ LifeInv

LEMMA LifecycleCorrect == CompactingSpec => [](TypeInv /\ LifecycleInv)
<1>1. Init => LifecycleInv
  BY DEF Init, LifecycleInv, PendingPromised, Storing, LedgerFirst, ForgetInv, OwnRows, BeforeReturned,
    GoneInOrder, LifeInv, LifeOfWrite, Promised, Requests
<1>2. TypeInv /\ LifecycleInv /\ [Next \/ RunOnce]_vars => LifecycleInv'
  BY PendingPromisedStep, LedgerFirstStep, OwnRowsStep, BeforeReturnedStep,
    GoneInOrderStep, LifeStep, RunOnceLedger, RunOnceForget, RunOnceLife
  DEF LifecycleInv, ForgetInv
<1> QED
  BY <1>1, <1>2, CompactingTypeCorrect, PTL DEF CompactingSpec

-----------------------------------------------------------------------------
(* The refinement: each step is a step of the life cycle or a stutter.     *)

\* A step that makes no promise, and takes nothing promised off its write's list,
\* moves each memory by its row alone.
LEMMA LifeByRow ==
  ASSUME NEW m \in MemoryIds, Promised(m)' <=> Promised(m),
         Promised(m) /\ memories'[m] = Nil => (m[2] \in pending'[m[1]] <=> m[2] \in pending[m[1]]),
         memories'[m] = memories[m]
  PROVE  LifeOf(m)' = LifeOf(m)
BY DEF LifeOf

\* A step that only retires rows.
LEMMA RetiresOrStutters ==
  ASSUME TypeInv, LifecycleInv, versions' = versions,
         \A m \in MemoryIds :
           /\ Promised(m)' <=> Promised(m)
           /\ Promised(m) => user'[m[1]] = user[m[1]]
           /\ Promised(m) => (m[2] \in pending'[m[1]] <=> m[2] \in pending[m[1]])
           /\ \/ memories'[m] = memories[m]
              \/ memories[m] # Nil /\ memories'[m] # Nil /\ ~memories'[m].active
  PROVE  Lifecycle!Next \/ UNCHANGED Lifecycle!lifecycle
<1> DEFINE R == {m \in MemoryIds : LifeOf(m) = "active" /\ LifeOf(m)' # "active"}
<1>1. ASSUME NEW m \in MemoryIds
      PROVE  LifeOf(m)' = IF m \in R THEN "retired" ELSE LifeOf(m)
  <2>1. CASE memories'[m] = memories[m]
    BY <2>1, LifeByRow
  <2>2. CASE memories[m] # Nil /\ memories'[m] # Nil /\ ~memories'[m].active
    <3>1. LifeOf(m)' = "retired"
      BY <2>2 DEF LifeOf
    <3>2. LifeOf(m) \in {"active", "retired"}
      BY <2>2 DEF LifeOf
    <3> QED
      BY <3>1, <3>2
  <2> QED
    BY <2>1, <2>2
<1>2. [m \in MemoryIds |-> IF Promised(m) THEN user[m[1]] ELSE Nil]'
        = [m \in MemoryIds |-> IF Promised(m) THEN user[m[1]] ELSE Nil]
  OBVIOUS
<1>3. CASE R = {}
  <2>1. [m \in MemoryIds |-> LifeOf(m)]' = [m \in MemoryIds |-> LifeOf(m)]
    BY <1>1, <1>3
  <2> QED
    BY <1>2, <2>1 DEF Lifecycle!lifecycle
<1>4. CASE R # {}
  <2>1. R \in SUBSET Lifecycle!In("active")
    BY DEF Lifecycle!In
  <2>2. [m \in MemoryIds |-> LifeOf(m)]'
          = [m \in MemoryIds |-> IF m \in R THEN "retired"
                                 ELSE [n \in MemoryIds |-> LifeOf(n)][m]]
    BY <1>1
  <2> HIDE DEF R
  <2>3. Lifecycle!Retire(R)
    BY <1>2, <1>4, <2>1, <2>2 DEF Lifecycle!Retire
  <2> QED
    BY <2>1, <2>3 DEF Lifecycle!Next
<1> QED
  BY <1>3, <1>4

LEMMA Ticks ==
  ASSUME TypeInv, LifecycleInv, NEW w \in Writers, BumpVersion(w), Step(w)
  PROVE  Lifecycle!Next
<1>1. user[w] \in Customers
  BY RequestsAssumption DEF BumpVersion, At, TypeInv, Begun, Requests
<1>2. UNCHANGED <<memories, ledger, pending, user>>
  BY DEF BumpVersion
<1>3. [m \in MemoryIds |-> LifeOf(m)]' = [m \in MemoryIds |-> LifeOf(m)]
  BY <1>2 DEF LifeOf, Promised
<1>4. [m \in MemoryIds |-> IF Promised(m) THEN user[m[1]] ELSE Nil]'
        = [m \in MemoryIds |-> IF Promised(m) THEN user[m[1]] ELSE Nil]
  BY <1>2 DEF Promised
<1>5. Lifecycle!Tick(user[w])
  BY <1>3, <1>4 DEF Lifecycle!Tick, BumpVersion
<1> QED
  BY <1>1, <1>5 DEF Lifecycle!Next

LEMMA Promises ==
  ASSUME TypeInv, LifecycleInv, [Next]_vars, NEW w \in Writers, AppendLedger(w), Step(w)
  PROVE  Lifecycle!Next
<1> DEFINE entry == {w} \X pending[w]
<1> w \in Requests \ Sweepers /\ TypeOK /\ LifeOfWrite(w)
  BY RequestsAssumption DEF Requests, TypeInv, LifecycleInv, LifeInv
<1>1. /\ pc[w] = "append" /\ user[w] \in Customers
      /\ UNCHANGED <<memories, versions, user>> /\ pending' = pending
  BY DEF AppendLedger, At, StoreNext, TypeInv, Begun, TypeOK
<1>2. entry # {} /\ versions[user[w]] > 0 /\ entry \subseteq MemoryIds
  <2>1. PICK i : i \in pending[w]
    BY <1>1 DEF LifeOfWrite
  <2>2. <<w, i>> \in entry
    BY <2>1
  <2>3. entry \subseteq MemoryIds
    BY DEF TypeOK, MemoryIds
  <2> QED
    BY <1>1, <2>2, <2>3 DEF LifeOfWrite
<1>3. \A m \in entry : ~Promised(m)
  BY <1>1 DEF LifeOfWrite, BeforeAppend, TypeOK
<1>4. \A m \in MemoryIds : Promised(m)' <=> Promised(m) \/ m \in entry
  <2> SUFFICES ASSUME NEW m \in MemoryIds PROVE Promised(m)' <=> Promised(m) \/ m \in entry
    OBVIOUS
  <2>1. ASSUME Promised(m)', ~Promised(m) PROVE m \in entry
    <3>1. PICK v \in Writers : AppendLedger(v) /\ Step(v) /\ \E i \in pending[v] : m = <<v, i>>
      BY <2>1, PromisedBy
    <3>2. pc[v] # pc'[v]
      BY <3>1, RequestsAssumption DEF AppendLedger, At, StoreNext, Goto, TypeOK, Requests
    <3>3. v = w
      BY <3>2, StepFrame DEF StepOf, Requests
    <3> QED
      BY <3>1, <3>3
  <2>2. ASSUME m \in entry PROVE Promised(m)'
    BY <2>2, AppendPromises
  <2> QED
    BY <2>1, <2>2, PromisesKept
<1>5. ASSUME NEW m \in MemoryIds
      PROVE  /\ LifeOf(m)' = IF m \in entry THEN "promised" ELSE LifeOf(m)
             /\ m \in entry => LifeOf(m) = "unborn"
  <2>1. CASE m \in entry
    <3>1. memories[m] = Nil /\ m[2] \in pending[m[1]]
      BY <2>1 DEF LifeOfWrite
    <3> QED
      BY <1>1, <1>3, <1>4, <2>1, <3>1 DEF LifeOf
  <2>2. CASE m \notin entry
    BY <1>1, <1>4, <2>2, LifeByRow
  <2> QED
    BY <2>1, <2>2
<1>6. [m \in MemoryIds |-> LifeOf(m)]'
        = [m \in MemoryIds |-> IF m \in entry THEN "promised" ELSE [n \in MemoryIds |-> LifeOf(n)][m]]
  BY <1>5
<1>7. [m \in MemoryIds |-> IF Promised(m) THEN user[m[1]] ELSE Nil]'
        = [m \in MemoryIds |-> IF m \in entry THEN user[w]
             ELSE [n \in MemoryIds |-> IF Promised(n) THEN user[n[1]] ELSE Nil][m]]
  <2>1. \A m \in entry : m[1] = w
    OBVIOUS
  <2> HIDE DEF entry
  <2> QED
    BY <1>1, <1>4, <2>1
<1>8. entry \in SUBSET Lifecycle!In("unborn")
  BY <1>2, <1>5 DEF Lifecycle!In
<1> HIDE DEF entry
<1>9. PICK c \in Customers : c = user[w]
  BY <1>1
<1> PICK S : S = entry
  OBVIOUS
<1>10. Lifecycle!Promise(c, S)
  <2>1. S \subseteq Lifecycle!In("unborn") /\ versions' = versions
    BY <1>1, <1>8, <1>9
  <2> QED
    BY <1>2, <1>6, <1>7, <1>9, <2>1 DEF Lifecycle!Promise
<1>11. S \in SUBSET Lifecycle!In("unborn")
  BY <1>8, <1>9
<1> QED
  BY <1>10, <1>11 DEF Lifecycle!Next

LEMMA Stores ==
  ASSUME TypeInv, LifecycleInv, [Next]_vars, NEW w \in Writers, InsertMemory(w), Step(w)
  PROVE  Lifecycle!Next
<1> w \in Requests \ Sweepers /\ TypeOK /\ LifeOfWrite(w)
  BY RequestsAssumption DEF Requests, TypeInv, LifecycleInv, LifeInv
<1>1. PICK i \in pending[w] :
        /\ memories' = [memories EXCEPT ![<<w, i>>] =
                          [customer |-> user[w], active |-> TRUE, superseded_by |-> Nil]]
        /\ pending' = [pending EXCEPT ![w] = pending[w] \ {i}]
  BY DEF InsertMemory, StoreNext
<1>2. UNCHANGED <<ledger, versions, user>> /\ pc[w] = "insert_memory" /\ user[w] \in Customers
  BY DEF InsertMemory, At, TypeInv, Begun
<1> DEFINE n == <<w, i>>
<1>3. n \in MemoryIds /\ n[1] = w /\ n[2] = i
  BY DEF TypeOK, MemoryIds
<1>4. memories[n] = Nil /\ Promised(n)
  BY <1>2 DEF LifeOfWrite, LifecycleInv, PendingPromised, Storing
<1>5. memories'[n] # Nil /\ memories'[n].active
  <2>1. [customer |-> user[w], active |-> TRUE, superseded_by |-> Nil] \in Memory
    BY <1>2 DEF Memory
  <2> QED
    BY <1>1, <1>3, <2>1, NilAssumption DEF TypeOK
<1>6. n[2] \in pending[n[1]]
  BY <1>3
<1> HIDE DEF n
<1>7. LifeOf(n) = "promised" /\ LifeOf(n)' = "active"
  BY <1>4, <1>5, <1>6 DEF LifeOf
<1>8. \A m : Promised(m)' <=> Promised(m)
  BY <1>2 DEF Promised
<1>9. ASSUME NEW m \in MemoryIds, m # n PROVE LifeOf(m)' = LifeOf(m)
  <2>1. memories'[m] = memories[m]
    BY <1>1, <1>9 DEF TypeOK, n
  <2>2. m[2] \in pending'[m[1]] <=> m[2] \in pending[m[1]]
    <3>1. PICK v \in Writers, j \in 1 .. MaxFacts : m = <<v, j>>
      BY DEF MemoryIds
    <3> QED
      BY <1>1, <1>9, <3>1 DEF n, TypeOK
  <2> QED
    BY <1>8, <2>1, <2>2, LifeByRow
<1>10. [m \in MemoryIds |-> LifeOf(m)]' = [[m \in MemoryIds |-> LifeOf(m)] EXCEPT ![n] = "active"]
  BY <1>3, <1>7, <1>9
<1>11. [m \in MemoryIds |-> IF Promised(m) THEN user[m[1]] ELSE Nil]'
        = [m \in MemoryIds |-> IF Promised(m) THEN user[m[1]] ELSE Nil]
  BY <1>2, <1>8
<1>12. Lifecycle!Store(n)
  BY <1>2, <1>3, <1>7, <1>10, <1>11 DEF Lifecycle!Store
<1> QED
  BY <1>3, <1>12 DEF Lifecycle!Next

LEMMA Forgets ==
  ASSUME TypeInv, LifecycleInv, NEW f \in Forgetters, DeleteRows(f), Step(f), ~Postgres
  PROVE  Lifecycle!Next
<1> f \in Requests \ Sweepers /\ TypeOK
  BY RequestsAssumption DEF Requests, TypeInv
<1> DEFINE c == user[f]
           E == {m \in MemoryIds : memories[m] # Nil /\ memories[m].customer = c}
<1>1. /\ c \in Customers /\ UNCHANGED <<ledger, versions, user, pending>>
      /\ memories' = [m \in MemoryIds |-> IF m \in E THEN Nil ELSE memories[m]]
  BY DEF DeleteRows, At, TypeInv, Begun, locals
<1>2. \A m : Promised(m)' <=> Promised(m)
  BY <1>1 DEF Promised
<1>3. ASSUME NEW m \in E PROVE LifeOf(m)' = "erased"
  <2>1. memories'[m] = Nil
    BY <1>1
  <2>2. Promised(m)
    BY DEF LifecycleInv, LedgerFirst
  <2>3. m[2] \notin pending[m[1]]
    <3>1. PICK v \in Writers, j \in 1 .. MaxFacts : m = <<v, j>>
      BY DEF MemoryIds
    <3>2. LifeOfWrite(v)
      BY DEF LifecycleInv, LifeInv
    <3> QED
      BY <3>1, <3>2 DEF LifeOfWrite
  <2> QED
    BY <1>1, <1>2, <2>1, <2>2, <2>3 DEF LifeOf
<1>4. ASSUME NEW m \in MemoryIds \ E PROVE LifeOf(m)' = LifeOf(m)
  BY <1>1, <1>2, LifeByRow
<1> DEFINE ownerOf == [m \in MemoryIds |-> IF Promised(m) THEN user[m[1]] ELSE Nil]
           stateOf == [m \in MemoryIds |-> LifeOf(m)]
<1>5. \A m \in MemoryIds : m \in E <=> (ownerOf[m] = c /\ stateOf[m] \in {"active", "retired"})
  <2> SUFFICES ASSUME NEW m \in MemoryIds
               PROVE  m \in E <=> (ownerOf[m] = c /\ stateOf[m] \in {"active", "retired"})
    OBVIOUS
  <2>1. memories[m] # Nil <=> stateOf[m] \in {"active", "retired"}
    BY DEF LifeOf
  <2>2. memories[m] # Nil => Promised(m) /\ memories[m].customer = user[m[1]]
    BY DEF LifecycleInv, LedgerFirst, ForgetInv, OwnRows
  <2> QED
    BY <2>1, <2>2
<1>6. ownerOf' = ownerOf
  BY <1>1, <1>2
<1>7. stateOf' = [m \in MemoryIds |-> IF m \in E THEN "erased" ELSE stateOf[m]]
  BY <1>3, <1>4
<1>8. Lifecycle!Stored(c) = E
  BY <1>5 DEF Lifecycle!Stored
<1>9. Lifecycle!Forget(c)
  <2> HIDE DEF E, c
  <2> QED
    BY <1>1, <1>6, <1>7, <1>8 DEF Lifecycle!Forget
<1> QED
  BY <1>1, <1>9 DEF Lifecycle!Next

\* Every other step of a request retires rows or stutters.
LEMMA RetiringSteps ==
  ASSUME TypeInv, LifecycleInv, [Next]_vars, NEW r \in Requests, Step(r),
         r \in Writers => ~BumpVersion(r) /\ ~AppendLedger(r) /\ ~InsertMemory(r),
         r \in Forgetters => ~DeleteRows(r) \/ Postgres
  PROVE  Lifecycle!Next \/ UNCHANGED Lifecycle!lifecycle
<1>1. UNCHANGED <<versions, ledger>> /\ (pending' = pending \/ (r \in Writers /\ ListExisting(r)))
  BY OthersKeepLedger, WriteKeepsLedger
<1> TypeOK
  BY DEF TypeInv
<1>2. ASSUME NEW m \in MemoryIds
      PROVE  \/ memories'[m] = memories[m]
             \/ memories[m] # Nil /\ memories'[m] # Nil /\ ~memories'[m].active
  <2>1. ASSUME NEW n \in MemoryIds, NEW by \in MemoryIds, memories' = Superseded(n, by)
        PROVE  \/ memories'[m] = memories[m]
               \/ memories[m] # Nil /\ memories'[m] # Nil /\ ~memories'[m].active
    BY <2>1, SupersededRows
  <2>2. CASE r \in Writers /\ Supersede(r)
    <3>1. PICK n \in todo[r], i \in pending[r] :
            memories' = memories \/ memories' = Superseded(n, <<r, i>>)
      BY <2>2 DEF Supersede
    <3>2. n \in MemoryIds /\ <<r, i>> \in MemoryIds
      BY <2>2 DEF TypeOK, MemoryIds
    <3> QED
      BY <2>1, <3>1, <3>2
  <2>3. CASE r \in Sweepers /\ Expire(r)
    <3>1. PICK n \in todo[r] : memories' = Superseded(n, n)
      BY <2>3 DEF Expire
    <3>2. n \in MemoryIds
      BY DEF TypeOK
    <3> QED
      BY <2>1, <3>1, <3>2
  <2>4. CASE r \in Forgetters /\ DeleteRows(r)
    BY <2>4 DEF DeleteRows
  <2> QED
    BY <2>2, <2>3, <2>4, StepRows
<1>3. ASSUME NEW m \in MemoryIds, Promised(m)
      PROVE  user'[m[1]] = user[m[1]] /\ (m[2] \in pending'[m[1]] <=> m[2] \in pending[m[1]])
  <2>1. PICK w \in Writers, i \in 1 .. MaxFacts : m = <<w, i>>
    BY DEF MemoryIds
  <2>2. w \in Requests /\ pc[w] \notin BeforeAppend
    BY <1>3, <2>1 DEF Requests, LifecycleInv, LifeInv, LifeOfWrite
  <2>3. user'[w] = user[w]
    BY <2>2, BegunKept DEF BeforeAppend
  <2>4. pending'[w] = pending[w]
    BY <1>1, <2>2 DEF ListExisting, At, BeforeAppend, TypeOK
  <2> QED
    BY <2>1, <2>3, <2>4
<1>4. \A m : Promised(m)' <=> Promised(m)
  BY <1>1 DEF Promised
<1>5. \A m \in MemoryIds :
        /\ Promised(m)' <=> Promised(m)
        /\ Promised(m) => user'[m[1]] = user[m[1]]
        /\ Promised(m) => (m[2] \in pending'[m[1]] <=> m[2] \in pending[m[1]])
        /\ \/ memories'[m] = memories[m]
           \/ memories[m] # Nil /\ memories'[m] # Nil /\ ~memories'[m].active
  BY <1>2, <1>3, <1>4
<1> QED
  BY <1>1, <1>5, RetiresOrStutters

LEMMA LifecycleSteps ==
  ASSUME TypeInv, LifecycleInv, [Next \/ RunOnce]_vars
  PROVE  Lifecycle!Next \/ UNCHANGED Lifecycle!lifecycle
<1>1. ASSUME NEW r \in Requests, Step(r), [Next]_vars
      PROVE  Lifecycle!Next \/ UNCHANGED Lifecycle!lifecycle
  <2>1. CASE r \in Writers /\ (BumpVersion(r) \/ AppendLedger(r) \/ InsertMemory(r))
    BY <1>1, <2>1, Ticks, Promises, Stores
  <2>2. CASE r \in Forgetters /\ DeleteRows(r) /\ ~Postgres
    BY <1>1, <2>2, Forgets
  <2>3. CASE /\ r \in Writers => ~BumpVersion(r) /\ ~AppendLedger(r) /\ ~InsertMemory(r)
             /\ r \in Forgetters => ~DeleteRows(r) \/ Postgres
    BY <1>1, <2>3, RetiringSteps
  <2> QED
    BY <2>1, <2>2, <2>3
<1>2. ASSUME UNCHANGED <<memories, ledger, versions, pending>>, [Next]_vars
      PROVE  Lifecycle!Next \/ UNCHANGED Lifecycle!lifecycle
  <2>1. ASSUME NEW m \in MemoryIds, Promised(m) PROVE user'[m[1]] = user[m[1]]
    <3>1. PICK w \in Writers, i \in 1 .. MaxFacts : m = <<w, i>>
      BY DEF MemoryIds
    <3>2. w \in Requests /\ pc[w] \notin BeforeAppend
      BY <2>1, <3>1 DEF Requests, LifecycleInv, LifeInv, LifeOfWrite
    <3> QED
      BY <1>2, <3>1, <3>2, BegunKept DEF BeforeAppend
  <2>2. \A m : Promised(m)' <=> Promised(m)
    BY <1>2 DEF Promised
  <2> QED
    BY <1>2, <2>1, <2>2, RetiresOrStutters
<1>3. CASE RunOnce
  <2>1. UNCHANGED <<ledger, versions, pending, user>>
    BY <1>3 DEF RunOnce, locals
  <2>2. \A m : Promised(m)' <=> Promised(m)
    BY <2>1 DEF Promised
  <2>3. ASSUME NEW m \in MemoryIds
        PROVE  \/ memories'[m] = memories[m]
               \/ memories[m] # Nil /\ memories'[m] # Nil /\ ~memories'[m].active
    <3>1. TypeOK
      BY DEF TypeInv
    <3>2. CASE memories[m] # Nil /\ memories'[m] = [memories[m] EXCEPT !.active = FALSE, !.superseded_by = m]
      <4>1. memories[m] \in Memory
        BY <3>1, <3>2 DEF TypeOK
      <4>2. memories'[m] \in Memory /\ ~memories'[m].active
        BY <3>2, <4>1 DEF Memory
      <4> QED
        BY <3>2, <4>2, NilAssumption
    <3> QED
      BY <1>3, <3>1, <3>2, RunOnceRows
  <2> QED
    BY <2>1, <2>2, <2>3, RetiresOrStutters
<1>4. CASE Call
  BY <1>2, <1>4, CallFrame DEF stores, TypeInv, Next
<1>5. CASE Environment \/ Quiet \/ UNCHANGED vars
  BY <1>2, <1>5, QuietStores DEF Next, vars
<1> QED
  BY <1>1, <1>3, <1>4, <1>5 DEF Next

LEMMA LifecycleInit == Init => Lifecycle!Init
<1> SUFFICES ASSUME Init PROVE Lifecycle!Init
  OBVIOUS
<1>1. \A m \in MemoryIds : ~Promised(m) /\ LifeOf(m) = "unborn"
  BY DEF Init, Promised, LifeOf
<1>2. versions = [c \in Customers |-> 0]
  BY DEF Init
<1> QED
  BY <1>1, <1>2 DEF Lifecycle!Init

\* The memory service, and the compaction worker beside it, implement the life
\* cycle of MemoryLifecycle.
THEOREM ServiceImplementsLifecycle == CompactingSpec => LifecycleSpec
<1>1. TypeInv /\ LifecycleInv /\ [Next \/ RunOnce]_vars => [Lifecycle!Next]_(Lifecycle!lifecycle)
  BY LifecycleSteps
<1> QED
  BY <1>1, LifecycleInit, LifecycleCorrect, PTL DEF CompactingSpec, LifecycleSpec, Lifecycle!Spec

-----------------------------------------------------------------------------
(* Crashes and losses of Redis.                                            *)

Losses == Crash \/ LoseRedis

-----------------------------------------------------------------------------
(* What a loss leaves.                                                     *)

\* A crash ends the requests that run; no request starts or forgets by a loss.
LEMMA LossFrame ==
  ASSUME TypeOK, Losses
  PROVE  /\ UNCHANGED locals
         /\ \A r \in Requests :
              /\ pc'[r] \in {pc[r], "failed"}
              /\ pc'[r] = "idle" <=> pc[r] = "idle"
         /\ memories' \in {memories, NoRows} /\ points' \in {points, NoRows}
         /\ Postgres => memories' = memories
         /\ Qdrant => points' = points
<1>1. CASE Crash
  BY <1>1 DEF Crash, Survives, TypeOK, Returned
<1>2. CASE LoseRedis
  BY <1>2 DEF LoseRedis
<1> QED
  BY <1>1, <1>2 DEF Losses

LEMMA LossType ==
  ASSUME TypeInv, Losses
  PROVE  TypeInv'
<1> TypeOK
  BY DEF TypeInv
<1>1. "failed" \in Calls
  BY DEF Calls, Returned
<1>2. /\ NoRows \in [MemoryIds -> Memory \cup {Nil}]
      /\ NoRows \in [MemoryIds -> Customers \cup {Nil}]
      /\ [c \in Customers |-> Nil] \in [Customers -> (SUBSET MemoryIds) \cup {Nil}]
      /\ [c \in Customers |-> 0] \in [Customers -> Nat]
  BY DEF NoRows
<1>3. ASSUME Crash PROVE TypeOK'
  <2>1. pc' \in [Requests -> Calls]
    BY <1>1, <1>3 DEF Crash, TypeOK
  <2>2. ledger' \in Seq([user : Customers, version : Nat, memory_ids : SUBSET MemoryIds])
    BY <1>3 DEF Crash
  <2>3. /\ memories' = memories \/ memories' = NoRows
        /\ points' = points \/ points' = NoRows
        /\ hot' = hot \/ hot' = [c \in Customers |-> Nil]
        /\ versions' = versions \/ versions' = [c \in Customers |-> 0]
        /\ customers' = customers \/ customers' = {}
    BY <1>3 DEF Crash, Survives
  <2>4. /\ memories' \in [MemoryIds -> Memory \cup {Nil}]
        /\ points' \in [MemoryIds -> Customers \cup {Nil}]
        /\ hot' \in [Customers -> (SUBSET MemoryIds) \cup {Nil}]
        /\ versions' \in [Customers -> Nat]
        /\ customers' \subseteq Customers
    <3>1. /\ memories \in [MemoryIds -> Memory \cup {Nil}]
          /\ points \in [MemoryIds -> Customers \cup {Nil}]
          /\ hot \in [Customers -> (SUBSET MemoryIds) \cup {Nil}]
          /\ versions \in [Customers -> Nat]
          /\ customers \subseteq Customers
      BY DEF TypeOK
    <3> QED
      BY <1>2, <2>3, <3>1, Zenon
  <2>5. bus' \subseteq Customers \X Nat /\ loop' \in Requests \cup {Nil} /\ UNCHANGED locals
    BY <1>3 DEF Crash
  <2> QED
    BY <2>1, <2>2, <2>4, <2>5 DEF TypeOK, locals
<1>4. ASSUME LoseRedis PROVE TypeOK'
  <2>1. /\ hot' \in [Customers -> (SUBSET MemoryIds) \cup {Nil}]
        /\ versions' \in [Customers -> Nat]
        /\ bus' \subseteq Customers \X Nat
    BY <1>2, <1>4 DEF LoseRedis
  <2>2. UNCHANGED <<customers, memories, points, ledger, loop, pc, locals>>
    BY <1>4 DEF LoseRedis
  <2> QED
    BY <2>1, <2>2 DEF TypeOK, locals
<1>5. TypeOK'
  BY <1>3, <1>4 DEF Losses
<1>6. Begun'
  BY LossFrame DEF TypeInv, Begun, locals
<1> QED
  BY <1>5, <1>6 DEF TypeInv

\* The invariant of type correctness, with losses.
THEOREM RecoveryTypeCorrect == RecoverySpec => []TypeInv
<1>1. TypeInv /\ [Next \/ Crash \/ LoseRedis]_vars => TypeInv'
  BY StepType, BegunStep, LossType DEF TypeInv, Losses
<1> QED
  BY <1>1, InitType, PTL DEF RecoverySpec

-----------------------------------------------------------------------------
(* Forgets through losses.                                                 *)

LEMMA LossForget ==
  ASSUME TypeInv, ForgetInv, Losses
  PROVE  ForgetInv'
<1>1. /\ UNCHANGED locals
      /\ \A r \in Requests :
           /\ pc'[r] \in {pc[r], "failed"}
           /\ pc'[r] = "idle" <=> pc[r] = "idle"
      /\ \A m \in MemoryIds : memories'[m] \in {memories[m], Nil} /\ points'[m] \in {points[m], Nil}
  BY LossFrame DEF TypeInv, NoRows
<1>2. OwnRows'
  BY <1>1, MemoryIdsWriters DEF ForgetInv, OwnRows, locals
<1>3. BeforeReturned'
  BY <1>1 DEF ForgetInv, BeforeReturned, Returned, locals
<1>4. GoneInOrder'
  <2> SUFFICES ASSUME NEW f \in Forgetters, NEW w \in Prior(f)', NEW i \in 1 .. MaxFacts
               PROVE  /\ pc'[f] \in {"delete_points", "done"} => memories'[<<w, i>>] = Nil
                      /\ pc'[f] = "done" => points'[<<w, i>>] = Nil
    BY DEF GoneInOrder
  <2>1. w \in Prior(f) /\ w \in Writers /\ f \in Requests
    BY <1>1 DEF Prior, locals, Requests
  <2>2. <<w, i>> \in MemoryIds
    BY <2>1 DEF MemoryIds
  <2>3. /\ memories'[<<w, i>>] \in {memories[<<w, i>>], Nil}
        /\ points'[<<w, i>>] \in {points[<<w, i>>], Nil}
        /\ pc'[f] \in {pc[f], "failed"}
    BY <1>1, <2>1, <2>2
  <2> QED
    BY <2>1, <2>3 DEF ForgetInv, GoneInOrder
<1> QED
  BY <1>2, <1>3, <1>4 DEF ForgetInv

LEMMA ForgetRecovers == RecoverySpec => []ForgetInv
<1>1. Init => ForgetInv
  BY DEF Init, ForgetInv, OwnRows, BeforeReturned, GoneInOrder, Requests
<1>2. TypeInv /\ ForgetInv /\ [Next \/ Crash \/ LoseRedis]_vars => ForgetInv'
  BY OwnRowsStep, BeforeReturnedStep, GoneInOrderStep, LossForget DEF ForgetInv, Losses
<1> QED
  BY <1>1, <1>2, RecoveryTypeCorrect, PTL DEF RecoverySpec

\* No crash and no loss brings back what a forget that returned has removed, on any
\* choice of stores (gdpr.py:3).
THEOREM ForgetsSurviveLosses == RecoverySpec => []ForgottenGone
<1>1. ForgetInv => ForgottenGone
  BY DEF ForgetInv, GoneInOrder, Prior, ForgottenGone
<1> QED
  BY <1>1, ForgetRecovers, PTL

-----------------------------------------------------------------------------
(* Rows and their points.                                                  *)

\* A write about to insert a row has stored its point.
PointFirst ==
  \A w \in Writers : pc[w] = "insert_memory" =>
    \A i \in pending[w] : Least(pending[w], i) => points[<<w, i>>] # Nil

\* On Postgres no forget gets as far as the points.
NoPointDeleted == \A f \in Forgetters : pc[f] # "delete_points"

\* Every row has its point.
RowsHavePoints == \A m \in MemoryIds : memories[m] # Nil => points[m] # Nil

SearchInv == Postgres /\ Qdrant => PointFirst /\ NoPointDeleted /\ RowsHavePoints

LEMMA NoPointDeletedStep ==
  ASSUME TypeInv, Postgres, NoPointDeleted, [Next]_vars
  PROVE  NoPointDeleted'
<1> SUFFICES ASSUME NEW f \in Forgetters PROVE pc'[f] # "delete_points"
  BY DEF NoPointDeleted
<1> f \in Requests /\ TypeOK /\ pc[f] # "delete_points"
  BY DEF Requests, TypeInv, NoPointDeleted
<1>1. CASE Step(f)
  <2> USE DEF TypeOK, Goto, Fail, At
  <2>1. CASE ForgetHot(f)
    BY <2>1 DEF ForgetHot
  <2>2. CASE DeleteRows(f) \/ DeletePoints(f)
    BY <2>2 DEF DeleteRows, DeletePoints
  <2>3. CASE Raise(f)
    BY <2>3 DEF Raise
  <2> QED
    BY <1>1, <2>1, <2>2, <2>3, ClassOfStep DEF ForgetStep
<1>2. ASSUME NEW r \in Requests \ {f}, Step(r)
      PROVE  pc'[f] # "delete_points"
  BY <1>2, StepFrame DEF StepOf
<1>3. CASE Call
  BY <1>3, CallFrame DEF FirstCalls
<1>4. CASE Environment \/ Quiet \/ UNCHANGED vars
  BY <1>4, QuietStores
<1> QED
  BY <1>1, <1>2, <1>3, <1>4 DEF Next

\* Nothing but a forget takes a point away.
LEMMA PointKept ==
  ASSUME TypeInv, NoPointDeleted, [Next]_vars, NEW m \in MemoryIds, points[m] # Nil
  PROVE  points'[m] # Nil
<1> TypeOK
  BY DEF TypeInv
<1>1. ASSUME NEW w \in Writers, Step(w), UpsertPoint(w)
      PROVE  points'[m] # Nil
  <2>1. w \in Requests \ Sweepers /\ pc[w] = "upsert_point"
    BY <1>1, RequestsAssumption DEF Requests, UpsertPoint, At
  <2>2. user[w] # Nil
    BY <2>1, RequestsAssumption DEF TypeInv, Begun
  <2> QED
    BY <1>1, <2>2 DEF UpsertPoint, TypeOK
<1>2. ASSUME NEW f \in Forgetters
      PROVE  ~DeletePoints(f)
  BY DEF DeletePoints, At, NoPointDeleted
<1>3. Call => points' = points
  BY CallFrame DEF stores
<1> QED
  BY <1>1, <1>2, <1>3, StepRows, QuietStores DEF Next

\* A write comes to the insert from the upsert of the same point.
LEMMA InsertFrom ==
  ASSUME TypeInv, NEW w \in Writers, Step(w), pc'[w] = "insert_memory"
  PROVE  UpsertPoint(w)
<1> w \in Requests /\ TypeOK
  BY DEF Requests, TypeInv
<1> USE DEF TypeOK, Goto, Fail, At
<1>1. CASE GetCustomer(w) \/ UpsertCustomer(w) \/ Extract(w)
  BY <1>1 DEF GetCustomer, UpsertCustomer, Extract
<1>2. CASE ListExisting(w) \/ CurrentVersion(w) \/ BumpVersion(w) \/ AppendLedger(w)
  BY <1>2 DEF ListExisting, CurrentVersion, BumpVersion, AppendLedger, StoreNext
<1>3. CASE Supersede(w) \/ Embed(w)
  BY <1>3 DEF Supersede, Embed
<1>4. CASE InsertMemory(w) \/ InvalidateHot(w) \/ Publish(w)
  BY <1>4 DEF InsertMemory, StoreNext, InvalidateHot, Publish
<1>5. CASE Raise(w)
  BY <1>5 DEF Raise
<1> QED
  BY <1>1, <1>2, <1>3, <1>4, <1>5, ClassOfStep DEF WriteStep

LEMMA PointFirstStep ==
  ASSUME TypeInv, PointFirst, NoPointDeleted, [Next]_vars
  PROVE  PointFirst'
<1> SUFFICES ASSUME NEW w \in Writers, pc'[w] = "insert_memory",
                    NEW i \in pending'[w], Least(pending'[w], i)
             PROVE  points'[<<w, i>>] # Nil
  BY DEF PointFirst, Least
<1> w \in Requests \ Sweepers /\ TypeOK
  BY RequestsAssumption DEF Requests, TypeInv
<1>1. CASE Step(w)
  <2>1. UpsertPoint(w)
    BY <1>1, InsertFrom
  <2>2. PICK j \in pending[w] : Least(pending[w], j) /\ points' = [points EXCEPT ![<<w, j>>] = user[w]]
    BY <2>1 DEF UpsertPoint
  <2>3. pending' = pending
    BY <2>1 DEF UpsertPoint, locals
  <2>4. i \in 1 .. MaxFacts /\ j \in 1 .. MaxFacts
    BY <2>2, <2>3 DEF TypeOK
  <2>5. i = j
    BY <2>2, <2>3, <2>4, FactsAssumption DEF Least
  <2>6. user[w] # Nil
    BY <2>1, RequestsAssumption DEF UpsertPoint, At, TypeInv, Begun
  <2> QED
    BY <2>2, <2>4, <2>5, <2>6 DEF TypeOK, MemoryIds
<1>2. CASE ~Step(w)
  <2>1. pc[w] = "insert_memory" /\ pending'[w] = pending[w]
    <3>1. ASSUME NEW r \in Requests \ {w}, Step(r)
          PROVE  pc[w] = "insert_memory" /\ pending'[w] = pending[w]
      <4>1. pc'[w] = pc[w]
        BY <3>1, StepFrame DEF StepOf
      <4>2. CASE r \in Writers
        BY <3>1, <4>1, <4>2, WriteKeepsLedger DEF ListExisting, AppendLedger, InsertMemory,
          StoreNext, TypeOK
      <4>3. CASE r \notin Writers
        BY <3>1, <4>1, <4>3, OthersKeepLedger
      <4> QED
        BY <4>2, <4>3
    <3>2. CASE Call
      BY <3>2, CallFrame DEF FirstCalls
    <3>3. CASE Environment \/ Quiet \/ UNCHANGED vars
      BY <3>3, QuietStores
    <3> QED
      BY <1>2, <3>1, <3>2, <3>3 DEF Next
  <2>2. <<w, i>> \in MemoryIds
    BY <2>1 DEF TypeOK, MemoryIds
  <2>3. points[<<w, i>>] # Nil
    BY <2>1 DEF PointFirst
  <2> QED
    BY <2>2, <2>3, PointKept
<1> QED
  BY <1>1, <1>2

LEMMA RowsHavePointsStep ==
  ASSUME TypeInv, PointFirst, NoPointDeleted, RowsHavePoints, [Next]_vars
  PROVE  RowsHavePoints'
<1> SUFFICES ASSUME NEW m \in MemoryIds, memories'[m] # Nil
             PROVE  points'[m] # Nil
  BY DEF RowsHavePoints
<1>1. CASE memories[m] # Nil
  BY <1>1, PointKept DEF RowsHavePoints
<1>2. CASE memories[m] = Nil
  <2>1. PICK w \in Writers, i \in 1 .. MaxFacts : m = <<w, i>>
    BY DEF MemoryIds
  <2>2. InsertMemory(w)
    BY <1>2, <2>1, RowBorn
  <2>3. Least(pending[w], i) /\ pc[w] = "insert_memory"
    <3>1. PICK j \in pending[w] :
            /\ Least(pending[w], j)
            /\ memories' = [memories EXCEPT ![<<w, j>>] =
                              [customer |-> user[w], active |-> TRUE, superseded_by |-> Nil]]
      BY <2>2 DEF InsertMemory
    <3>2. j = i
      BY <1>2, <2>1, <3>1 DEF TypeInv, TypeOK
    <3> QED
      BY <2>2, <3>1, <3>2 DEF InsertMemory, At
  <2>4. points[m] # Nil
    BY <2>1, <2>3 DEF PointFirst, Least
  <2> QED
    BY <2>4, PointKept
<1> QED
  BY <1>1, <1>2

\* A loss takes neither rows nor points, and puts no request anywhere but at its
\* end.
LEMMA LossSearch ==
  ASSUME TypeInv, SearchInv, Losses
  PROVE  SearchInv'
<1> SUFFICES ASSUME Postgres, Qdrant PROVE PointFirst' /\ NoPointDeleted' /\ RowsHavePoints'
  BY DEF SearchInv
<1> Writers \cup Forgetters \subseteq Requests /\ PointFirst /\ NoPointDeleted /\ RowsHavePoints
  BY DEF Requests, SearchInv
<1>1. /\ UNCHANGED <<memories, points, pending>>
      /\ \A r \in Requests : pc'[r] \in {pc[r], "failed"}
  BY LossFrame DEF TypeInv, locals
<1>2. PointFirst'
  BY <1>1 DEF PointFirst
<1>3. NoPointDeleted'
  BY <1>1 DEF NoPointDeleted
<1>4. RowsHavePoints'
  BY <1>1 DEF RowsHavePoints
<1> QED
  BY <1>2, <1>3, <1>4

\* With rows on Postgres and points on Qdrant every row has its point, under its
\* customer, so that a search can find it, whatever is lost and whichever call
\* fails (manager.py:274-284).
THEOREM RowsStaySearchable == RecoverySpec => []RowsAreSearchable
<1>1. Init => SearchInv
  BY DEF Init, SearchInv, PointFirst, NoPointDeleted, RowsHavePoints, Requests
<1>2. TypeInv /\ SearchInv /\ [Next \/ Crash \/ LoseRedis]_vars => SearchInv'
  <2>1. TypeInv /\ SearchInv /\ [Next]_vars => SearchInv'
    BY NoPointDeletedStep, PointFirstStep, RowsHavePointsStep DEF SearchInv
  <2> QED
    BY <2>1, LossSearch DEF Losses
<1>3. ForgetInv /\ SearchInv => RowsAreSearchable
  BY DEF ForgetInv, OwnRows, SearchInv, RowsHavePoints, RowsAreSearchable
<1> QED
  BY <1>1, <1>2, <1>3, ForgetRecovers, RecoveryTypeCorrect, PTL DEF RecoverySpec

-----------------------------------------------------------------------------
(* Writes and searches through losses.                                     *)

\* A write cut short by a crash has stored a part; one that returned keeps it all.
LEMMA LossDurable ==
  ASSUME TypeInv, Durable, Losses, Postgres, Qdrant
  PROVE  Durable'
<1> SUFFICES ASSUME NEW w \in Writers, ~ForgetOverlaps(w)' PROVE StoredSoFar(w)'
  BY DEF Durable
<1>1. /\ UNCHANGED <<customers, memories, points>> /\ UNCHANGED locals
      /\ \A r \in Requests : pc'[r] \in {pc[r], "failed"} /\ (pc'[r] = "idle" <=> pc[r] = "idle")
  <2>1. customers' = customers
    BY DEF Losses, Crash, Survives, LoseRedis
  <2> QED
    BY <2>1, LossFrame DEF TypeInv
<1>2. w \in Requests /\ \A f \in Forgetters : f \in Requests
  BY DEF Requests
<1>3. StoredSoFar(w)
  BY <1>1, <1>2 DEF Durable, ForgetOverlaps, locals
<1>4. CASE pc'[w] = "failed"
  BY <1>4 DEF StoredSoFar, Received, Planning, Storing
<1>5. CASE pc'[w] = pc[w]
  <2>1. Planned(w)' = Planned(w)
    BY <1>1 DEF Planned, locals
  <2> QED
    BY <1>1, <1>3, <1>5, <2>1 DEF StoredSoFar, Least, locals
<1> QED
  BY <1>1, <1>2, <1>4, <1>5

LEMMA LossFound ==
  ASSUME TypeInv, Found, Losses
  PROVE  Found'
<1> SUFFICES ASSUME NEW s \in Searchers, NEW w \in Writers, Due(s, w)',
                    pc'[s] \in {"get_memories_by_ids", "done"}
             PROVE  Planned(w)' \subseteq listing'[s]
  BY DEF Found
<1>1. /\ UNCHANGED locals
      /\ \A r \in Requests : pc'[r] \in {pc[r], "failed"} /\ (pc'[r] = "idle" <=> pc[r] = "idle")
  BY LossFrame DEF TypeInv
<1>2. s \in Requests /\ w \in Requests /\ \A f \in Forgetters : f \in Requests
  BY DEF Requests
<1>3. pc'[s] = pc[s] /\ pc[w] = "done"
  BY <1>1, <1>2 DEF Due
<1>4. Due(s, w)
  BY <1>1, <1>2, <1>3 DEF Due, ForgetOverlaps, locals
<1>5. Planned(w)' = Planned(w) /\ listing' = listing
  BY <1>1 DEF Planned, locals
<1> QED
  BY <1>3, <1>4, <1>5 DEF Found

\* With rows on Postgres and points on Qdrant, a search that began after a write
\* returned finds what the write stored, across crashes and losses of Redis
\* (manager.py:370-405), as long as no customer has more points than a search returns.
THEOREM SearchesSurviveLosses ==
  ASSUME Postgres, Qdrant
  PROVE  RecoverySpec /\ []FewPoints => []SearchAfterWrite
<1>1. Init => Durable /\ Found
  BY DEF Init, Durable, StoredSoFar, Received, Planning, Storing, Found, Requests
<1>2. TypeInv /\ ForgetInv /\ FewPoints /\ Durable /\ Found /\ [Next \/ Crash \/ LoseRedis]_vars
        => (Durable /\ Found)'
  BY DurableStep, FoundStep, LossDurable, LossFound DEF Losses
<1>3. Found => SearchAfterWrite
  BY DEF Found, Due, SearchAfterWrite
<1> QED
  BY <1>1, <1>2, <1>3, ForgetRecovers, RecoveryTypeCorrect, PTL DEF RecoverySpec
=============================================================================
