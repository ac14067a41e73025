---------------------------- MODULE IdentityProofs ----------------------------
(***************************************************************************)
(* Theorems about IdentityResolver, for every set of requests and          *)
(* identifiers, every choice of backends and whatever calls raise.         *)
(***************************************************************************)
EXTENDS IdentityResolver, TLAPS

LEMMA CallsInCalls ==
  /\ {"idle", "write"} \subseteq Calls
  /\ WarmCalls \subseteq Calls /\ HotCalls \subseteq Calls
  /\ SemanticCalls \subseteq Calls /\ Returned \subseteq Calls
BY DEF Calls

-----------------------------------------------------------------------------
(* Type correctness.                                                       *)

LEMMA GotoType ==
  ASSUME TypeOK, NEW r \in Requests, NEW call \in Calls, Goto(r, call)
  PROVE  pc' \in [Requests -> Calls] /\ loop' \in Requests \cup {Nil}
<1>1. pc \in [Requests -> Calls] /\ "failed" \in Calls
  BY DEF TypeOK, Calls, Returned
<1>2. \A x \in Calls : [pc EXCEPT ![r] = x] \in [Requests -> Calls]
  BY <1>1
<1>3. loop' = Nil \/ loop' = r
  BY DEF Goto
<1> QED
  BY <1>1, <1>2, <1>3, Zenon DEF Goto

LEMMA FailType ==
  ASSUME TypeOK, NEW r \in Requests, Fail(r)
  PROVE  pc' \in [Requests -> Calls] /\ loop' \in Requests \cup {Nil}
BY DEF TypeOK, Fail, Calls, Returned

LEMMA ReturnType ==
  ASSUME TypeOK, NEW r \in Requests, Return(r)
  PROVE  pc' \in [Requests -> Calls] /\ loop' \in Requests \cup {Nil}
<1>1. (IF r \in Writers THEN "write" ELSE "done") \in Calls
  BY DEF Calls, Returned
<1> QED
  BY <1>1, GotoType DEF Return

\* A resolve that runs knows its identifier.
Named == \A r \in Resolvers : pc[r] # "idle" => identifier[r] \in Identifiers

TypeInv == TypeOK /\ Named

LEMMA ResolveType ==
  ASSUME TypeInv, NEW r \in Resolvers, ResolveStep(r)
  PROVE  TypeOK'
<1> r \in Requests /\ TypeOK
  BY DEF Requests, TypeInv
<1> USE CallsInCalls DEF WarmCalls, HotCalls, Returned
<1>1. CASE GetIdentifierCache(r)
  <2>1. id_cache[identifier[r]] \in Resolvers \cup {Nil}
    BY <1>1 DEF GetIdentifierCache, At, TypeInv, Named, TypeOK
  <2>2. (IF id_cache[identifier[r]] = Nil THEN "find_by_identifier" ELSE "get_customer") \in Calls
    OBVIOUS
  <2> QED
    BY <1>1, <2>1, <2>2, GotoType DEF GetIdentifierCache, TypeOK, stores, inputs
<1>2. CASE GetCustomer(r)
  BY <1>2, GotoType, ReturnType DEF GetCustomer, TypeOK, stores, inputs
<1>3. CASE FindByIdentifier(r)
  <2>1. pc' \in [Requests -> Calls] /\ loop' \in Requests \cup {Nil}
    BY <1>3, GotoType, FailType DEF FindByIdentifier
  <2>2. found' \in [Requests -> Resolvers \cup {Nil}]
    BY <1>3 DEF FindByIdentifier, TypeOK
  <2> QED
    BY <1>3, <2>1, <2>2 DEF FindByIdentifier, TypeOK, stores, inputs
<1>4. CASE UpsertCustomer(r)
  BY <1>4, GotoType DEF UpsertCustomer, TypeOK, inputs
<1>5. CASE AddIdentifier(r)
  <2>1. pc' \in [Requests -> Calls] /\ loop' \in Requests \cup {Nil}
    BY <1>5, GotoType, FailType DEF AddIdentifier
  <2> QED
    BY <1>5, <2>1 DEF AddIdentifier, TypeOK, inputs
<1>6. CASE SetIdentifierCache(r)
  BY <1>6, ReturnType DEF SetIdentifierCache, TypeOK, inputs
<1> QED
  BY <1>1, <1>2, <1>3, <1>4, <1>5, <1>6 DEF ResolveStep

LEMMA WriteType ==
  ASSUME TypeInv, NEW w \in Writers, WriteStep(w)
  PROVE  TypeOK'
<1> w \in Requests /\ TypeOK
  BY ResolverAssumption DEF Requests, TypeInv
<1> USE CallsInCalls DEF WarmCalls, SemanticCalls, Returned
<1>1. CASE PlanWrite(w)
  BY <1>1, GotoType DEF PlanWrite, TypeOK, stores, inputs
<1>2. CASE UpsertPoint(w)
  BY <1>2, GotoType DEF UpsertPoint, TypeOK, inputs
<1>3. CASE InsertMemory(w)
  BY <1>3, GotoType DEF InsertMemory, TypeOK, inputs
<1> QED
  BY <1>1, <1>2, <1>3 DEF WriteStep

LEMMA OperatorType ==
  ASSUME TypeInv, NEW o \in Operators, OperatorStep(o)
  PROVE  TypeOK'
<1> o \in Requests /\ TypeOK
  BY DEF Requests, TypeInv
<1> USE CallsInCalls DEF WarmCalls, HotCalls, SemanticCalls, Returned
<1>1. CASE AddIdentifier(o)
  <2>1. pc' \in [Requests -> Calls] /\ loop' \in Requests \cup {Nil}
    BY <1>1, GotoType, FailType DEF AddIdentifier
  <2> QED
    BY <1>1, <2>1 DEF AddIdentifier, TypeOK, inputs
<1>2. CASE SetIdentifierCache(o)
  BY <1>2, ReturnType DEF SetIdentifierCache, TypeOK, inputs
<1>3. CASE ForgetHot(o)
  BY <1>3, GotoType DEF ForgetHot, TypeOK, stores, inputs
<1>4. CASE DeleteCustomer(o)
  <2>1. (IF op[o] = "merge" THEN "invalidate" ELSE "delete_points") \in Calls
    OBVIOUS
  <2>2. pc' \in [Requests -> Calls] /\ loop' \in Requests \cup {Nil}
    BY <1>4, <2>1, GotoType, FailType DEF DeleteCustomer
  <2> QED
    BY <1>4, <2>2 DEF DeleteCustomer, TypeOK, inputs
<1>5. CASE DeletePoints(o)
  BY <1>5, GotoType DEF DeletePoints, TypeOK, inputs
<1>6. CASE MergeMemories(o)
  <2>1. pc' \in [Requests -> Calls] /\ loop' \in Requests \cup {Nil}
    BY <1>6, GotoType, FailType DEF MergeMemories
  <2> QED
    BY <1>6, <2>1 DEF MergeMemories, TypeOK, inputs
<1>7. CASE MergeIdentifiers(o)
  <2>1. pc' \in [Requests -> Calls] /\ loop' \in Requests \cup {Nil}
    BY <1>7, GotoType, FailType DEF MergeIdentifiers
  <2> QED
    BY <1>7, <2>1 DEF MergeIdentifiers, TypeOK, inputs
<1>8. CASE Invalidate(o)
  BY <1>8, GotoType DEF Invalidate, TypeOK, stores, inputs
<1> QED
  BY <1>1, <1>2, <1>3, <1>4, <1>5, <1>6, <1>7, <1>8 DEF OperatorStep

-----------------------------------------------------------------------------
(* Frames: what a step of one request, or a call, may change.              *)

\* A step of r moves r alone, and returned requests take no step.
StepOf(r) ==
  /\ pc[r] \notin {"idle", "done", "failed"} /\ pc'[r] # "idle"
  /\ \A q \in Requests \ {r} : pc'[q] = pc[q] /\ found'[q] = found[q]
  /\ UNCHANGED inputs
  /\ r \in Operators => UNCHANGED found

LEMMA GotoFrame ==
  ASSUME TypeOK, NEW r \in Requests, NEW call, call # "idle",
         Goto(r, call) \/ Fail(r)
  PROVE  pc'[r] # "idle" /\ \A q \in Requests \ {r} : pc'[q] = pc[q]
BY DEF TypeOK, Goto, Fail

LEMMA StepFrame ==
  ASSUME TypeOK, NEW r \in Requests, Step(r)
  PROVE  StepOf(r)
<1> USE DEF StepOf, At, TypeOK
<1>1. CASE r \in Resolvers /\ ResolveStep(r)
  <2> r \notin Operators
    BY <1>1, ResolverAssumption
  <2>1. CASE GetIdentifierCache(r)
    BY <2>1, GotoFrame DEF GetIdentifierCache
  <2>2. CASE GetCustomer(r)
    BY <2>2, GotoFrame DEF GetCustomer, Return
  <2>3. CASE FindByIdentifier(r)
    BY <2>3, GotoFrame DEF FindByIdentifier
  <2>4. CASE UpsertCustomer(r)
    BY <2>4, GotoFrame DEF UpsertCustomer
  <2>5. CASE AddIdentifier(r)
    BY <2>5, GotoFrame DEF AddIdentifier
  <2>6. CASE SetIdentifierCache(r)
    BY <2>6, GotoFrame DEF SetIdentifierCache, Return
  <2> QED
    BY <1>1, <2>1, <2>2, <2>3, <2>4, <2>5, <2>6 DEF ResolveStep
<1>2. CASE WriteStep(r)
  BY <1>2, GotoFrame DEF WriteStep, PlanWrite, UpsertPoint, InsertMemory
<1>3. CASE OperatorStep(r)
  <2>1. CASE AddIdentifier(r)
    BY <2>1, GotoFrame DEF AddIdentifier
  <2>2. CASE SetIdentifierCache(r)
    BY <2>2, GotoFrame DEF SetIdentifierCache, Return
  <2>3. CASE ForgetHot(r) \/ DeleteCustomer(r) \/ DeletePoints(r)
    BY <2>3, GotoFrame DEF ForgetHot, DeleteCustomer, DeletePoints
  <2>4. CASE MergeMemories(r) \/ MergeIdentifiers(r) \/ Invalidate(r)
    BY <2>4, GotoFrame DEF MergeMemories, MergeIdentifiers, Invalidate
  <2> QED
    BY <1>3, <2>1, <2>2, <2>3, <2>4 DEF OperatorStep
<1>4. CASE Raise(r)
  BY <1>4, GotoFrame DEF Raise, Remote, WarmCalls, HotCalls, SemanticCalls
<1> QED
  BY <1>1, <1>2, <1>3, <1>4 DEF Step

\* What each kind of request calls first.
FirstCalls == {"get_identifier_cache", "add_identifier", "forget_hot", "merge_memories"}

\* Request r begins, and nothing else changes.
CallOf(r) ==
  /\ pc[r] = "idle" /\ pc'[r] \in FirstCalls
  /\ loop \in {r, Nil} /\ loop' = Nil
  /\ \A q \in Requests \ {r} : /\ pc'[q] = pc[q] /\ found'[q] = found[q]
                               /\ identifier'[q] = identifier[q] /\ before'[q] = before[q]
  /\ \A o \in Operators \ {r} : op'[o] = op[o] /\ other'[o] = other[o]
  /\ before'[r] = {q \in Requests : pc[q] \in Returned}
  /\ UNCHANGED stores

LEMMA BeginFrame ==
  ASSUME TypeOK, NEW r \in Requests, NEW call \in FirstCalls, Begin(r, call)
  PROVE  /\ pc' = [pc EXCEPT ![r] = call] /\ pc[r] = "idle"
         /\ before' = [before EXCEPT ![r] = {q \in Requests : pc[q] \in Returned}]
         /\ loop \in {r, Nil} /\ loop' = Nil
         /\ UNCHANGED stores
BY DEF Begin, Goto, At, Suspends, Remote, WarmCalls, HotCalls, SemanticCalls, TypeOK

\* Operator o begins one of the three operations, on customers that are known.
Operates(o) ==
  /\ CallOf(o) /\ found'[o] \in Known
  /\ op'[o] \in {"link", "forget", "merge"}
  /\ op'[o] = "forget" <=> pc'[o] = "forget_hot"
  /\ op'[o] = "link" => pc'[o] = "add_identifier" /\ identifier'[o] \in Identifiers
  /\ op'[o] = "merge" => pc'[o] = "merge_memories" /\ other'[o] \in Known \ {found'[o]}

LEMMA CallFrame ==
  ASSUME TypeOK, Call
  PROVE  \/ \E r \in Resolvers, i \in Identifiers :
              Resolve(r, i) /\ CallOf(r) /\ UNCHANGED <<found, other, op>>
         \/ \E o \in Operators : Operates(o)
<1> USE DEF CallOf, Operates, FirstCalls, TypeOK
<1>1. ASSUME NEW r \in Resolvers, NEW i \in Identifiers, Resolve(r, i)
      PROVE  CallOf(r) /\ UNCHANGED <<found, other, op>>
  <2> r \in Requests
    BY DEF Requests
  <2> QED
    BY <1>1, BeginFrame DEF Resolve
<1>2. ASSUME NEW o \in Operators, NEW c \in Known, NEW i \in Identifiers, LinkIdentity(o, c, i)
      PROVE  /\ CallOf(o) /\ found'[o] \in Known /\ op'[o] = "link"
             /\ pc'[o] = "add_identifier" /\ identifier'[o] \in Identifiers
  <2> o \in Requests
    BY DEF Requests
  <2> QED
    BY <1>2, BeginFrame DEF LinkIdentity
<1>3. ASSUME NEW o \in Operators, NEW c \in Known, ForgetCustomer(o, c)
      PROVE  CallOf(o) /\ found'[o] \in Known /\ op'[o] = "forget" /\ pc'[o] = "forget_hot"
  <2> o \in Requests
    BY DEF Requests
  <2> QED
    BY <1>3, BeginFrame DEF ForgetCustomer
<1>4. ASSUME NEW o \in Operators, NEW c \in Known, NEW d \in Known \ {c}, Merge(o, c, d)
      PROVE  /\ CallOf(o) /\ found'[o] \in Known /\ op'[o] = "merge"
             /\ pc'[o] = "merge_memories" /\ other'[o] \in Known \ {found'[o]}
  <2> o \in Requests
    BY DEF Requests
  <2> QED
    BY <1>4, BeginFrame DEF Merge
<1> QED
  BY <1>1, <1>2, <1>3, <1>4 DEF Call

LEMMA CallType ==
  ASSUME TypeOK, Call
  PROVE  TypeOK'
<1> Known \subseteq Resolvers \cup {Nil} /\ FirstCalls \subseteq Calls
  BY ResolverAssumption, CallsInCalls DEF Known, FirstCalls, TypeOK, Requests, HotCalls, WarmCalls
<1> USE DEF TypeOK, stores, FirstCalls
<1>0. ASSUME NEW r \in Requests, NEW call \in FirstCalls, Begin(r, call)
      PROVE  /\ pc' \in [Requests -> Calls] /\ loop' \in Requests \cup {Nil}
             /\ before' \in [Requests -> SUBSET Requests]
             /\ UNCHANGED stores
  <2>1. loop' \in Requests \cup {Nil}
    BY <1>0 DEF Begin, Goto
  <2>2. pc' \in [Requests -> Calls]
    BY <1>0, BeginFrame
  <2>3. {q \in Requests : pc[q] \in Returned} \in SUBSET Requests
    OBVIOUS
  <2> QED
    BY <1>0, <2>1, <2>2, <2>3, BeginFrame
<1>1. ASSUME NEW r \in Resolvers, NEW i \in Identifiers, Resolve(r, i)
      PROVE  TypeOK'
  BY <1>0, <1>1 DEF Resolve, Requests
<1>2. ASSUME NEW o \in Operators, NEW c \in Known, NEW i \in Identifiers, LinkIdentity(o, c, i)
      PROVE  TypeOK'
  BY <1>0, <1>2 DEF LinkIdentity, Requests
<1>3. ASSUME NEW o \in Operators, NEW c \in Known, ForgetCustomer(o, c)
      PROVE  TypeOK'
  BY <1>0, <1>3 DEF ForgetCustomer, Requests
<1>4. ASSUME NEW o \in Operators, NEW c \in Known, NEW d \in Known, Merge(o, c, d)
      PROVE  TypeOK'
  BY <1>0, <1>4 DEF Merge, Requests
<1> QED
  BY <1>1, <1>2, <1>3, <1>4 DEF Call

\* A resolve is given its identifier when it begins.
LEMMA CallNames ==
  ASSUME TypeInv, Call
  PROVE  Named'
<1>1. ASSUME NEW r \in Resolvers, NEW i \in Identifiers, Resolve(r, i)
      PROVE  Named'
  <2> r \in Requests /\ "get_identifier_cache" \in FirstCalls
    BY DEF Requests, FirstCalls
  <2>1. \A q \in Resolvers \ {r} : pc'[q] = pc[q] /\ identifier'[q] = identifier[q]
    BY <1>1, BeginFrame DEF Resolve, TypeInv, TypeOK, Requests
  <2>2. identifier'[r] = i
    BY <1>1 DEF Resolve, TypeInv, TypeOK
  <2> QED
    BY <2>1, <2>2 DEF Named, TypeInv
<1>2. ASSUME NEW o \in Operators, CallOf(o)
      PROVE  Named'
  <2>1. \A q \in Resolvers : pc'[q] = pc[q] /\ identifier'[q] = identifier[q]
    BY <1>2, ResolverAssumption DEF CallOf, Requests
  <2> QED
    BY <2>1 DEF Named, TypeInv
<1>3. \A o \in Operators : CallOf(o) => Named'
  BY <1>2
<1> QED
  BY <1>1, <1>3, CallFrame DEF TypeInv, Operates

LEMMA StepType ==
  ASSUME TypeInv, NEW r \in Requests, Step(r)
  PROVE  TypeInv'
<1>1. ASSUME Raise(r) PROVE TypeOK'
  BY <1>1, FailType DEF Raise, TypeInv, TypeOK, stores, inputs
<1>2. TypeOK'
  BY <1>1, ResolveType, WriteType, OperatorType DEF Step
<1>3. Named'
  BY StepFrame DEF StepOf, inputs, Named, TypeInv, Requests
<1> QED
  BY <1>2, <1>3 DEF TypeInv

\* The invariant of type correctness.
THEOREM TypeCorrect == Spec => []TypeInv
<1>1. Init => TypeInv
  BY CallsInCalls DEF Init, TypeInv, TypeOK, Named, Requests
<1>2. ASSUME TypeInv, [Next]_vars
      PROVE  TypeInv'
  <2>1. ASSUME NEW r \in Requests, Step(r) PROVE TypeInv'
    BY <1>2, <2>1, StepType
  <2>2. CASE Call
    BY <1>2, <2>2, CallType, CallNames DEF TypeInv
  <2>3. ASSUME NEW i \in Identifiers, EvictIdentifier(i) PROVE TypeInv'
    BY <1>2, <2>3 DEF EvictIdentifier, TypeInv, TypeOK, Named, inputs
  <2>4. CASE UNCHANGED vars
    BY <1>2, <2>4 DEF vars, TypeInv, TypeOK, Named
  <2> QED
    BY <1>2, <2>1, <2>2, <2>3, <2>4 DEF Next, Quiet
<1> QED
  BY <1>1, <1>2, PTL DEF Spec

\* Every variable of the resolver keeps its type (TypeOK), whichever requests
\* run beside each other.
THEOREM IdentityTypes == Spec => []TypeOK
<1>1. TypeInv => TypeOK
  BY DEF TypeInv
<1> QED
  BY <1>1, TypeCorrect, PTL

-----------------------------------------------------------------------------
(* Where the customers that resolves answer with come from.                *)

\* Resolve c can no longer create its customer.
PastCreate(c) ==
  pc[c] \notin {"idle", "get_identifier_cache", "get_customer", "find_by_identifier",
                "upsert_customer"}

\* Resolve r has settled on the customer it answers with.
Answer(r) == pc[r] = "upsert_customer" \/ pc[r] = "add_identifier"
               \/ pc[r] = "set_identifier_cache" \/ Resolved(r)

LEMMA Answers ==
  ASSUME TypeInv, NEW r \in Resolvers, Step(r)
  PROVE  /\ PastCreate(r) => PastCreate(r)'
         /\ pc'[r] = "upsert_customer" => found'[r] = r
         /\ Answer(r)' => \/ Answer(r) /\ found'[r] = found[r]
                          \/ found'[r] \in customers
                          \/ pc[r] = "find_by_identifier" /\ pc'[r] = "upsert_customer"
<1> r \in Requests /\ r \notin Operators /\ TypeOK
  BY ResolverAssumption DEF Requests, TypeInv
<1> USE DEF PastCreate, Answer, Resolved, At, Return, Goto, Fail, TypeOK
<1>1. CASE GetIdentifierCache(r)
  BY <1>1 DEF GetIdentifierCache
<1>2. CASE GetCustomer(r)
  BY <1>2 DEF GetCustomer
<1>3. CASE FindByIdentifier(r)
  BY <1>3 DEF FindByIdentifier
<1>4. CASE UpsertCustomer(r)
  BY <1>4 DEF UpsertCustomer
<1>5. CASE AddIdentifier(r)
  BY <1>5 DEF AddIdentifier
<1>6. CASE SetIdentifierCache(r)
  BY <1>6 DEF SetIdentifierCache
<1>7. CASE WriteStep(r)
  BY <1>7 DEF WriteStep, PlanWrite, UpsertPoint, InsertMemory
<1>8. CASE Raise(r)
  BY <1>8 DEF Raise, Remote, WarmCalls, HotCalls, SemanticCalls
<1> QED
  BY <1>1, <1>2, <1>3, <1>4, <1>5, <1>6, <1>7, <1>8 DEF Step, ResolveStep

\* A customer row appears only by the resolve that creates it.
LEMMA CustomerOrigin ==
  ASSUME TypeInv, NEW r \in Requests, Step(r)
  PROVE  \/ customers' \subseteq customers
         \/ /\ r \in Resolvers /\ pc[r] = "upsert_customer" /\ PastCreate(r)'
            /\ customers' = customers \cup {r}
<1> USE DEF stores
<1>1. CASE UpsertCustomer(r) /\ r \in Resolvers
  BY <1>1 DEF UpsertCustomer, At, PastCreate, Goto, TypeInv, TypeOK
<1>2. CASE GetIdentifierCache(r) \/ GetCustomer(r) \/ FindByIdentifier(r)
  BY <1>2 DEF GetIdentifierCache, GetCustomer, FindByIdentifier
<1>3. CASE AddIdentifier(r) \/ SetIdentifierCache(r) \/ WriteStep(r)
  BY <1>3 DEF AddIdentifier, SetIdentifierCache, WriteStep, PlanWrite, UpsertPoint, InsertMemory
<1>4. CASE ForgetHot(r) \/ DeleteCustomer(r) \/ DeletePoints(r)
  BY <1>4 DEF ForgetHot, DeleteCustomer, DeletePoints
<1>5. CASE MergeMemories(r) \/ MergeIdentifiers(r) \/ Invalidate(r)
  BY <1>5 DEF MergeMemories, MergeIdentifiers, Invalidate
<1>6. CASE Raise(r)
  BY <1>6 DEF Raise
<1> QED
  BY <1>1, <1>2, <1>3, <1>4, <1>5, <1>6 DEF Step, ResolveStep, OperatorStep

\* Every customer there is, or that was answered with, is past its creation.
CreateInv ==
  /\ \A c \in customers : PastCreate(c)
  /\ \A r \in Resolvers : pc[r] = "upsert_customer" => found[r] = r
  /\ \A r \in Resolvers : Answer(r) /\ pc[r] # "upsert_customer"
                            => found[r] \in Resolvers /\ PastCreate(found[r])

LEMMA PastCreateStays ==
  ASSUME TypeInv, [Next]_vars, NEW c \in Resolvers, PastCreate(c)
  PROVE  PastCreate(c)'
<1> c \in Requests /\ c \notin Operators
  BY ResolverAssumption DEF Requests
<1>1. ASSUME NEW r \in Requests, Step(r) PROVE PastCreate(c)'
  BY <1>1, Answers, StepFrame DEF StepOf, PastCreate, TypeInv
<1>2. CASE Call
  BY <1>2, CallFrame DEF CallOf, Operates, PastCreate, TypeInv
<1>3. CASE (\E i \in Identifiers : EvictIdentifier(i)) \/ UNCHANGED vars
  BY <1>3 DEF EvictIdentifier, vars, PastCreate
<1> QED
  BY <1>1, <1>2, <1>3 DEF Next, Quiet

LEMMA CreateStep ==
  ASSUME TypeInv, CreateInv, [Next]_vars
  PROVE  CreateInv'
<1> customers \subseteq Resolvers /\ TypeOK
  BY DEF TypeInv, TypeOK
<1>0. \A c \in Resolvers : PastCreate(c) => PastCreate(c)'
  BY PastCreateStays
<1>1. ASSUME NEW r \in Resolvers, Step(r)
      PROVE  CreateInv'
  <2> r \in Requests
    BY DEF Requests
  <2>1. \A c \in customers' : PastCreate(c)'
    BY <1>0, <1>1, CustomerOrigin DEF CreateInv
  <2>2. \A q \in Resolvers \ {r} : pc'[q] = pc[q] /\ found'[q] = found[q]
    BY <1>1, StepFrame DEF StepOf, Requests
  <2>3. pc'[r] = "upsert_customer" => found'[r] = r
    BY <1>1, Answers
  <2>4. ASSUME Answer(r)', pc'[r] # "upsert_customer"
        PROVE  (found[r] \in Resolvers /\ PastCreate(found[r]))'
    <3>1. CASE found'[r] \in customers
      BY <1>0, <3>1 DEF CreateInv
    <3>2. CASE Answer(r) /\ found'[r] = found[r] /\ pc[r] # "upsert_customer"
      BY <1>0, <3>2 DEF CreateInv
    <3>3. CASE Answer(r) /\ found'[r] = found[r] /\ pc[r] = "upsert_customer"
      <4>1. found'[r] = r
        BY <3>3 DEF CreateInv
      <4>2. PastCreate(r)'
        BY <2>4, <4>1 DEF PastCreate, Answer, Resolved
      <4> QED
        BY <4>1, <4>2
    <3> QED
      BY <1>1, <2>4, <3>1, <3>2, <3>3, Answers
  <2> QED
    BY <1>0, <2>1, <2>2, <2>3, <2>4 DEF CreateInv, Answer, Resolved
<1>2. ASSUME customers' \subseteq customers,
             \A q \in Resolvers : \/ pc'[q] = pc[q] /\ found'[q] = found[q]
                                  \/ pc'[q] = "get_identifier_cache"
      PROVE  CreateInv'
  BY <1>0, <1>2 DEF CreateInv, Answer, Resolved
<1>3. ASSUME NEW o \in Operators, Step(o)
      PROVE  CreateInv'
  <2>1. o \in Requests /\ o \notin Resolvers
    BY ResolverAssumption DEF Requests
  <2> QED
    BY <1>2, <1>3, <2>1, StepFrame, CustomerOrigin DEF StepOf, Requests
<1>4. CASE Call
  <2>1. ASSUME NEW r \in Resolvers, NEW i \in Identifiers, Resolve(r, i), CallOf(r)
        PROVE  CreateInv'
    <3>1. pc'[r] = "get_identifier_cache"
      BY <2>1, BeginFrame DEF Resolve, FirstCalls, Requests, TypeOK
    <3> QED
      BY <1>2, <2>1, <3>1 DEF CallOf, stores, Requests
  <2>2. ASSUME NEW o \in Operators, CallOf(o)
        PROVE  CreateInv'
    BY <1>2, <2>2, ResolverAssumption DEF CallOf, stores, Requests
  <2> QED
    BY <1>4, <2>1, <2>2, CallFrame DEF Operates
<1>5. CASE (\E i \in Identifiers : EvictIdentifier(i)) \/ UNCHANGED vars
  BY <1>2, <1>5 DEF EvictIdentifier, vars
<1> QED
  BY <1>1, <1>3, <1>4, <1>5 DEF Next, Quiet, Requests

\* CreateInv holds in every reachable state.
THEOREM CustomersMade == Spec => []CreateInv
<1>1. Init => CreateInv
  BY DEF Init, CreateInv, Answer, Resolved, Requests
<1>2. TypeInv /\ CreateInv /\ [Next]_vars => CreateInv'
  BY CreateStep
<1> QED
  BY <1>1, <1>2, TypeCorrect, PTL DEF Spec

-----------------------------------------------------------------------------
(* Forgotten customers.                                                    *)

\* What a request counts as returned before it has indeed returned.
BeforeReturned == \A r \in Requests : \A q \in before[r] : pc[q] \in Returned

\* A forget names a customer past its creation, and past its delete the
\* customer is gone.
Forgetting ==
  \A f \in Called("forget") :
    /\ found[f] \in Resolvers /\ PastCreate(found[f])
    /\ pc[f] \in {"forget_hot", "delete_customer", "delete_points", "done", "failed"}
    /\ pc[f] \in {"delete_points", "done"} => found[f] \notin customers

\* No later resolve answers with it, or is about to.
Unanswered ==
  \A f \in Called("forget"), r \in Resolvers :
    pc[f] = "done" /\ Answer(r) /\ f \in before[r] => found[r] # found[f]

ForgetInv == BeforeReturned /\ Forgetting /\ Unanswered

LEMMA BeforeStep ==
  ASSUME TypeInv, BeforeReturned, [Next]_vars
  PROVE  BeforeReturned'
<1> TypeOK /\ (\A r \in Requests : before[r] \subseteq Requests)
  BY DEF TypeInv, TypeOK
<1>1. ASSUME NEW r \in Requests, Step(r) PROVE BeforeReturned'
  <2>1. before' = before /\ pc[r] \notin Returned
    BY <1>1, StepFrame DEF StepOf, inputs, Returned
  <2>2. \A q \in Requests : pc[q] \in Returned => pc'[q] = pc[q]
    BY <1>1, <2>1, StepFrame DEF StepOf
  <2> QED
    BY <2>1, <2>2 DEF BeforeReturned
<1>2. ASSUME NEW r \in Requests, CallOf(r) PROVE BeforeReturned'
  <2>1. \A q \in Requests : pc[q] \in Returned => pc'[q] = pc[q]
    BY <1>2 DEF CallOf, Returned
  <2> QED
    BY <1>2, <2>1 DEF BeforeReturned, CallOf
<1>3. CASE Call
  BY <1>2, <1>3, CallFrame DEF Operates, Requests
<1>4. CASE (\E i \in Identifiers : EvictIdentifier(i)) \/ UNCHANGED vars
  BY <1>4 DEF EvictIdentifier, vars, inputs, BeforeReturned
<1> QED
  BY <1>1, <1>3, <1>4 DEF Next, Quiet

\* The steps of a forget: it leaves its delete with its customer gone.
LEMMA ForgetProgress ==
  ASSUME TypeInv, NEW f \in Called("forget"), Step(f),
         pc[f] \in {"forget_hot", "delete_customer", "delete_points"}
  PROVE  /\ pc'[f] \in {"delete_customer", "delete_points", "done", "failed"}
         /\ pc'[f] \in {"delete_points", "done"}
              => found[f] \notin customers' \/ pc[f] = "delete_points"
<1> f \in Requests /\ f \in Operators /\ f \notin Resolvers /\ f \notin Writers
  BY ResolverAssumption DEF Called, Requests
<1> USE DEF At, Goto, Fail, TypeInv, TypeOK
<1>1. CASE ForgetHot(f)
  BY <1>1 DEF ForgetHot
<1>2. CASE DeleteCustomer(f)
  <2>1. op[f] = "forget"
    BY DEF Called
  <2> QED
    BY <1>2, <2>1 DEF DeleteCustomer
<1>3. CASE DeletePoints(f)
  BY <1>3 DEF DeletePoints
<1>4. CASE Raise(f)
  BY <1>4 DEF Raise
<1> QED
  BY <1>1, <1>2, <1>3, <1>4
  DEF Step, OperatorStep, AddIdentifier, SetIdentifierCache, MergeMemories, MergeIdentifiers,
      Invalidate

LEMMA ForgettingStep ==
  ASSUME TypeInv, CreateInv, Forgetting, [Next]_vars
  PROVE  Forgetting'
<1> TypeOK /\ Called("forget") \subseteq Operators /\ Operators \subseteq Requests
  BY DEF TypeInv, Called, Requests
<1>0. \A c \in Resolvers : PastCreate(c) => PastCreate(c)'
  BY PastCreateStays
<1>1. ASSUME NEW r \in Requests, Step(r)
      PROVE  Forgetting'
  <2>1. UNCHANGED op /\ Called("forget")' = Called("forget")
    BY <1>1, StepFrame DEF StepOf, inputs, Called
  <2>2. ASSUME NEW f \in Called("forget")
        PROVE  (found[f] \in Resolvers /\ PastCreate(found[f]))' /\ found'[f] = found[f]
    <3>1. f \in Operators /\ f \in Requests
      OBVIOUS
    <3>2. found'[f] = found[f]
      BY <1>1, <3>1, StepFrame DEF StepOf
    <3> QED
      BY <1>0, <3>2 DEF Forgetting
  <2>3. ASSUME NEW f \in Called("forget"), found[f] \notin customers
        PROVE  found[f] \notin customers'
    <3>1. CASE customers' \subseteq customers
      BY <2>3, <3>1
    <3>2. CASE r \in Resolvers /\ pc[r] = "upsert_customer" /\ customers' = customers \cup {r}
      BY <2>3, <3>2 DEF Forgetting, PastCreate
    <3> QED
      BY <1>1, <3>1, <3>2, CustomerOrigin
  <2>4. ASSUME NEW f \in Called("forget"), f # r
        PROVE  /\ pc'[f] \in {"forget_hot", "delete_customer", "delete_points", "done", "failed"}
               /\ pc'[f] \in {"delete_points", "done"} => found'[f] \notin customers'
    <3>1. pc'[f] = pc[f]
      BY <1>1, <2>4, StepFrame DEF StepOf
    <3> QED
      BY <2>2, <2>3, <3>1 DEF Forgetting
  <2>5. ASSUME r \in Called("forget")
        PROVE  /\ pc'[r] \in {"forget_hot", "delete_customer", "delete_points", "done", "failed"}
               /\ pc'[r] \in {"delete_points", "done"} => found'[r] \notin customers'
    <3>1. pc[r] \in {"forget_hot", "delete_customer", "delete_points"}
      BY <1>1, <2>5, StepFrame DEF StepOf, Forgetting
    <3>2. pc[r] = "delete_points" => found[r] \notin customers'
      BY <2>3, <2>5 DEF Forgetting
    <3> QED
      BY <1>1, <2>2, <2>5, <3>1, <3>2, ForgetProgress
  <2> QED
    BY <2>1, <2>2, <2>4, <2>5 DEF Forgetting
<1>2. ASSUME NEW r \in Requests, CallOf(r), UNCHANGED op \/ Operates(r),
             r \notin Operators => UNCHANGED op
      PROVE  Forgetting'
  <2>1. ASSUME NEW f \in Called("forget")', f # r
        PROVE  /\ f \in Called("forget") /\ pc'[f] = pc[f] /\ found'[f] = found[f]
    BY <1>2, <2>1 DEF CallOf, Called, Requests
  <2>2. ASSUME r \in Called("forget")'
        PROVE  /\ (found[r] \in Resolvers /\ PastCreate(found[r]))'
               /\ pc'[r] = "forget_hot"
    <3>1. r \in Operators /\ op'[r] = "forget"
      BY <2>2 DEF Called
    <3>2. op[r] # "forget"
      BY <1>2, <3>1 DEF Forgetting, Called, CallOf
    <3>3. Operates(r)
      BY <1>2, <3>1, <3>2
    <3>4. PICK q \in Resolvers : pc[q] = "done" /\ found'[r] = found[q]
      BY <3>3 DEF Operates, Known
    <3>5. found[q] \in Resolvers /\ PastCreate(found[q])
      BY <3>4 DEF CreateInv, Answer, Resolved
    <3> QED
      BY <1>0, <3>1, <3>3, <3>4, <3>5 DEF Operates
  <2>3. customers' = customers
    BY <1>2 DEF CallOf, stores
  <2> QED
    BY <1>0, <2>1, <2>2, <2>3 DEF Forgetting
<1>3. CASE Call
  BY <1>2, <1>3, CallFrame, ResolverAssumption DEF Operates, Requests
<1>4. CASE (\E i \in Identifiers : EvictIdentifier(i)) \/ UNCHANGED vars
  BY <1>4 DEF EvictIdentifier, vars, inputs, Forgetting, Called, PastCreate
<1> QED
  BY <1>1, <1>3, <1>4 DEF Next, Quiet

LEMMA UnansweredStep ==
  ASSUME TypeInv, CreateInv, ForgetInv, [Next]_vars
  PROVE  Unanswered'
<1> TypeOK /\ Called("forget") \subseteq Operators
  BY DEF TypeInv, Called
<1>1. ASSUME NEW r \in Requests, Step(r)
      PROVE  Unanswered'
  <2>1. before' = before /\ Called("forget")' = Called("forget")
    BY <1>1, StepFrame DEF StepOf, inputs, Called
  <2>2. ASSUME NEW f \in Called("forget"), NEW q \in Resolvers, f \in before[q],
               pc'[f] = "done", Answer(q)'
        PROVE  found'[q] # found'[f]
    <3>1. f \in Requests /\ q \in Requests /\ f \notin Resolvers
      BY ResolverAssumption DEF Requests
    <3>2. f # r /\ pc[f] = "done" /\ found'[f] = found[f]
      <4>1. pc[f] \in Returned
        BY <2>2, <3>1 DEF ForgetInv, BeforeReturned
      <4> QED
        BY <1>1, <2>2, <3>1, <4>1, StepFrame DEF StepOf, Returned
    <3>3. found[f] \notin customers /\ PastCreate(found[f])
      BY <3>2 DEF ForgetInv, Forgetting
    <3>4. CASE q # r
      <4>1. pc'[q] = pc[q] /\ found'[q] = found[q]
        BY <1>1, <3>1, <3>4, StepFrame DEF StepOf
      <4> QED
        BY <2>2, <3>2, <4>1 DEF ForgetInv, Unanswered, Answer, Resolved
    <3>5. CASE q = r
      <4>1. CASE Answer(q) /\ found'[q] = found[q]
        BY <2>2, <3>2, <4>1 DEF ForgetInv, Unanswered
      <4>2. CASE found'[q] \in customers
        BY <3>2, <3>3, <4>2
      <4>3. CASE pc[q] = "find_by_identifier" /\ pc'[q] = "upsert_customer"
        <5>1. found'[q] = q
          BY <1>1, <3>5, <4>3, Answers
        <5>2. ~PastCreate(q)
          BY <4>3 DEF PastCreate
        <5> QED
          BY <3>2, <3>3, <5>1, <5>2
      <4> QED
        BY <1>1, <2>2, <3>5, <4>1, <4>2, <4>3, Answers
    <3> QED
      BY <3>4, <3>5
  <2> QED
    BY <2>1, <2>2 DEF Unanswered
<1>2. ASSUME NEW f \in Called("forget")', NEW q \in Resolvers, f \in before'[q],
             pc'[f] = "done", Answer(q)',
             f \in Called("forget"), pc'[f] = pc[f], found'[f] = found[f],
             pc'[q] = pc[q], found'[q] = found[q], before'[q] = before[q]
      PROVE  found'[q] # found'[f]
  BY <1>2 DEF ForgetInv, Unanswered, Answer, Resolved
<1>3. ASSUME NEW r \in Resolvers, NEW i \in Identifiers, Resolve(r, i), CallOf(r), UNCHANGED op
      PROVE  Unanswered'
  <2>1. pc'[r] = "get_identifier_cache"
    BY <1>3, BeginFrame DEF Resolve, FirstCalls, Requests, TypeOK
  <2>2. Called("forget")' = Called("forget")
    BY <1>3 DEF Called
  <2>3. ~Answer(r)'
    BY <2>1 DEF Answer, Resolved
  <2> QED
    BY <1>2, <1>3, <2>2, <2>3, ResolverAssumption DEF CallOf, Unanswered, Requests
<1>4. ASSUME NEW o \in Operators, Operates(o)
      PROVE  Unanswered'
  <2>1. pc'[o] # "done"
    BY <1>4 DEF Operates, CallOf, FirstCalls
  <2>2. \A f \in Called("forget")' : f # o => f \in Called("forget")
    BY <1>4 DEF Operates, CallOf, Called
  <2>3. Called("forget")' \subseteq Operators
    BY DEF Called
  <2> QED
    BY <1>2, <1>4, <2>1, <2>2, <2>3, ResolverAssumption
    DEF Operates, CallOf, Unanswered, Requests
<1>5. CASE Call
  BY <1>3, <1>4, <1>5, CallFrame
<1>6. CASE (\E i \in Identifiers : EvictIdentifier(i)) \/ UNCHANGED vars
  BY <1>6 DEF EvictIdentifier, vars, inputs, ForgetInv, Unanswered, Called, Answer, Resolved
<1> QED
  BY <1>1, <1>5, <1>6 DEF Next, Quiet

\* A forget that has returned leaves no resolve, begun since, that answers with
\* the forgotten customer (ForgottenUnresolved): neither the identifier cache,
\* which the forget does not touch, nor a resolve that was creating the customer
\* beside it brings the customer back.
THEOREM ForgottenStaysGone == Spec => []ForgottenUnresolved
<1>1. ASSUME Init PROVE ForgetInv
  <2>1. Called("forget") = {}
    BY <1>1, ResolverAssumption DEF Init, Called
  <2> QED
    BY <1>1, <2>1 DEF Init, ForgetInv, BeforeReturned, Forgetting, Unanswered
<1>2. TypeInv /\ CreateInv /\ ForgetInv /\ [Next]_vars => ForgetInv'
  BY BeforeStep, ForgettingStep, UnansweredStep DEF ForgetInv
<1>3. ForgetInv => ForgottenUnresolved
  BY DEF ForgetInv, Unanswered, ForgottenUnresolved, Answer
<1> QED
  BY <1>1, <1>2, <1>3, TypeCorrect, CustomersMade, PTL DEF Spec

-----------------------------------------------------------------------------
(* The customer of an identifier, with the warm store in memory.           *)

Merges == Called("merge")
Links == Called("link")

\* What an operator's calls know of its operation.
Operating(o) ==
  /\ pc[o] = "idle" <=> op[o] = Nil
  /\ pc[o] # "idle" => found[o] \in Resolvers /\ PastCreate(found[o])
  /\ op[o] = "link" =>
       /\ identifier[o] \in Identifiers
       /\ pc[o] \in {"add_identifier", "set_identifier_cache", "done", "failed"}
  /\ op[o] = "forget" =>
       pc[o] \in {"forget_hot", "delete_customer", "delete_points", "done", "failed"}
  /\ op[o] = "merge" =>
       /\ other[o] \in Resolvers \ {found[o]}
       /\ pc[o] \in {"merge_memories", "merge_identifiers", "delete_customer", "invalidate", "done",
                     "failed"}

\* A merge holds the event loop once it has moved the memories, and then the
\* identifiers if there is somebody to move them to.
Moved(m) ==
  /\ pc[m] \in {"merge_identifiers", "delete_customer"}
       => loop = m /\ \A w \in Writers : rows[w] # other[m]
  /\ pc[m] = "delete_customer" /\ found[m] \in customers
       => \A i \in Identifiers : owner[i] # other[m]

\* A merge has taken the identifiers of customer c and is about to delete it.
Dissolving(c) == \E m \in Merges : pc[m] = "delete_customer" /\ other[m] = c

\* If customer c exists, identifier i is its.
Owns(c, i) == c \in customers => owner[i] = c \/ Dissolving(c)

\* Identifier i is not linked to a customer by hand.
Unlinked(i) == \A l \in Links : identifier[l] # i

\* Whoever has a customer for an identifier has the one that owns it.
Agrees(c, i) == c \in Resolvers /\ PastCreate(c) /\ (Unlinked(i) => Owns(c, i))

\* A resolve that creates its customer holds the event loop from its lookup to
\* the identifier's row, so that no other resolve looks the identifier up.
Creating(r) ==
  /\ pc[r] \in {"upsert_customer", "add_identifier"}
       => loop = r /\ found[r] = r /\ owner[identifier[r]] = Nil
  /\ pc[r] = "add_identifier" => r \in customers

\* Resolve r has a customer, if only from the cache.
Holding(r) == pc[r] \in {"get_customer", "set_identifier_cache"} \/ Resolved(r)

Directory ==
  /\ \A o \in Operators : Operating(o)
  /\ \A m \in Merges : Moved(m)
  /\ \A i \in Identifiers : owner[i] # Nil => owner[i] \in customers
  /\ \A r \in Resolvers : Creating(r)

Agreement ==
  /\ \A i \in Identifiers : id_cache[i] # Nil => Agrees(id_cache[i], i)
  /\ \A r \in Resolvers : Holding(r) => Agrees(found[r], identifier[r])

\* A step is taken by the request that has the loop, or by any if nobody has it.
LEMMA StepLoop ==
  ASSUME NEW r \in Requests, Step(r)
  PROVE  loop \in {r, Nil}
BY DEF Step, ResolveStep, WriteStep, OperatorStep, At, Raise, GetIdentifierCache, GetCustomer,
       FindByIdentifier, UpsertCustomer, AddIdentifier, SetIdentifierCache, PlanWrite, UpsertPoint,
       InsertMemory, ForgetHot, DeleteCustomer, DeletePoints, MergeMemories, MergeIdentifiers,
       Invalidate

LEMMA LoopTurn ==
  ASSUME TypeInv, NEW m \in Requests, loop = m, pc[m] # "idle", [Next]_vars
  PROVE  Step(m) \/ UNCHANGED vars
<1> m # Nil
  BY ResolverAssumption
<1>1. ASSUME NEW r \in Requests, Step(r) PROVE r = m
  BY <1>1, StepLoop
<1>2. ~Call
  BY CallFrame DEF CallOf, Operates, TypeInv
<1>3. ~\E i \in Identifiers : EvictIdentifier(i)
  BY DEF EvictIdentifier
<1> QED
  BY <1>1, <1>2, <1>3 DEF Next, Quiet

\* The calls of each operation.
LEMMA OperatorActs ==
  ASSUME TypeInv, NEW o \in Operators, Operating(o), Step(o)
  PROVE  \/ /\ op[o] = "link"
            /\ AddIdentifier(o) \/ SetIdentifierCache(o) \/ Raise(o)
         \/ /\ op[o] = "forget"
            /\ ForgetHot(o) \/ DeleteCustomer(o) \/ DeletePoints(o) \/ Raise(o)
         \/ /\ op[o] = "merge"
            /\ \/ MergeMemories(o) \/ MergeIdentifiers(o) \/ DeleteCustomer(o) \/ Invalidate(o)
               \/ Raise(o)
<1> o \in Requests /\ o \notin Resolvers /\ o \notin Writers
  BY ResolverAssumption DEF Requests
<1>1. pc[o] # "idle"
  BY StepFrame DEF StepOf, TypeInv
<1>2. op[o] \in {"link", "forget", "merge"}
  BY <1>1 DEF Operating, TypeInv, TypeOK
<1>3. OperatorStep(o) \/ Raise(o)
  BY DEF Step
<1> QED
  BY <1>2, <1>3
  DEF Operating, OperatorStep, At, AddIdentifier, SetIdentifierCache, ForgetHot, DeleteCustomer,
      DeletePoints, MergeMemories, MergeIdentifiers, Invalidate

LEMMA OperatingActs ==
  ASSUME TypeInv, CreateInv, NEW o \in Operators, Operating(o), Step(o)
  PROVE  Operating(o)'
<1> o \in Requests /\ o \notin Resolvers /\ o \notin Writers /\ TypeOK
  BY ResolverAssumption DEF Requests, TypeInv
<1>1. /\ op' = op /\ other' = other /\ identifier' = identifier /\ found' = found
      /\ pc[o] # "idle" /\ pc'[o] # "idle"
  BY StepFrame DEF StepOf, inputs
<1>2. found[o] \in Resolvers /\ PastCreate(found[o]) /\ op[o] # Nil
  BY <1>1 DEF Operating
<1>3. [Next]_vars
  BY DEF Next
<1>4. PastCreate(found[o])'
  BY <1>1, <1>2, <1>3, PastCreateStays
<1> USE DEF At, Goto, Fail, Return, TypeOK
<1>5. op[o] = "link" => pc'[o] \in {"add_identifier", "set_identifier_cache", "done", "failed"}
  BY OperatorActs DEF AddIdentifier, SetIdentifierCache, Raise
<1>6. op[o] = "forget" =>
        pc'[o] \in {"forget_hot", "delete_customer", "delete_points", "done", "failed"}
  BY OperatorActs DEF ForgetHot, DeleteCustomer, DeletePoints, Raise
<1>7. op[o] = "merge" =>
        pc'[o] \in {"merge_memories", "merge_identifiers", "delete_customer", "invalidate", "done",
                    "failed"}
  BY OperatorActs DEF MergeMemories, MergeIdentifiers, DeleteCustomer, Invalidate, Raise
<1> HIDE DEF At, Goto, Fail, Return, TypeOK
<1> QED
  BY <1>1, <1>2, <1>4, <1>5, <1>6, <1>7 DEF Operating

LEMMA KnownCustomer ==
  ASSUME CreateInv, NEW c \in Known
  PROVE  c \in Resolvers /\ PastCreate(c)
BY DEF CreateInv, Known, Answer, Resolved

LEMMA OperatingStep ==
  ASSUME TypeInv, CreateInv, \A o \in Operators : Operating(o), [Next]_vars
  PROVE  \A o \in Operators : Operating(o)'
<1> TypeOK /\ Operators \subseteq Requests
  BY DEF TypeInv, Requests
<1>0. \A c \in Resolvers : PastCreate(c) => PastCreate(c)'
  BY PastCreateStays
<1>1. ASSUME NEW o \in Operators, pc'[o] = pc[o], op'[o] = op[o], found'[o] = found[o],
             other'[o] = other[o], identifier'[o] = identifier[o]
      PROVE  Operating(o)'
  BY <1>0, <1>1 DEF Operating
<1>2. ASSUME NEW r \in Requests, Step(r), NEW o \in Operators
      PROVE  Operating(o)'
  <2>1. CASE o = r
    BY <1>2, <2>1, OperatingActs
  <2>2. CASE o # r
    BY <1>1, <1>2, <2>2, StepFrame DEF StepOf, inputs
  <2> QED
    BY <2>1, <2>2
<1>3. ASSUME NEW r \in Resolvers, CallOf(r), UNCHANGED <<found, other, op>>, NEW o \in Operators
      PROVE  Operating(o)'
  BY <1>1, <1>3, ResolverAssumption DEF CallOf
<1>4. ASSUME NEW p \in Operators, Operates(p), NEW o \in Operators
      PROVE  Operating(o)'
  <2>1. CASE o = p
    <3>1. /\ found'[o] \in Resolvers /\ PastCreate(found'[o])
          /\ op'[o] = "merge" => other'[o] \in Resolvers \ {found'[o]}
      BY <1>4, <2>1, KnownCustomer DEF Operates
    <3>2. PastCreate(found[o])'
      BY <1>0, <3>1
    <3>3. pc'[o] \in FirstCalls /\ op'[o] # Nil
      BY <1>4, <2>1, ResolverAssumption DEF Operates, CallOf
    <3> QED
      BY <1>4, <2>1, <3>1, <3>2, <3>3 DEF Operating, Operates, FirstCalls
  <2>2. CASE o # p
    BY <1>1, <1>4, <2>2 DEF Operates, CallOf
  <2> QED
    BY <2>1, <2>2
<1>5. CASE Call
  BY <1>3, <1>4, <1>5, CallFrame
<1>6. CASE (\E i \in Identifiers : EvictIdentifier(i)) \/ UNCHANGED vars
  BY <1>1, <1>6 DEF EvictIdentifier, vars, inputs
<1> QED
  BY <1>2, <1>5, <1>6 DEF Next, Quiet

\* A request that has begun goes on by its own steps only.
LEMMA BegunGoesOn ==
  ASSUME TypeInv, [Next]_vars, NEW r \in Requests
  PROVE  /\ pc[r] # "idle" => /\ pc'[r] # "idle"
                              /\ identifier'[r] = identifier[r] /\ before'[r] = before[r]
                              /\ \/ Step(r)
                                 \/ pc'[r] = pc[r] /\ found'[r] = found[r]
                              /\ r \in Operators => /\ op'[r] = op[r] /\ other'[r] = other[r]
                                                    /\ found'[r] = found[r]
         /\ pc[r] = "idle" /\ pc'[r] # "idle" =>
              /\ pc'[r] \in FirstCalls
              /\ before'[r] = {q \in Requests : pc[q] \in Returned}
              /\ r \in Resolvers => pc'[r] = "get_identifier_cache" /\ found'[r] = found[r]
<1> TypeOK
  BY DEF TypeInv
<1>1. ASSUME NEW q \in Requests, Step(q), q # r
      PROVE  pc'[r] = pc[r] /\ found'[r] = found[r] /\ UNCHANGED inputs
  BY <1>1, StepFrame DEF StepOf
<1>2. Step(r) => /\ pc[r] # "idle" /\ pc'[r] # "idle"
                 /\ identifier' = identifier /\ before' = before
                 /\ op' = op /\ other' = other
                 /\ r \in Operators => found' = found
  BY StepFrame DEF StepOf, inputs
<1>3. ASSUME NEW q \in Requests, CallOf(q)
      PROVE  \/ /\ q # r /\ pc'[r] = pc[r] /\ found'[r] = found[r] /\ identifier'[r] = identifier[r]
                /\ before'[r] = before[r]
                /\ r \in Operators => op'[r] = op[r] /\ other'[r] = other[r]
             \/ /\ q = r /\ pc[r] = "idle" /\ pc'[r] \in FirstCalls
                /\ before'[r] = {p \in Requests : pc[p] \in Returned}
  BY <1>3 DEF CallOf
<1>4. ASSUME NEW q \in Resolvers, NEW i \in Identifiers, Resolve(q, i)
      PROVE  pc'[q] = "get_identifier_cache"
  BY <1>4, BeginFrame DEF Resolve, FirstCalls, Requests, TypeOK
<1>5. Call => \/ \E q \in Resolvers : /\ CallOf(q) /\ UNCHANGED found
                                      /\ pc'[q] = "get_identifier_cache"
              \/ \E q \in Operators : CallOf(q)
  BY <1>4, CallFrame DEF Operates
<1>6. CASE Call
  BY <1>3, <1>5, <1>6, ResolverAssumption DEF Requests
<1>7. CASE (\E i \in Identifiers : EvictIdentifier(i)) \/ UNCHANGED vars
  BY <1>7 DEF EvictIdentifier, vars, inputs
<1>8. ASSUME NEW q \in Requests, Step(q), q # r
      PROVE  /\ pc'[r] = pc[r] /\ found'[r] = found[r] /\ identifier'[r] = identifier[r]
             /\ before'[r] = before[r] /\ op'[r] = op[r] /\ other'[r] = other[r]
  BY <1>1, <1>8 DEF inputs
<1>9. CASE Step(r)
  BY <1>2, <1>9
<1> QED
  BY <1>6, <1>7, <1>8, <1>9 DEF Next, Quiet

\* In memory the steps of a merge up to its last are one turn.
LEMMA MergeActs ==
  ASSUME ~Postgres, TypeInv, NEW m \in Merges, Operating(m), Step(m)
  PROVE  \/ MergeMemories(m) /\ pc'[m] = "merge_identifiers" /\ loop' = m
         \/ MergeIdentifiers(m) /\ pc'[m] = "delete_customer" /\ loop' = m
         \/ DeleteCustomer(m) /\ pc'[m] \in {"invalidate", "failed"}
         \/ pc[m] = "invalidate" /\ pc'[m] \in {"done", "failed"} /\ UNCHANGED stores
<1> m \in Operators /\ m \in Requests /\ op[m] = "merge" /\ TypeOK
  BY DEF Merges, Called, Requests, TypeInv
<1> "merge" # "link" /\ "merge" # "forget"
  OBVIOUS
<1>1. \A call \in {"merge_memories", "merge_identifiers", "delete_customer"} :
        ~Remote(call) /\ ~Suspends(call)
  BY DEF Suspends, Remote, WarmCalls, HotCalls, SemanticCalls, Returned
<1> USE DEF At, Goto, Fail, TypeOK
<1>2. CASE MergeMemories(m)
  BY <1>1, <1>2 DEF MergeMemories
<1>3. CASE MergeIdentifiers(m)
  BY <1>1, <1>3 DEF MergeIdentifiers
<1>4. CASE DeleteCustomer(m)
  BY <1>1, <1>4 DEF DeleteCustomer
<1>5. CASE Invalidate(m)
  BY <1>5 DEF Invalidate
<1>6. CASE Raise(m)
  <2>1. pc[m] \in {"merge_memories", "merge_identifiers", "delete_customer", "invalidate", "done",
                   "failed"}
    BY DEF Operating
  <2>2. ~Remote("done") /\ ~Remote("failed")
    BY DEF Remote, WarmCalls, HotCalls, SemanticCalls
  <2> QED
    BY <1>1, <1>6, <2>1, <2>2 DEF Raise
<1> QED
  BY <1>2, <1>3, <1>4, <1>5, <1>6, OperatorActs

LEMMA MovedStep ==
  ASSUME ~Postgres, TypeInv, CreateInv, Directory, [Next]_vars, NEW m \in Operators,
         op'[m] = "merge"
  PROVE  Moved(m)'
<1> m \in Requests /\ TypeOK
  BY DEF Requests, TypeInv
<1>1. CASE pc[m] = "idle"
  BY <1>1, BegunGoesOn DEF Moved, FirstCalls
<1>2. CASE pc[m] # "idle"
  <2>1. op[m] = "merge" /\ found'[m] = found[m] /\ other'[m] = other[m]
    BY <1>2, BegunGoesOn
  <2>2. m \in Merges /\ Operating(m) /\ Moved(m)
    BY <2>1 DEF Merges, Called, Directory
  <2>3. CASE Step(m) /\ MergeMemories(m) /\ pc'[m] = "merge_identifiers" /\ loop' = m
    BY <2>1, <2>2, <2>3 DEF MergeMemories, Moved, Operating
  <2>4. CASE Step(m) /\ MergeIdentifiers(m) /\ pc'[m] = "delete_customer" /\ loop' = m
    <3>1. pc[m] = "merge_identifiers"
      BY <2>4 DEF MergeIdentifiers, At
    <3> QED
      BY <2>1, <2>2, <2>4, <3>1 DEF MergeIdentifiers, Moved, Operating
  <2>5. CASE pc'[m] \in {"invalidate", "failed", "done"}
    BY <2>5 DEF Moved
  <2>6. CASE ~Step(m)
    <3>1. pc'[m] = pc[m]
      BY <1>2, <2>6, BegunGoesOn
    <3>2. CASE pc[m] \in {"merge_identifiers", "delete_customer"}
      <4>1. UNCHANGED vars
        BY <1>2, <2>2, <2>6, <3>2, LoopTurn DEF Moved
      <4> QED
        BY <2>2, <4>1 DEF Moved, vars
    <3> QED
      BY <3>1, <3>2 DEF Moved
  <2> QED
    BY <2>2, <2>3, <2>4, <2>5, <2>6, MergeActs
<1> QED
  BY <1>1, <1>2

\* The steps that write an identifier's row, and that delete a customer.
LEMMA OwnerFrom ==
  ASSUME TypeInv, Directory, [Next]_vars
  PROVE  \/ owner' = owner /\ customers \subseteq customers'
         \/ \E r \in Resolvers : Step(r) /\ AddIdentifier(r)
         \/ \E l \in Links : Step(l) /\ AddIdentifier(l)
         \/ \E o \in Operators : Step(o) /\ DeleteCustomer(o)
         \/ \E m \in Merges : Step(m) /\ MergeIdentifiers(m)
<1> USE DEF stores
<1>1. ASSUME NEW r \in Resolvers, Step(r)
      PROVE  AddIdentifier(r) \/ (owner' = owner /\ customers \subseteq customers')
  <2> r \notin Operators
    BY ResolverAssumption
  <2> QED
    BY <1>1
    DEF Step, ResolveStep, WriteStep, Raise, GetIdentifierCache, GetCustomer, FindByIdentifier,
        UpsertCustomer, SetIdentifierCache, PlanWrite, UpsertPoint, InsertMemory
<1>2. ASSUME NEW o \in Operators, Step(o)
      PROVE  \/ owner' = owner /\ customers \subseteq customers'
             \/ AddIdentifier(o) /\ o \in Links
             \/ MergeIdentifiers(o) /\ o \in Merges
             \/ DeleteCustomer(o)
  <2>1. Operating(o)
    BY DEF Directory
  <2> QED
    BY <1>2, <2>1, OperatorActs
    DEF Links, Merges, Called, SetIdentifierCache, Raise, ForgetHot, DeletePoints, MergeMemories,
        Invalidate
<1>3. Call => UNCHANGED stores
  BY CallFrame DEF CallOf, Operates, TypeInv
<1>4. CASE (\E i \in Identifiers : EvictIdentifier(i)) \/ UNCHANGED vars
  BY <1>4 DEF EvictIdentifier, vars
<1> QED
  BY <1>1, <1>2, <1>3, <1>4 DEF Next, Quiet, Requests

\* A customer that is past its creation is not created again.
LEMMA NotCreated ==
  ASSUME TypeInv, [Next]_vars, NEW c \in Resolvers, PastCreate(c), c \notin customers
  PROVE  c \notin customers'
<1>1. ASSUME NEW r \in Requests, Step(r) PROVE c \notin customers'
  BY <1>1, CustomerOrigin DEF PastCreate
<1>2. Call => UNCHANGED stores
  BY CallFrame DEF CallOf, Operates, TypeInv
<1>3. CASE (\E i \in Identifiers : EvictIdentifier(i)) \/ UNCHANGED vars
  BY <1>3 DEF EvictIdentifier, vars
<1> QED
  BY <1>1, <1>2, <1>3 DEF Next, Quiet, stores

\* In memory a delete takes the customer and its identifiers.
LEMMA DeleteActs ==
  ASSUME ~Postgres, TypeInv, NEW o \in Operators, Step(o), DeleteCustomer(o)
  PROVE  \E gone \in {found[o], other[o]} :
           /\ gone = IF op[o] = "merge" THEN other[o] ELSE found[o]
           /\ customers' = customers \ {gone}
           /\ owner' = [i \in Identifiers |-> IF owner[i] = gone THEN Nil ELSE owner[i]]
           /\ rows' = [w \in Writers |-> IF rows[w] = gone THEN Nil ELSE rows[w]]
BY DEF DeleteCustomer

\* A customer keeps its identifier until it is deleted, unless the identifier is
\* linked: a merge takes it only to delete the customer in the same turn, and a
\* resolve that creates a customer has seen the identifier without one.
LEMMA OwnsStays ==
  ASSUME ~Postgres, TypeInv, CreateInv, Directory, [Next]_vars,
         NEW c \in Resolvers, PastCreate(c), NEW i \in Identifiers, Owns(c, i),
         \A l \in Links : pc[l] = "add_identifier" => identifier[l] # i
  PROVE  Owns(c, i)'
<1> SUFFICES ASSUME c \in customers' PROVE owner'[i] = c \/ Dissolving(c)'
  BY DEF Owns
<1> TypeOK /\ Nil \notin Resolvers
  BY ResolverAssumption DEF TypeInv, Requests
<1>1. c \in customers /\ (owner[i] = c \/ Dissolving(c))
  BY NotCreated DEF Owns
<1>2. ASSUME NEW m \in Merges, pc[m] = "delete_customer", other[m] = c
      PROVE  Dissolving(c)'
  <2>1. m \in Operators /\ m \in Requests /\ op[m] = "merge" /\ loop = m
    BY <1>2 DEF Merges, Called, Requests, Directory, Moved
  <2>2. CASE Step(m)
    <3>1. DeleteCustomer(m)
      BY <1>2, <2>1, <2>2, MergeActs
      DEF Directory, MergeMemories, MergeIdentifiers, At
    <3> QED
      BY <1>2, <2>1, <2>2, <3>1, DeleteActs
  <2>3. CASE UNCHANGED vars
    BY <1>2, <2>3 DEF Dissolving, Merges, Called, vars
  <2> QED
    BY <1>2, <2>1, <2>2, <2>3, LoopTurn
<1>3. ASSUME owner[i] = c PROVE owner'[i] = c \/ Dissolving(c)'
  <2>1. ASSUME NEW r \in Resolvers, Step(r), AddIdentifier(r) PROVE owner'[i] = c
    <3>1. owner[identifier[r]] = Nil
      BY <2>1 DEF AddIdentifier, At, Directory, Creating
    <3>2. identifier[r] # i
      BY <1>3, <3>1
    <3> QED
      BY <1>3, <2>1, <3>2 DEF AddIdentifier, TypeOK
  <2>2. ASSUME NEW l \in Links, AddIdentifier(l) PROVE owner'[i] = c
    <3>1. identifier[l] # i
      BY <2>2 DEF AddIdentifier, At
    <3> QED
      BY <1>3, <2>2, <3>1 DEF AddIdentifier, TypeOK
  <2>3. ASSUME NEW o \in Operators, Step(o), DeleteCustomer(o) PROVE owner'[i] = c
    BY <1>3, <2>3, DeleteActs
  <2>4. ASSUME NEW m \in Merges, Step(m), MergeIdentifiers(m)
        PROVE  owner'[i] = c \/ Dissolving(c)'
    <3>1. m \in Operators /\ m \in Requests /\ op[m] = "merge" /\ Operating(m)
      BY DEF Merges, Called, Requests, Directory
    <3>2. pc'[m] = "delete_customer"
      <4>1. pc[m] = "merge_identifiers"
        BY <2>4 DEF MergeIdentifiers, At
      <4> QED
        BY <2>4, <3>1, <4>1, MergeActs DEF MergeMemories, DeleteCustomer, At
    <3>3. m \in Merges' /\ other' = other
      BY <2>4, <3>1, StepFrame DEF StepOf, inputs, Merges, Called
    <3>4. owner[i] # other[m] => owner'[i] = owner[i]
      BY <2>4 DEF MergeIdentifiers, TypeOK
    <3>5. CASE other[m] = c
      BY <3>2, <3>3, <3>5 DEF Dissolving
    <3> QED
      BY <1>3, <3>4, <3>5
  <2> QED
    BY <1>3, <2>1, <2>2, <2>3, <2>4, OwnerFrom
<1> QED
  BY <1>1, <1>2, <1>3 DEF Dissolving

\* An identifier's row names a customer that exists.
LEMMA OwnedStep ==
  ASSUME ~Postgres, TypeInv, Directory, [Next]_vars, NEW i \in Identifiers, owner'[i] # Nil
  PROVE  owner'[i] \in customers'
<1> TypeOK
  BY DEF TypeInv
<1>1. owner[i] # Nil => owner[i] \in customers
  BY DEF Directory
<1>2. ASSUME NEW r \in Requests, AddIdentifier(r) PROVE owner'[i] \in customers'
  BY <1>1, <1>2 DEF AddIdentifier, TypeOK
<1>3. ASSUME NEW o \in Operators, Step(o), DeleteCustomer(o) PROVE owner'[i] \in customers'
  BY <1>1, <1>3, DeleteActs
<1>4. ASSUME NEW m \in Merges, MergeIdentifiers(m) PROVE owner'[i] \in customers'
  BY <1>1, <1>4 DEF MergeIdentifiers
<1> QED
  BY <1>1, <1>2, <1>3, <1>4, OwnerFrom DEF Requests, Links, Called

\* A resolve that misses adds its customer and the identifier's row in one turn.
LEMMA CreatingStep ==
  ASSUME ~Postgres, TypeInv, Directory, [Next]_vars, NEW r \in Resolvers
  PROVE  Creating(r)'
<1> r \in Requests /\ r \notin Operators /\ TypeOK
  BY ResolverAssumption DEF Requests, TypeInv
<1>1. Creating(r)
  BY DEF Directory
<1>2. ASSUME Step(r) PROVE Creating(r)'
  <2>1. identifier' = identifier
    BY <1>2, StepFrame DEF StepOf, inputs
  <2>2. \A call \in {"find_by_identifier", "upsert_customer", "add_identifier"} :
          ~Remote(call) /\ ~Suspends(call)
    BY DEF Suspends, Remote, WarmCalls, HotCalls, SemanticCalls, Returned
  <2> USE DEF At, Goto, Fail, Return, TypeOK
  <2>3. CASE FindByIdentifier(r)
    <3>1. pc'[r] = "upsert_customer" =>
            loop' = r /\ found'[r] = r /\ owner[identifier[r]] \notin customers
      BY <2>2, <2>3 DEF FindByIdentifier
    <3>2. identifier[r] \in Identifiers
      BY <2>3 DEF FindByIdentifier, TypeInv, Named
    <3>3. owner' = owner /\ pc'[r] # "add_identifier"
      BY <2>3 DEF FindByIdentifier, stores
    <3> QED
      BY <2>1, <3>1, <3>2, <3>3 DEF Directory, Creating
  <2>4. CASE UpsertCustomer(r)
    BY <1>1, <2>1, <2>2, <2>4 DEF UpsertCustomer, Creating
  <2>5. CASE pc'[r] \notin {"upsert_customer", "add_identifier"}
    BY <2>5 DEF Creating
  <2> QED
    BY <1>2, <2>3, <2>4, <2>5
    DEF Step, ResolveStep, WriteStep, Raise, GetIdentifierCache, GetCustomer, AddIdentifier,
        SetIdentifierCache, PlanWrite, UpsertPoint, InsertMemory
<1>3. ASSUME ~Step(r) PROVE Creating(r)'
  <2>1. CASE pc[r] \in {"upsert_customer", "add_identifier"}
    <3>1. UNCHANGED vars
      BY <1>1, <1>3, <2>1, LoopTurn DEF Creating
    <3> QED
      BY <1>1, <3>1 DEF Creating, vars
  <2>2. CASE pc'[r] \notin {"upsert_customer", "add_identifier"}
    BY <2>2 DEF Creating
  <2> QED
    BY <1>3, <2>1, <2>2, BegunGoesOn
<1> QED
  BY <1>2, <1>3

LEMMA DirectoryStep ==
  ASSUME ~Postgres, TypeInv, CreateInv, Directory, [Next]_vars
  PROVE  Directory'
<1>1. \A o \in Operators : Operating(o)'
  BY OperatingStep DEF Directory
<1>2. \A m \in Merges' : Moved(m)'
  BY MovedStep DEF Merges, Called
<1> QED
  BY <1>1, <1>2, OwnedStep, CreatingStep DEF Directory

\* How the identifier cache is filled.
LEMMA CacheFrom ==
  ASSUME TypeInv, [Next]_vars, NEW i \in Identifiers
  PROVE  \/ id_cache'[i] \in {Nil, id_cache[i]}
         \/ \E r \in Requests : /\ Step(r) /\ pc[r] = "set_identifier_cache"
                                /\ identifier[r] = i /\ id_cache'[i] = found[r]
<1> TypeOK
  BY DEF TypeInv
<1> USE DEF stores
<1>1. ASSUME NEW r \in Requests, Step(r), SetIdentifierCache(r)
      PROVE  id_cache'[i] = id_cache[i] \/ (identifier[r] = i /\ id_cache'[i] = found[r])
  BY <1>1 DEF SetIdentifierCache, TypeOK
<1>2. ASSUME NEW r \in Requests, Step(r)
      PROVE  UNCHANGED id_cache \/ (SetIdentifierCache(r) /\ pc[r] = "set_identifier_cache")
  BY <1>2
  DEF Step, ResolveStep, WriteStep, OperatorStep, Raise, GetIdentifierCache, GetCustomer,
      FindByIdentifier, UpsertCustomer, AddIdentifier, SetIdentifierCache, At, PlanWrite,
      UpsertPoint, InsertMemory, ForgetHot, DeleteCustomer, DeletePoints, MergeMemories,
      MergeIdentifiers, Invalidate
<1>3. Call => UNCHANGED stores
  BY CallFrame DEF CallOf, Operates
<1>4. ASSUME NEW j \in Identifiers, EvictIdentifier(j) PROVE id_cache'[i] \in {Nil, id_cache[i]}
  BY <1>4 DEF EvictIdentifier, TypeOK
<1>5. CASE UNCHANGED vars
  BY <1>5 DEF vars
<1> QED
  BY <1>1, <1>2, <1>3, <1>4, <1>5 DEF Next, Quiet

\* How a resolve comes to hold a customer for its identifier.
LEMMA HoldingFrom ==
  ASSUME ~Postgres, TypeInv, Directory, NEW r \in Resolvers, Step(r), Holding(r)'
  PROVE  \/ Holding(r) /\ found'[r] = found[r]
         \/ found'[r] = id_cache[identifier[r]] /\ found'[r] # Nil /\ pc'[r] = "get_customer"
         \/ found'[r] \in customers /\ found'[r] = owner[identifier[r]]
         \/ /\ pc[r] = "add_identifier" /\ found'[r] = r
            /\ owner'[identifier[r]] = r /\ UNCHANGED <<customers, id_cache>>
<1> r \in Requests /\ r \notin Operators /\ TypeOK
  BY ResolverAssumption DEF Requests, TypeInv
<1> USE DEF Holding, Resolved, At, Return, Goto, Fail, TypeOK
<1>1. CASE GetIdentifierCache(r)
  BY <1>1 DEF GetIdentifierCache
<1>2. CASE GetCustomer(r)
  BY <1>2 DEF GetCustomer
<1>3. CASE FindByIdentifier(r)
  BY <1>3 DEF FindByIdentifier
<1>4. CASE UpsertCustomer(r)
  BY <1>4 DEF UpsertCustomer
<1>5. CASE AddIdentifier(r)
  <2>1. found[r] = r /\ r \in customers /\ owner[identifier[r]] = Nil
    BY <1>5 DEF AddIdentifier, Directory, Creating
  <2>2. identifier[r] \in Identifiers
    BY <1>5 DEF AddIdentifier, TypeInv, Named
  <2> QED
    BY <1>5, <2>1, <2>2 DEF AddIdentifier
<1>6. CASE SetIdentifierCache(r)
  BY <1>6 DEF SetIdentifierCache
<1>7. CASE WriteStep(r)
  BY <1>7 DEF WriteStep, PlanWrite, UpsertPoint, InsertMemory
<1>8. CASE Raise(r)
  BY <1>8 DEF Raise
<1> QED
  BY <1>1, <1>2, <1>3, <1>4, <1>5, <1>6, <1>7, <1>8 DEF Step, ResolveStep

LEMMA AgreesStays ==
  ASSUME ~Postgres, TypeInv, CreateInv, Directory, [Next]_vars,
         NEW c, NEW i \in Identifiers, Agrees(c, i)
  PROVE  Agrees(c, i)'
<1>1. c \in Resolvers /\ PastCreate(c)' /\ PastCreate(c)
  BY PastCreateStays DEF Agrees
<1>2. Unlinked(i)' => Unlinked(i)
  <2>1. ASSUME NEW l \in Links
        PROVE  l \in Links' /\ identifier'[l] = identifier[l]
    <3>1. l \in Operators /\ l \in Requests /\ op[l] = "link" /\ pc[l] # "idle"
      BY DEF Links, Called, Directory, Operating, Requests
    <3> QED
      BY <3>1, BegunGoesOn DEF Links, Called
  <2> QED
    BY <2>1 DEF Unlinked
<1>3. Unlinked(i)' => Owns(c, i)'
  BY <1>1, <1>2, OwnsStays DEF Agrees, Unlinked
<1> QED
  BY <1>1, <1>3 DEF Agrees

LEMMA AgreementStep ==
  ASSUME ~Postgres, TypeInv, CreateInv, Directory, Agreement, [Next]_vars
  PROVE  Agreement'
<1> TypeOK
  BY DEF TypeInv
<1>1. ASSUME NEW r \in Resolvers, Holding(r)
      PROVE  identifier[r] \in Identifiers /\ Agrees(found[r], identifier[r])
  BY <1>1 DEF Agreement, Holding, Resolved, TypeInv, Named
<1>2. ASSUME NEW i \in Identifiers, id_cache'[i] # Nil
      PROVE  Agrees(id_cache[i], i)'
  <2>1. ASSUME NEW c, Agrees(c, i), id_cache'[i] = c
        PROVE  Agrees(id_cache[i], i)'
    <3>1. Agrees(c, i)'
      BY <2>1, AgreesStays
    <3> QED
      BY <2>1, <3>1 DEF Agrees, Owns, Dissolving, Unlinked, PastCreate
  <2>2. CASE id_cache'[i] = id_cache[i]
    BY <1>2, <2>1, <2>2 DEF Agreement
  <2>3. ASSUME NEW r \in Requests, Step(r), pc[r] = "set_identifier_cache", identifier[r] = i,
               id_cache'[i] = found[r]
        PROVE  Agrees(id_cache[i], i)'
    <3>1. CASE r \in Resolvers
      BY <1>1, <2>1, <2>3, <3>1 DEF Holding
    <3>2. CASE r \in Operators
      <4>1. Operating(r) /\ op[r] = "link"
        BY <2>3, <3>2 DEF Directory, Operating, TypeOK
      <4>2. found[r] \in Resolvers /\ PastCreate(found[r]) /\ ~Unlinked(i)
        BY <2>3, <3>2, <4>1 DEF Operating, Unlinked, Links, Called
      <4> QED
        BY <2>1, <2>3, <4>2 DEF Agrees
    <3> QED
      BY <3>1, <3>2 DEF Requests
  <2> QED
    BY <1>2, <2>2, <2>3, CacheFrom
<1>3. ASSUME NEW r \in Resolvers, Holding(r)'
      PROVE  Agrees(found[r], identifier[r])'
  <2> r \in Requests
    BY DEF Requests
  <2>1. pc[r] # "idle" /\ identifier'[r] = identifier[r] /\ identifier[r] \in Identifiers
    BY <1>3, BegunGoesOn DEF Holding, Resolved, FirstCalls, TypeInv, Named
  <2>2. ASSUME NEW c, Agrees(c, identifier[r]), found'[r] = c
        PROVE  Agrees(found[r], identifier[r])'
    <3>1. Agrees(c, identifier[r])'
      <4>1. \A i \in Identifiers : Agrees(c, i) => Agrees(c, i)'
        BY AgreesStays
      <4> QED
        BY <2>1, <2>2, <4>1 DEF Agrees, Owns, Dissolving, Unlinked, PastCreate
    <3> QED
      BY <2>1, <2>2, <3>1 DEF Agrees, Owns, Dissolving, Unlinked, PastCreate
  <2>3. CASE Holding(r) /\ found'[r] = found[r]
    BY <1>1, <2>2, <2>3
  <2>4. CASE found'[r] = id_cache[identifier[r]] /\ found'[r] # Nil
    BY <2>1, <2>2, <2>4 DEF Agreement
  <2>5. CASE found'[r] \in customers /\ found'[r] = owner[identifier[r]]
    <3>1. Agrees(found'[r], identifier[r])
      BY <2>5 DEF Agrees, Owns, CreateInv, TypeOK
    <3> QED
      BY <2>2, <3>1
  <2>6. CASE pc[r] = "add_identifier" /\ found'[r] = r /\ owner'[identifier[r]] = r
    <3>1. PastCreate(r)'
      BY <2>6, PastCreateStays DEF PastCreate
    <3> QED
      BY <2>1, <2>6, <3>1 DEF Agrees, Owns, PastCreate
  <2>7. CASE ~Step(r)
    <3>1. pc'[r] = pc[r] /\ found'[r] = found[r]
      BY <2>1, <2>7, BegunGoesOn
    <3> QED
      BY <1>3, <2>3, <3>1 DEF Holding, Resolved
  <2> QED
    BY <1>3, <2>3, <2>4, <2>5, <2>6, <2>7, HoldingFrom
<1> QED
  BY <1>2, <1>3 DEF Agreement

\* An operation, once called, keeps its arguments.
LEMMA CalledStays ==
  ASSUME TypeInv, Directory, [Next]_vars, NEW kind \in {"link", "forget", "merge"},
         NEW o \in Called(kind)
  PROVE  /\ o \in Called(kind)' /\ pc[o] # "idle" /\ identifier'[o] = identifier[o]
         /\ found'[o] = found[o] /\ other'[o] = other[o] /\ before'[o] = before[o]
         /\ Operating(o) /\ found[o] \in Resolvers /\ PastCreate(found[o])
<1>1. o \in Operators /\ o \in Requests /\ op[o] = kind /\ kind # Nil /\ Operating(o)
  BY ResolverAssumption DEF Called, Requests, Directory
<1>2. pc[o] # "idle" /\ found[o] \in Resolvers /\ PastCreate(found[o])
  BY <1>1 DEF Operating
<1> QED
  BY <1>1, <1>2, BegunGoesOn DEF Called

\* A customer is deleted by a delete only.
LEMMA CustomersStay ==
  ASSUME TypeInv, Directory, [Next]_vars
  PROVE  customers \subseteq customers' \/ \E o \in Operators : Step(o) /\ DeleteCustomer(o)
<1>1. \A r : AddIdentifier(r) => customers' = customers
  BY DEF AddIdentifier
<1>2. \A m : MergeIdentifiers(m) => customers' = customers
  BY DEF MergeIdentifiers
<1> QED
  BY <1>1, <1>2, OwnerFrom

\* What returned before takes no step.
LEMMA BeforeSettled ==
  ASSUME TypeInv, BeforeReturned, NEW r \in Requests, NEW q \in before[r], Step(q), q \in Requests
  PROVE  FALSE
BY StepFrame DEF StepOf, TypeInv, BeforeReturned, Returned

\* Nothing that deletes customers runs beside resolve r or after it.
Spared(r) == Called("forget") = {} /\ \A m \in Merges : m \in before[r]

\* What a resolve has settled on is there as long as nothing deletes it.
Existing ==
  \A r \in Resolvers :
    Spared(r) /\ (pc[r] = "set_identifier_cache" \/ Resolved(r)) => found[r] \in customers

LEMMA SparedStays ==
  ASSUME TypeInv, Directory, BeforeReturned, [Next]_vars, NEW r \in Resolvers, pc[r] # "idle",
         Spared(r)'
  PROVE  Spared(r) /\ customers \subseteq customers'
<1> r \in Requests
  BY DEF Requests
<1>1. before'[r] = before[r]
  BY BegunGoesOn
<1>2. Called("forget") = {} /\ \A m \in Merges : m \in before[r]
  <2>1. \A f \in Called("forget") : f \in Called("forget")'
    BY CalledStays
  <2>2. \A m \in Merges : m \in Merges'
    BY CalledStays DEF Merges
  <2> QED
    BY <1>1, <2>1, <2>2 DEF Spared
<1>3. ASSUME NEW o \in Operators, Step(o), DeleteCustomer(o) PROVE FALSE
  <2>1. o \in Requests /\ Operating(o) /\ pc[o] = "delete_customer"
    BY <1>3 DEF Requests, Directory, DeleteCustomer, At
  <2>2. op[o] \in {"forget", "merge"}
    BY <1>3, <2>1, OperatorActs DEF AddIdentifier, SetIdentifierCache, Raise, At, Operating
  <2>3. o \in Merges
    BY <1>2, <2>2 DEF Merges, Called
  <2> QED
    BY <1>2, <1>3, <2>1, <2>3, BeforeSettled
<1> QED
  BY <1>2, <1>3, CustomersStay DEF Spared

\* A customer that a resolve has settled on is there unless it was deleted since.
LEMMA ExistingStep ==
  ASSUME ~Postgres, TypeInv, CreateInv, Directory, BeforeReturned, Existing, [Next]_vars
  PROVE  Existing'
<1> SUFFICES ASSUME NEW r \in Resolvers, Spared(r)',
                    (pc[r] = "set_identifier_cache" \/ Resolved(r))'
             PROVE  found'[r] \in customers'
  BY DEF Existing
<1> r \in Requests /\ TypeOK
  BY DEF Requests, TypeInv
<1>1. pc[r] # "idle"
  BY BegunGoesOn DEF Resolved, FirstCalls
<1>2. Spared(r) /\ customers \subseteq customers'
  BY <1>1, SparedStays
<1>3. ASSUME Step(r) PROVE found'[r] \in customers
  <2>1. Answer(r)' /\ pc'[r] # "upsert_customer"
    BY DEF Answer, Resolved
  <2>2. CASE found'[r] \in customers
    BY <2>2
  <2>3. CASE Answer(r) /\ found'[r] = found[r]
    <3>1. CASE pc[r] = "set_identifier_cache" \/ Resolved(r)
      BY <1>2, <2>3, <3>1 DEF Existing
    <3>2. CASE pc[r] = "add_identifier"
      BY <2>3, <3>2 DEF Directory, Creating
    <3>3. CASE pc[r] = "upsert_customer"
      <4>1. pc'[r] \in {"add_identifier", "failed"}
        BY <1>3, <3>3, ResolverAssumption
        DEF Step, ResolveStep, WriteStep, Raise, GetIdentifierCache, GetCustomer, FindByIdentifier,
            UpsertCustomer, AddIdentifier, SetIdentifierCache, PlanWrite, UpsertPoint,
            InsertMemory, At, Goto, Fail, TypeOK
      <4> QED
        BY <4>1 DEF Resolved
    <3> QED
      BY <2>3, <3>1, <3>2, <3>3 DEF Answer
  <2> QED
    BY <1>3, <2>1, <2>2, <2>3, Answers
<1>4. ASSUME ~Step(r) PROVE found'[r] \in customers
  <2>1. pc'[r] = pc[r] /\ found'[r] = found[r]
    BY <1>1, <1>4, BegunGoesOn
  <2> QED
    BY <1>2, <2>1 DEF Existing, Resolved
<1> QED
  BY <1>2, <1>3, <1>4

-----------------------------------------------------------------------------
(* Links.                                                                  *)

\* No resolve of its identifier ran beside link l, and the other links of it had
\* returned before.
Undisturbed(l) ==
  /\ \A q \in Resolvers : Begun(q) /\ identifier[q] = identifier[l] => Apart(q, l)
  /\ \A k \in Links \ {l} : identifier[k] = identifier[l] => k \in before[l]

\* Resolve q creates nothing, and has no other customer than c.
Follows(q, c) ==
  /\ pc[q] \notin {"upsert_customer", "add_identifier"}
  /\ Holding(q) => found[q] = c

\* A link that nothing disturbed holds: in the row, in the cache, and for who came later.
Linked == \A l \in Links : Undisturbed(l) /\ found[l] \in customers =>
  /\ pc[l] \in {"set_identifier_cache", "done"} => Owns(found[l], identifier[l])
  /\ pc[l] = "done" =>
       /\ id_cache[identifier[l]] \in {Nil, found[l]}
       /\ \A q \in Resolvers : l \in before[q] /\ identifier[q] = identifier[l]
                                 => Follows(q, found[l])

\* What nothing has disturbed so far was not disturbed before.
LEMMA UndisturbedStays ==
  ASSUME TypeInv, Directory, [Next]_vars, NEW l \in Links, Undisturbed(l)'
  PROVE  Undisturbed(l)
<1>1. l \in Operators /\ l \in Requests /\ l \in Links'
      /\ identifier'[l] = identifier[l] /\ before'[l] = before[l]
  BY CalledStays DEF Links, Called, Requests
<1>2. ASSUME NEW q \in Resolvers, Begun(q), identifier[q] = identifier[l]
      PROVE  Apart(q, l)
  <2>1. q \in Requests /\ Begun(q)' /\ identifier'[q] = identifier[q] /\ before'[q] = before[q]
    BY <1>2, BegunGoesOn DEF Begun, Requests
  <2> QED
    BY <1>1, <1>2, <2>1 DEF Undisturbed, Apart
<1>3. ASSUME NEW k \in Links \ {l}, identifier[k] = identifier[l]
      PROVE  k \in before[l]
  <2>1. k \in Links' /\ identifier'[k] = identifier[k]
    BY CalledStays DEF Links
  <2> QED
    BY <1>1, <1>3, <2>1 DEF Undisturbed
<1> QED
  BY <1>2, <1>3 DEF Undisturbed

\* A resolve begun after the link follows it.
LEMMA FollowsStep ==
  ASSUME ~Postgres, TypeInv, Directory, [Next]_vars, NEW q \in Resolvers, NEW c \in customers,
         pc[q] # "idle", Follows(q, c), Owns(c, identifier[q]), id_cache[identifier[q]] \in {Nil, c}
  PROVE  Follows(q, c)'
<1> q \in Requests /\ q \notin Operators /\ TypeOK
  BY ResolverAssumption DEF Requests, TypeInv
<1>1. CASE ~Step(q)
  BY <1>1, BegunGoesOn DEF Follows, Holding, Resolved
<1>2. CASE Step(q)
  <2>1. owner[identifier[q]] = c
    <3>1. ASSUME NEW m \in Merges, pc[m] = "delete_customer" PROVE FALSE
      <4>1. m \in Requests /\ m # q /\ loop = m
        BY <3>1, ResolverAssumption DEF Merges, Called, Requests, Directory, Moved
      <4>2. m # Nil
        BY <4>1, ResolverAssumption
      <4> QED
        BY <1>2, <4>1, <4>2, StepLoop
    <3> QED
      BY <3>1 DEF Owns, Dissolving
  <2>2. pc'[q] \notin {"upsert_customer", "add_identifier"}
    BY <1>2, <2>1
    DEF Follows, Step, ResolveStep, WriteStep, Raise, GetIdentifierCache, GetCustomer,
        FindByIdentifier, UpsertCustomer, AddIdentifier, SetIdentifierCache, PlanWrite,
        UpsertPoint, InsertMemory, At, Goto, Return, Fail, TypeOK
  <2>3. Holding(q)' => found'[q] = c
    BY <1>2, <2>1, HoldingFrom DEF Follows
  <2> QED
    BY <2>2, <2>3 DEF Follows
<1> QED
  BY <1>1, <1>2

LEMMA LinkedStep ==
  ASSUME ~Postgres, TypeInv, CreateInv, Directory, BeforeReturned, Linked, [Next]_vars
  PROVE  Linked'
<1> TypeOK /\ BeforeReturned' /\ Links \subseteq Operators /\ Operators \subseteq Requests
  BY BeforeStep DEF TypeInv, Links, Called, Requests
<1> SUFFICES ASSUME NEW l \in Links', Undisturbed(l)', found'[l] \in customers'
             PROVE  /\ pc'[l] \in {"set_identifier_cache", "done"} => Owns(found[l], identifier[l])'
                    /\ pc'[l] = "done" =>
                         /\ id_cache'[identifier'[l]] \in {Nil, found'[l]}
                         /\ \A q \in Resolvers : l \in before'[q] /\ identifier'[q] = identifier'[l]
                                                   => Follows(q, found[l])'
  BY DEF Linked
<1> l \in Operators /\ l \in Requests /\ l \notin Resolvers /\ l \notin Writers
  BY ResolverAssumption DEF Links, Called, Requests
<1>1. CASE pc[l] = "idle"
  BY <1>1, BegunGoesOn DEF FirstCalls
<1>2. CASE pc[l] # "idle"
  <2> DEFINE c == found[l]
             i == identifier[l]
  <2>1. l \in Links
    BY <1>2, BegunGoesOn DEF Links, Called
  <2>2. /\ op[l] = "link" /\ found'[l] = c /\ identifier'[l] = i /\ before'[l] = before[l]
        /\ Operating(l) /\ i \in Identifiers /\ c \in Resolvers /\ PastCreate(c)
    BY <2>1, CalledStays DEF Links, Called, Operating
  <2>3. Undisturbed(l) /\ c \in customers
    BY <2>1, <2>2, UndisturbedStays, NotCreated
  <2>4. Step(l) => AddIdentifier(l) \/ SetIdentifierCache(l) \/ Raise(l)
    BY <2>2, OperatorActs
  <2>5. pc[l] \in {"add_identifier", "set_identifier_cache", "done", "failed"}
    BY <2>2 DEF Operating
  <2>6. pc[l] \in {"done", "failed"} => ~Step(l)
    BY StepFrame DEF StepOf
  <2>7. ~Step(l) => pc'[l] = pc[l]
    BY <1>2, BegunGoesOn
  <2>8. ASSUME pc'[l] \in {"set_identifier_cache", "done"}
        PROVE  Owns(found[l], identifier[l])'
    <3>1. CASE pc[l] = "add_identifier"
      <4>1. AddIdentifier(l)
        BY <2>4, <2>7, <2>8, <3>1 DEF SetIdentifierCache, Raise, At, Fail, TypeOK
      <4>2. owner'[i] = c
        BY <2>2, <2>3, <4>1 DEF AddIdentifier, TypeOK
      <4> QED
        BY <2>2, <4>2 DEF Owns
    <3>2. CASE pc[l] \in {"set_identifier_cache", "done"}
      <4>1. Owns(c, i)
        BY <2>1, <2>3, <3>2 DEF Linked
      <4>2. ASSUME NEW k \in Links, pc[k] = "add_identifier" PROVE identifier[k] # i
        <5>1. k # l => k \notin before[l]
          BY <4>2 DEF BeforeReturned, Returned
        <5> QED
          BY <2>3, <3>2, <4>2, <5>1 DEF Undisturbed
      <4>3. \A d \in Resolvers, j \in Identifiers :
              /\ PastCreate(d) /\ Owns(d, j)
              /\ \A k \in Links : pc[k] = "add_identifier" => identifier[k] # j
              => Owns(d, j)'
        BY OwnsStays
      <4>4. ASSUME NEW d, NEW j, d = found'[l], j = identifier'[l], Owns(d, j)'
            PROVE  Owns(found[l], identifier[l])'
        BY <4>4 DEF Owns, Dissolving
      <4> QED
        BY <2>2, <4>1, <4>2, <4>3, <4>4
    <3> QED
      BY <2>5, <2>6, <2>7, <2>8, <3>1, <3>2
  <2>9. ASSUME pc'[l] = "done"
        PROVE  id_cache'[i] \in {Nil, c}
    <3>1. CASE pc[l] = "done"
      <4>1. id_cache[i] \in {Nil, c}
        BY <2>1, <2>3, <3>1 DEF Linked
      <4>2. ASSUME NEW r \in Requests, Step(r), pc[r] = "set_identifier_cache",
                   identifier[r] = i
            PROVE  found[r] = c
        <5>1. r \notin before[l]
          BY <4>2 DEF BeforeReturned, Returned
        <5>2. r \in Resolvers
          <6>1. ASSUME r \in Operators PROVE FALSE
            <7>1. Operating(r) /\ op[r] = "link"
              BY <4>2, <6>1 DEF Directory, Operating, TypeOK
            <7>2. r \in Links \ {l}
              BY <3>1, <4>2, <6>1, <7>1 DEF Links, Called
            <7> QED
              BY <2>3, <4>2, <5>1, <7>2 DEF Undisturbed
          <6> QED
            BY <6>1 DEF Requests
        <5>3. l \in before[r]
          BY <2>3, <4>2, <5>1, <5>2 DEF Undisturbed, Begun, Apart
        <5>4. Follows(r, c)
          BY <2>1, <2>3, <3>1, <4>2, <5>2, <5>3 DEF Linked
        <5> QED
          BY <4>2, <5>4 DEF Follows, Holding
      <4> QED
        BY <2>2, <4>1, <4>2, CacheFrom
    <3>2. CASE pc[l] # "done"
      <4>1. SetIdentifierCache(l)
        BY <2>4, <2>7, <2>9, <3>2 DEF AddIdentifier, Raise, At, Goto, Fail, TypeOK
      <4> QED
        BY <2>2, <4>1 DEF SetIdentifierCache, TypeOK
    <3> QED
      BY <3>1, <3>2
  <2>10. ASSUME pc'[l] = "done", NEW q \in Resolvers, l \in before'[q], identifier'[q] = i
         PROVE  Follows(q, found[l])'
    <3> q \in Requests
      BY DEF Requests
    <3>1. CASE pc[q] = "idle"
      <4>1. pc'[q] \in {"idle", "get_identifier_cache"}
        BY <3>1, BegunGoesOn
      <4> QED
        BY <4>1 DEF Follows, Holding, Resolved
    <3>2. CASE pc[q] # "idle"
      <4>1. l \in before[q] /\ identifier[q] = i
        BY <2>10, <3>2, BegunGoesOn
      <4>2. pc[l] = "done"
        <5>1. pc[l] \in Returned
          BY <4>1 DEF BeforeReturned
        <5> QED
          BY <2>6, <2>7, <2>10, <5>1 DEF Returned
      <4>3. Follows(q, c) /\ Owns(c, identifier[q]) /\ id_cache[identifier[q]] \in {Nil, c}
        BY <2>1, <2>3, <4>1, <4>2 DEF Linked
      <4>4. \A d \in customers : /\ Follows(q, d) /\ Owns(d, identifier[q])
                                 /\ id_cache[identifier[q]] \in {Nil, d}
                                 => Follows(q, d)'
        BY <3>2, FollowsStep
      <4>5. ASSUME NEW d, d = found'[l], Follows(q, d)' PROVE Follows(q, found[l])'
        BY <4>5 DEF Follows
      <4> QED
        BY <2>2, <2>3, <4>3, <4>4, <4>5
    <3> QED
      BY <3>1, <3>2
  <2> QED
    BY <2>2, <2>8, <2>9, <2>10
<1> QED
  BY <1>1, <1>2

-----------------------------------------------------------------------------
(* Merges.                                                                 *)

\* What w stored is its identifier's customer's, but between the two loops of a merge.
Findable(w) ==
  /\ rows[w] # Nil
  /\ \/ owner[identifier[w]] = rows[w]
     \/ \E m \in Merges : /\ pc[m] = "merge_identifiers"
                          /\ owner[identifier[w]] = other[m] /\ rows[w] = found[m]

\* The identifier of w is not linked, nothing is forgotten, and the merges run
\* beside no step of w and into customers that exist.
Orderly(w) ==
  /\ Unlinked(identifier[w]) /\ Called("forget") = {}
  /\ \A m \in Merges : Apart(m, w) /\ found[m] \in customers

Kept == \A w \in Writers : pc[w] = "done" /\ Orderly(w) => Findable(w)

\* The steps that write the row of a write's memory.
LEMMA RowFrom ==
  ASSUME TypeInv, Directory, [Next]_vars, NEW w \in Writers
  PROVE  \/ rows'[w] = rows[w]
         \/ Step(w) /\ InsertMemory(w)
         \/ \E m \in Merges : Step(m) /\ MergeMemories(m)
         \/ \E o \in Operators : Step(o) /\ DeleteCustomer(o)
<1> TypeOK
  BY DEF TypeInv
<1> USE DEF stores
<1>1. ASSUME NEW v \in Writers, Step(v), InsertMemory(v), v # w PROVE rows'[w] = rows[w]
  BY <1>1 DEF InsertMemory, TypeOK
<1>2. ASSUME NEW r \in Resolvers, Step(r)
      PROVE  rows' = rows \/ (r \in Writers /\ InsertMemory(r))
  <2> r \notin Operators
    BY ResolverAssumption
  <2> QED
    BY <1>2
    DEF Step, ResolveStep, WriteStep, Raise, GetIdentifierCache, GetCustomer, FindByIdentifier,
        UpsertCustomer, AddIdentifier, SetIdentifierCache, PlanWrite, UpsertPoint
<1>3. ASSUME NEW o \in Operators, Step(o)
      PROVE  \/ rows' = rows
             \/ MergeMemories(o) /\ o \in Merges
             \/ DeleteCustomer(o)
  <2>1. Operating(o)
    BY DEF Directory
  <2> QED
    BY <1>3, <2>1, OperatorActs
    DEF Merges, Called, AddIdentifier, SetIdentifierCache, Raise, ForgetHot, DeletePoints,
        MergeIdentifiers, Invalidate
<1>4. Call => UNCHANGED stores
  BY CallFrame DEF CallOf, Operates
<1>5. CASE (\E i \in Identifiers : EvictIdentifier(i)) \/ UNCHANGED vars
  BY <1>5 DEF EvictIdentifier, vars
<1> QED
  BY <1>1, <1>2, <1>3, <1>4, <1>5, ResolverAssumption DEF Next, Quiet, Requests

LEMMA OrderlyStays ==
  ASSUME TypeInv, Directory, [Next]_vars, NEW w \in Writers, pc[w] # "idle", Orderly(w)'
  PROVE  Orderly(w)
<1> w \in Requests
  BY ResolverAssumption DEF Requests
<1>1. identifier'[w] = identifier[w] /\ before'[w] = before[w]
  BY BegunGoesOn
<1>2. Called("forget") = {}
  BY CalledStays DEF Orderly
<1>3. Unlinked(identifier[w])
  <2>1. \A l \in Links : l \in Links' /\ identifier'[l] = identifier[l]
    BY CalledStays DEF Links
  <2> QED
    BY <1>1, <2>1 DEF Orderly, Unlinked
<1>4. ASSUME NEW m \in Merges
      PROVE  Apart(m, w) /\ found[m] \in customers
  <2>1. /\ m \in Merges' /\ before'[m] = before[m] /\ found'[m] = found[m]
        /\ found[m] \in Resolvers /\ PastCreate(found[m])
    BY CalledStays DEF Merges
  <2>2. found[m] \in customers
    BY <2>1, NotCreated DEF Orderly
  <2> QED
    BY <1>1, <2>1, <2>2 DEF Orderly, Apart
<1> QED
  BY <1>2, <1>3, <1>4 DEF Orderly

\* A write stores under the customer that its identifier has by then.
LEMMA InsertFindable ==
  ASSUME ~Postgres, TypeInv, CreateInv, Directory, Agreement, Existing, BeforeReturned,
         [Next]_vars, NEW w \in Writers, Step(w), InsertMemory(w), Orderly(w)
  PROVE  Findable(w)'
<1> w \in Requests /\ w \in Resolvers /\ TypeOK /\ Nil \notin Resolvers
  BY ResolverAssumption DEF Requests, TypeInv
<1>1. pc[w] = "insert_memory" /\ identifier'[w] = identifier[w] /\ owner' = owner
  BY StepFrame DEF InsertMemory, At, StepOf, inputs
<1>2. \A m \in Merges : m \in before[w]
  BY <1>1 DEF Orderly, Apart, BeforeReturned, Returned, Merges, Called, Requests
<1>3. found[w] \in customers
  BY <1>1, <1>2 DEF Existing, Spared, Orderly, Resolved
<1>4. ~Dissolving(found[w])
  BY <1>2 DEF Dissolving, BeforeReturned, Returned
<1>5. owner[identifier[w]] = found[w]
  BY <1>1, <1>3, <1>4 DEF Agreement, Holding, Resolved, Agrees, Owns, Orderly
<1>6. rows'[w] = found[w] /\ found[w] # Nil
  BY <1>3 DEF InsertMemory, TypeOK
<1> QED
  BY <1>1, <1>5, <1>6 DEF Findable

\* A merge moves the row and then the identifier, both or neither.
LEMMA FindableStays ==
  ASSUME ~Postgres, TypeInv, Directory, [Next]_vars, NEW w \in Writers, pc[w] = "done",
         Orderly(w), Findable(w)
  PROVE  Findable(w)'
<1> w \in Requests /\ w \in Resolvers /\ TypeOK /\ Nil \notin Resolvers
  BY ResolverAssumption DEF Requests, TypeInv
<1> DEFINE i == identifier[w]
<1>1. identifier'[w] = i /\ i \in Identifiers /\ ~Step(w)
  BY BegunGoesOn, StepFrame DEF StepOf, TypeInv, Named
<1>2. \A m \in Merges : /\ m \in Merges' /\ m \in Operators /\ m \in Requests
                        /\ Operating(m) /\ Moved(m)
                        /\ found'[m] = found[m] /\ other'[m] = other[m]
                        /\ found[m] \in customers /\ pc[m] # "idle"
  BY CalledStays DEF Merges, Called, Requests, Directory, Orderly
<1>3. ASSUME NEW m \in Merges, pc[m] = "merge_identifiers",
             owner[i] = other[m], rows[w] = found[m]
      PROVE  Findable(w)'
  <2>1. loop = m
    BY <1>2, <1>3 DEF Moved
  <2>2. CASE Step(m)
    <3>1. MergeIdentifiers(m)
      BY <1>2, <1>3, <2>2, MergeActs DEF MergeMemories, DeleteCustomer, At
    <3>2. owner'[i] = found[m] /\ rows' = rows
      BY <1>1, <1>2, <1>3, <3>1 DEF MergeIdentifiers
    <3> QED
      BY <1>1, <1>3, <3>2 DEF Findable
  <2>3. CASE UNCHANGED vars
    BY <2>3 DEF Findable, Merges, Called, vars
  <2> QED
    BY <1>2, <2>1, <2>2, <2>3, LoopTurn
<1>4. ASSUME owner[i] = rows[w], rows[w] # Nil
      PROVE  Findable(w)'
  <2>1. ASSUME owner'[i] = owner[i], rows'[w] = rows[w] PROVE Findable(w)'
    BY <1>1, <1>4, <2>1 DEF Findable
  <2>2. ASSUME NEW r \in Resolvers, Step(r), AddIdentifier(r) PROVE Findable(w)'
    <3>1. owner[identifier[r]] = Nil
      BY <2>2 DEF AddIdentifier, At, Directory, Creating
    <3>2. owner'[i] = owner[i] /\ rows' = rows
      BY <1>1, <1>4, <2>2, <3>1 DEF AddIdentifier, TypeOK
    <3> QED
      BY <2>1, <3>2
  <2>3. ASSUME NEW l \in Links, Step(l), AddIdentifier(l) PROVE Findable(w)'
    <3>1. owner'[i] = owner[i] /\ rows' = rows
      BY <1>1, <2>3 DEF AddIdentifier, Orderly, Unlinked, TypeOK
    <3> QED
      BY <2>1, <3>1
  <2>4. ASSUME NEW m \in Merges, Step(m), MergeMemories(m) PROVE Findable(w)'
    <3>1. /\ owner' = owner
          /\ rows'[w] = IF rows[w] = other[m] THEN found[m] ELSE rows[w]
          /\ pc'[m] = "merge_identifiers"
      <4>1. pc[m] = "merge_memories"
        BY <2>4 DEF MergeMemories, At
      <4> QED
        BY <1>2, <2>4, <4>1, MergeActs DEF MergeMemories, MergeIdentifiers, DeleteCustomer, At
    <3>2. CASE rows[w] = other[m]
      <4>1. found[m] # Nil
        BY <1>2 DEF TypeOK
      <4> QED
        BY <1>1, <1>2, <1>4, <3>1, <3>2, <4>1 DEF Findable
    <3> QED
      BY <2>1, <3>1, <3>2
  <2>5. ASSUME NEW m \in Merges, Step(m), MergeIdentifiers(m) PROVE Findable(w)'
    <3>1. rows[w] # other[m]
      BY <1>2, <2>5 DEF MergeIdentifiers, At, Moved
    <3>2. owner'[i] = owner[i] /\ rows' = rows
      BY <1>1, <1>4, <2>5, <3>1 DEF MergeIdentifiers
    <3> QED
      BY <2>1, <3>2
  <2>6. ASSUME NEW o \in Operators, Step(o), DeleteCustomer(o) PROVE Findable(w)'
    <3>1. pc[o] = "delete_customer" /\ Operating(o)
      BY <2>6 DEF DeleteCustomer, At, Directory
    <3>2. op[o] = "merge" /\ o \in Merges
      BY <2>6, <3>1, OperatorActs
      DEF Orderly, Called, Merges, AddIdentifier, SetIdentifierCache, Raise, Operating
    <3>3. owner[i] # other[o] /\ rows[w] # other[o]
      BY <1>1, <1>2, <3>1, <3>2 DEF Moved
    <3>4. owner'[i] = owner[i] /\ rows'[w] = rows[w]
      BY <1>1, <2>6, <3>2, <3>3, DeleteActs
    <3> QED
      BY <2>1, <3>4
  <2> HIDE DEF i
  <2> QED
    BY <1>1, <2>1, <2>2, <2>3, <2>4, <2>5, <2>6, OwnerFrom, RowFrom
<1> QED
  BY <1>3, <1>4 DEF Findable

LEMMA KeptStep ==
  ASSUME ~Postgres, TypeInv, CreateInv, Directory, Agreement, Existing, BeforeReturned, Kept,
         [Next]_vars
  PROVE  Kept'
<1> SUFFICES ASSUME NEW w \in Writers, pc'[w] = "done", Orderly(w)' PROVE Findable(w)'
  BY DEF Kept
<1> w \in Requests /\ w \in Resolvers /\ TypeOK
  BY ResolverAssumption DEF Requests, TypeInv
<1>1. pc[w] # "idle"
  BY BegunGoesOn DEF FirstCalls
<1>2. Orderly(w)
  BY <1>1, OrderlyStays
<1>3. CASE pc[w] = "done"
  <2>1. Findable(w)
    BY <1>2, <1>3 DEF Kept
  <2> QED
    BY <1>2, <1>3, <2>1, FindableStays
<1>4. CASE pc[w] # "done"
  <2>1. Step(w)
    BY <1>1, <1>4, BegunGoesOn
  <2>2. InsertMemory(w)
    BY <1>4, <2>1, ResolverAssumption
    DEF Step, ResolveStep, WriteStep, Raise, GetIdentifierCache, GetCustomer, FindByIdentifier,
        UpsertCustomer, AddIdentifier, SetIdentifierCache, PlanWrite, UpsertPoint, At, Goto,
        Return, Fail, TypeOK
  <2> QED
    BY <1>2, <2>1, <2>2, InsertFindable
<1> QED
  BY <1>3, <1>4

IdentityInv == Directory /\ Agreement /\ Existing /\ Linked /\ Kept

LEMMA IdentityCorrect ==
  ASSUME ~Postgres
  PROVE  Spec => []IdentityInv
<1>1. ASSUME Init PROVE IdentityInv
  <2>1. \A kind \in {"link", "forget", "merge"} : Called(kind) = {}
    BY <1>1, ResolverAssumption DEF Init, Called
  <2>2. Directory
    BY <1>1, <2>1, ResolverAssumption
    DEF Init, Directory, Operating, Moved, Merges, Creating, Requests
  <2>3. Agreement /\ Existing
    BY <1>1 DEF Init, Agreement, Existing, Holding, Resolved, Requests
  <2>4. Linked /\ Kept
    BY <1>1, <2>1, ResolverAssumption DEF Init, Linked, Links, Kept, Requests
  <2> QED
    BY <2>2, <2>3, <2>4 DEF IdentityInv
<1>2. TypeInv /\ CreateInv /\ BeforeReturned /\ IdentityInv /\ [Next]_vars => IdentityInv'
  BY DirectoryStep, AgreementStep, ExistingStep, LinkedStep, KeptStep DEF IdentityInv
<1>3. Init => BeforeReturned
  BY DEF Init, BeforeReturned
<1>4. TypeInv /\ BeforeReturned /\ [Next]_vars => BeforeReturned'
  BY BeforeStep
<1> QED
  BY <1>1, <1>2, <1>3, <1>4, TypeCorrect, CustomersMade, PTL DEF Spec

\* Off Postgres, resolves of one identifier answer with one customer
\* (SameCustomer), however their cache lookups, creations and cache writes
\* interleave, because find and create are one turn of the event loop.
THEOREM OneCustomerInMemory ==
  ASSUME ~Postgres
  PROVE  Spec => []SameCustomer
<1>1. ASSUME TypeInv, IdentityInv PROVE SameCustomer
  <2> SUFFICES ASSUME NEW r \in Resolvers, Resolved(r), \A o \in Operators : ~Begun(o)
               PROVE  found[r] = owner[identifier[r]]
    BY DEF SameCustomer
  <2>1. \A o \in Operators : op[o] = Nil
    BY <1>1 DEF Begun, IdentityInv, Directory, Operating
  <2>2. \A kind \in {"link", "forget", "merge"} : Called(kind) = {}
    BY <2>1, ResolverAssumption DEF Called
  <2>3. found[r] \in customers
    BY <1>1, <2>2 DEF IdentityInv, Existing, Spared, Merges
  <2>4. Agrees(found[r], identifier[r])
    BY <1>1 DEF IdentityInv, Agreement, Holding
  <2> QED
    BY <2>2, <2>3, <2>4 DEF Agrees, Owns, Unlinked, Dissolving, Links, Merges
<1> QED
  BY <1>1, IdentityCorrect, TypeCorrect, PTL

\* Off Postgres, a resolve that begins after a link has returned gives the linked
\* customer, whatever else is resolved, forgotten or merged.
THEOREM LinksHold ==
  ASSUME ~Postgres
  PROVE  Spec => []SerialLinksHold
<1>1. IdentityInv => SerialLinksHold
  BY DEF IdentityInv, Linked, Undisturbed, Follows, Holding, Links, SerialLinksHold
<1> QED
  BY <1>1, IdentityCorrect, PTL

\* Off Postgres, what was written under an identifier is found under it after any
\* merges, those that ran beside the write or the resolve set aside.
THEOREM MergesKeepMemories ==
  ASSUME ~Postgres
  PROVE  Spec => []FoundAgain
<1>1. ASSUME TypeInv, BeforeReturned, IdentityInv PROVE FoundAgain
  <2> SUFFICES ASSUME NEW w \in Writers, NEW r \in Resolvers,
                      pc[w] = "done", Resolved(r), identifier[w] = identifier[r],
                      \A l \in Links : identifier[l] # identifier[w], Called("forget") = {},
                      \A m \in Merges : m \in before[r] /\ Apart(m, w) /\ found[m] \in customers
               PROVE  rows[w] = found[r]
    BY DEF FoundAgain, Links, Merges
  <2>1. \A m \in Merges : pc[m] \in Returned
    BY <1>1 DEF BeforeReturned, Requests
  <2>2. owner[identifier[w]] = rows[w]
    BY <1>1, <2>1 DEF IdentityInv, Kept, Orderly, Unlinked, Findable, Returned
  <2>3. found[r] \in customers
    BY <1>1 DEF IdentityInv, Existing, Spared
  <2>4. owner[identifier[r]] = found[r]
    BY <1>1, <2>1, <2>3
    DEF IdentityInv, Agreement, Holding, Agrees, Owns, Unlinked, Dissolving, Returned
  <2> QED
    BY <2>2, <2>4
<1>2. Init => BeforeReturned
  BY DEF Init, BeforeReturned
<1>3. TypeInv /\ BeforeReturned /\ [Next]_vars => BeforeReturned'
  BY BeforeStep
<1> QED
  BY <1>1, <1>2, <1>3, IdentityCorrect, TypeCorrect, PTL DEF Spec
==============================================================================
