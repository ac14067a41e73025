--------------------------- MODULE IdentityResolver ---------------------------
(***************************************************************************)
(* The identity-first API of one Memnex tenant: resolve, link_identity,    *)
(* the write that resolves its caller first, forget_customer as far as it  *)
(* concerns identities, and the identity merge worker.  They share the     *)
(* warm store's customers and identifiers, the memories those own, and the *)
(* hot store's identifier cache.                                           *)
(*                                                                         *)
(* Tasks, turns of the event loop, remote calls and faults are those of    *)
(* MemoryManager; the write is reduced to where its memory ends up.        *)
(***************************************************************************)
EXTENDS Naturals, FiniteSets

CONSTANTS
  Resolvers,    \* resolve requests, each made once; also the uuid of the
                \* customer that the request creates, if it creates one
  Writers,      \* those of them that are the start of a write
  Lookups,      \* those that pass auto_create=False, as a read does
  Operators,    \* requests of other kinds, each made once: link, forget or merge
  Identifiers,  \* (channel, normalized identifier)
  Redis, Postgres, Qdrant, RemoteModels,   \* which backends are remote
  Faulty,       \* the requests whose remote calls may raise
  Nil           \* Python's None

Requests == Resolvers \cup Operators

ASSUME ResolverAssumption ==
  /\ Writers \subseteq Resolvers /\ Lookups \subseteq Resolvers \ Writers
  /\ Resolvers \cap Operators = {}
  /\ Nil \notin Requests \cup Identifiers \cup {"link", "forget", "merge"}
  /\ {Redis, Postgres, Qdrant, RemoteModels} \subseteq BOOLEAN

VARIABLES
  customers,   \* warm store: customer rows
  owner,       \* warm store: the customer_id of each identifier, Nil: no row
  rows,        \* warm store: the customer_id of each write's memory, Nil: no row
  points,      \* semantic store: the customer_id of each write's point
  id_cache,    \* hot store: identifier cache, Nil: a miss
  loop,        \* the task holding the event loop, or Nil
  pc,          \* the call each request makes next
  identifier,  \* the identifier each resolve or link is for
  found,       \* the customer each request resolved, links, forgets or merges into
  other,       \* the customer each merge merges away
  op,          \* what each operator asks for
  before       \* history: the requests that had returned when this one began

stores == <<customers, owner, rows, points, id_cache>>
inputs == <<identifier, other, op, before>>
vars == <<customers, owner, rows, points, id_cache, loop, pc,
          identifier, found, other, op, before>>

-----------------------------------------------------------------------------
(* Calls.                                                                  *)

Returned == {"done", "failed"}

WarmCalls == {"get_customer", "find_by_identifier", "upsert_customer", "add_identifier",
              "insert_memory", "merge_memories", "merge_identifiers", "delete_customer"}
HotCalls == {"get_identifier_cache", "set_identifier_cache", "forget_hot", "invalidate"}
SemanticCalls == {"upsert_point", "delete_points"}

Calls == {"idle", "write"} \cup WarmCalls \cup HotCalls \cup SemanticCalls \cup Returned

\* "write" stands for what manager.write does before it stores, which calls
\* the model providers and the version clock.
Remote(call) ==
  \/ Postgres /\ call \in WarmCalls
  \/ Redis /\ call \in HotCalls
  \/ Qdrant /\ call \in SemanticCalls
  \/ (RemoteModels \/ Redis) /\ call = "write"

\* Mutant: awaiting an in-memory store yields too.
SuspendsAlways(call) == TRUE

Suspends(call) == Remote(call) \/ call \in {"idle"} \cup Returned

At(r, call) == pc[r] = call /\ loop \in {r, Nil}

Goto(r, call) ==
  /\ \/ pc' = [pc EXCEPT ![r] = call]
     \/ r \in Faulty /\ Remote(pc[r]) /\ pc' = [pc EXCEPT ![r] = "failed"]
  /\ loop' = IF Suspends(pc[r]) \/ Suspends(pc'[r]) THEN Nil ELSE r

Fail(r) == pc' = [pc EXCEPT ![r] = "failed"] /\ loop' = Nil

Begin(r, call) ==
  /\ At(r, "idle")
  /\ before' = [before EXCEPT ![r] = {q \in Requests : pc[q] \in Returned}]
  /\ Goto(r, call)
  /\ UNCHANGED stores

-----------------------------------------------------------------------------
(* resolve                                                                 *)

Resolve(r, i) ==
  /\ Begin(r, "get_identifier_cache")
  /\ identifier' = [identifier EXCEPT ![r] = i]
  /\ UNCHANGED <<found, other, op>>

\* The customer is known: the resolve returns it, or its write goes on.
Return(r) == Goto(r, IF r \in Writers THEN "write" ELSE "done")

GetIdentifierCache(r) ==
  LET cached == id_cache[identifier[r]]
  IN  /\ At(r, "get_identifier_cache")
      /\ found' = [found EXCEPT ![r] = cached]
      /\ Goto(r, IF cached = Nil THEN "find_by_identifier" ELSE "get_customer")
      /\ UNCHANGED <<stores, inputs>>

\* Mutant: the cached customer is taken to exist.
GetCustomerTrusted(r) ==
  /\ At(r, "get_customer")
  /\ Return(r)
  /\ UNCHANGED <<stores, inputs, found>>

GetCustomer(r) ==
  /\ At(r, "get_customer")
  /\ \/ found[r] \in customers /\ Return(r)
     \/ found[r] \notin customers /\ Goto(r, "find_by_identifier")
  /\ UNCHANGED <<stores, inputs, found>>

\* The identifier's row and its customer are two queries on Postgres, where no
\* customer is ever deleted, so that one step stands for both.
FindByIdentifier(r) ==
  LET existing == owner[identifier[r]]
  IN  /\ At(r, "find_by_identifier")
      /\ \/ /\ existing \in customers
            /\ found' = [found EXCEPT ![r] = existing]
            /\ Goto(r, "set_identifier_cache")
         \/ /\ existing \notin customers /\ r \notin Lookups
            /\ found' = [found EXCEPT ![r] = r]
            /\ Goto(r, "upsert_customer")
         \/ /\ existing \notin customers /\ r \in Lookups
            /\ Fail(r)
            /\ UNCHANGED found
      /\ UNCHANGED <<stores, inputs>>

UpsertCustomer(r) ==
  /\ At(r, "upsert_customer")
  /\ customers' = customers \cup {r}
  /\ Goto(r, "add_identifier")
  /\ UNCHANGED <<owner, rows, points, id_cache, inputs, found>>

\* Postgres keeps the row there is, and raises for an unknown customer.  In
\* memory the new one replaces it; an unknown customer has no tenant, and its
\* identifier goes where no lookup finds it.
AddIdentifier(r) ==
  /\ At(r, "add_identifier")
  /\ \/ /\ found[r] \in customers
        /\ owner' = IF Postgres /\ owner[identifier[r]] # Nil
                    THEN owner
                    ELSE [owner EXCEPT ![identifier[r]] = found[r]]
        /\ Goto(r, "set_identifier_cache")
     \/ /\ found[r] \notin customers
        /\ IF Postgres THEN Fail(r) ELSE Goto(r, "set_identifier_cache")
        /\ UNCHANGED owner
  /\ UNCHANGED <<customers, rows, points, id_cache, inputs, found>>

\* Mutant: the arguments are swapped.
SetIdentifierCacheSwapped(r) ==
  /\ At(r, "set_identifier_cache")
  /\ id_cache' = [id_cache EXCEPT ![identifier[r]] = identifier[r]]
  /\ Return(r)
  /\ UNCHANGED <<customers, owner, rows, points, inputs, found>>

\* Mutant: an entry there is stays.
SetIdentifierCacheOnce(r) ==
  /\ At(r, "set_identifier_cache")
  /\ id_cache' = [id_cache EXCEPT ![identifier[r]] = IF @ = Nil THEN found[r] ELSE @]
  /\ Return(r)
  /\ UNCHANGED <<customers, owner, rows, points, inputs, found>>

SetIdentifierCache(r) ==
  /\ At(r, "set_identifier_cache")
  /\ id_cache' = [id_cache EXCEPT ![identifier[r]] = found[r]]
  /\ Return(r)
  /\ UNCHANGED <<customers, owner, rows, points, inputs, found>>

-----------------------------------------------------------------------------
(* The rest of a write that has something to store: its memory goes to the  *)
(* customer resolved above.                                                *)

PlanWrite(w) ==
  /\ At(w, "write")
  /\ Goto(w, "upsert_point")
  /\ UNCHANGED <<stores, inputs, found>>

UpsertPoint(w) ==
  /\ At(w, "upsert_point")
  /\ points' = [points EXCEPT ![w] = found[w]]
  /\ Goto(w, "insert_memory")
  /\ UNCHANGED <<customers, owner, rows, id_cache, inputs, found>>

InsertMemory(w) ==
  /\ At(w, "insert_memory")
  /\ rows' = [rows EXCEPT ![w] = found[w]]
  /\ Goto(w, "done")
  /\ UNCHANGED <<customers, owner, points, id_cache, inputs, found>>

-----------------------------------------------------------------------------
(* link_identity: its two calls are those that end a resolve.              *)

\* The customers that callers have been told of.
Known == {found[r] : r \in {q \in Resolvers : pc[q] = "done"}}

LinkIdentity(l, c, i) ==
  /\ Begin(l, "add_identifier")
  /\ identifier' = [identifier EXCEPT ![l] = i]
  /\ found' = [found EXCEPT ![l] = c]
  /\ op' = [op EXCEPT ![l] = "link"]
  /\ UNCHANGED other

-----------------------------------------------------------------------------
(* forget_customer.  The first call purges the working memory of the       *)
(* customer, which is not modelled here; the identifier cache stays.       *)

ForgetCustomer(f, c) ==
  /\ Begin(f, "forget_hot")
  /\ found' = [found EXCEPT ![f] = c]
  /\ op' = [op EXCEPT ![f] = "forget"]
  /\ UNCHANGED <<identifier, other>>

ForgetHot(f) ==
  /\ At(f, "forget_hot")
  /\ Goto(f, "delete_customer")
  /\ UNCHANGED <<stores, inputs, found>>

\* PostgreSQL refuses an aggregate in RETURNING, and the transaction with it.
DeleteCustomer(r) ==
  LET gone == IF op[r] = "merge" THEN other[r] ELSE found[r]
  IN  /\ At(r, "delete_customer")
      /\ IF Postgres
         THEN Fail(r) /\ UNCHANGED <<customers, owner, rows>>
         ELSE /\ customers' = customers \ {gone}
              /\ owner' = [i \in Identifiers |-> IF owner[i] = gone THEN Nil ELSE owner[i]]
              /\ rows' = [w \in Writers |-> IF rows[w] = gone THEN Nil ELSE rows[w]]
              /\ Goto(r, IF op[r] = "merge" THEN "invalidate" ELSE "delete_points")
      /\ UNCHANGED <<points, id_cache, inputs, found>>

DeletePoints(f) ==
  /\ At(f, "delete_points")
  /\ points' = [w \in Writers |-> IF points[w] = found[f] THEN Nil ELSE points[w]]
  /\ Goto(f, "done")
  /\ UNCHANGED <<customers, owner, rows, id_cache, inputs, found>>

-----------------------------------------------------------------------------
(* IdentityMergeWorker.merge.  Its loops run in one turn on the in-memory  *)
(* store; on Postgres none of their steps succeeds in changing a row.      *)

Merge(m, surviving, losing) ==
  /\ Begin(m, "merge_memories")
  /\ found' = [found EXCEPT ![m] = surviving]
  /\ other' = [other EXCEPT ![m] = losing]
  /\ op' = [op EXCEPT ![m] = "merge"]
  /\ UNCHANGED identifier

\* Mutant: only the identifiers are moved.
MergeMemoriesSkipped(m) ==
  /\ At(m, "merge_memories")
  /\ Goto(m, "merge_identifiers")
  /\ UNCHANGED <<stores, inputs, found>>

\* list_memories and the insert of each row under the surviving customer,
\* which on Postgres repeats a primary key.
MergeMemories(m) ==
  LET losing == {w \in Writers : rows[w] = other[m]}
  IN  /\ At(m, "merge_memories")
      /\ IF Postgres /\ losing # {}
         THEN Fail(m) /\ UNCHANGED rows
         ELSE /\ rows' = [w \in Writers |-> IF w \in losing THEN found[m] ELSE rows[w]]
              /\ Goto(m, "merge_identifiers")
      /\ UNCHANGED <<customers, owner, points, id_cache, inputs, found>>

\* list_identifiers and add_identifier for each.
MergeIdentifiers(m) ==
  LET losing == {i \in Identifiers : owner[i] = other[m]}
  IN  /\ At(m, "merge_identifiers")
      /\ IF Postgres /\ losing # {} /\ found[m] \notin customers
         THEN Fail(m)
         ELSE Goto(m, "delete_customer")
      /\ owner' = IF Postgres \/ found[m] \notin customers
                  THEN owner
                  ELSE [i \in Identifiers |-> IF i \in losing THEN found[m] ELSE owner[i]]
      /\ UNCHANGED <<customers, rows, points, id_cache, inputs, found>>

\* The working memory of both customers is invalidated: not modelled here.
Invalidate(m) ==
  /\ At(m, "invalidate")
  /\ Goto(m, "done")
  /\ UNCHANGED <<stores, inputs, found>>

-----------------------------------------------------------------------------
(* The environment: a remote call raises, a cache entry reaches its TTL.   *)

Raise(r) ==
  /\ r \in Faulty /\ Remote(pc[r]) /\ loop \in {r, Nil}
  /\ Fail(r)
  /\ UNCHANGED <<stores, inputs, found>>

EvictIdentifier(i) ==
  /\ loop = Nil /\ id_cache[i] # Nil
  /\ id_cache' = [id_cache EXCEPT ![i] = Nil]
  /\ UNCHANGED <<customers, owner, rows, points, loop, pc, inputs, found>>

-----------------------------------------------------------------------------
ResolveStep(r) ==
  \/ GetIdentifierCache(r) \/ GetCustomer(r) \/ FindByIdentifier(r)
  \/ UpsertCustomer(r) \/ AddIdentifier(r) \/ SetIdentifierCache(r)

WriteStep(w) == PlanWrite(w) \/ UpsertPoint(w) \/ InsertMemory(w)

OperatorStep(o) ==
  \/ AddIdentifier(o) \/ SetIdentifierCache(o)
  \/ ForgetHot(o) \/ DeleteCustomer(o) \/ DeletePoints(o)
  \/ MergeMemories(o) \/ MergeIdentifiers(o) \/ Invalidate(o)

Step(r) ==
  \/ r \in Resolvers /\ ResolveStep(r)
  \/ r \in Writers /\ WriteStep(r)
  \/ r \in Operators /\ OperatorStep(r)
  \/ Raise(r)

Call ==
  \/ \E r \in Resolvers, i \in Identifiers : Resolve(r, i)
  \/ \E o \in Operators, c \in Known, i \in Identifiers : LinkIdentity(o, c, i)
  \/ \E o \in Operators, c \in Known : ForgetCustomer(o, c)
  \/ \E o \in Operators, c \in Known : \E d \in Known \ {c} : Merge(o, c, d)

Init ==
  /\ customers = {}
  /\ owner = [i \in Identifiers |-> Nil]
  /\ rows = [w \in Writers |-> Nil]
  /\ points = [w \in Writers |-> Nil]
  /\ id_cache = [i \in Identifiers |-> Nil]
  /\ loop = Nil
  /\ pc = [r \in Requests |-> "idle"]
  /\ identifier = [r \in Requests |-> Nil]
  /\ found = [r \in Requests |-> Nil]
  /\ other = [r \in Operators |-> Nil]
  /\ op = [r \in Operators |-> Nil]
  /\ before = [r \in Requests |-> {}]

\* Every resolve has returned; a link, a forget or a merge need not be called.
Quiet == (\A r \in Requests : pc[r] \in Returned \cup {"idle"}) /\ UNCHANGED vars

Next ==
  \/ \E r \in Requests : Step(r)
  \/ Call
  \/ \E i \in Identifiers : EvictIdentifier(i)
  \/ Quiet

Spec == Init /\ [][Next]_vars

-----------------------------------------------------------------------------
(* What resolving promises.                                                *)

\* Every variable keeps its type.
TypeOK ==
  /\ customers \subseteq Resolvers
  /\ owner \in [Identifiers -> Resolvers \cup {Nil}]
  /\ rows \in [Writers -> Resolvers \cup {Nil}]
  /\ points \in [Writers -> Resolvers \cup {Nil}]
  /\ id_cache \in [Identifiers -> Resolvers \cup {Nil}]
  /\ loop \in Requests \cup {Nil}
  /\ pc \in [Requests -> Calls]
  /\ identifier \in [Requests -> Identifiers \cup {Nil}]
  /\ found \in [Requests -> Resolvers \cup {Nil}]
  /\ other \in [Operators -> Resolvers \cup {Nil}]
  /\ op \in [Operators -> {"link", "forget", "merge", Nil}]
  /\ before \in [Requests -> SUBSET Requests]

\* Request r has been told its customer.
Resolved(r) == pc[r] \in {"write", "upsert_point", "insert_memory", "done"}

Begun(q) == pc[q] # "idle"

Called(kind) == {o \in Operators : op[o] = kind}

\* Neither of the two ran while the other did.
Apart(q, r) == q \in before[r] \/ r \in before[q]

\* While nothing links, forgets or merges, an identifier resolves to one
\* customer: no interleaving of first contacts creates a second one.
SameCustomer ==
  \A r, s \in Resolvers :
    /\ Resolved(r) /\ Resolved(s) /\ identifier[r] = identifier[s]
    /\ \A o \in Operators : ~Begun(o)
    => found[r] = found[s]

\* A resolve that begins after a link has returned finds the linked customer,
\* if no resolve of the identifier ran beside the link, no other link of it
\* came later, and the customer is still there: the cache was brought in line.
SerialLinksHold ==
  \A l \in Called("link"), r \in Resolvers :
    /\ pc[l] = "done" /\ Resolved(r) /\ l \in before[r]
    /\ identifier[l] = identifier[r] /\ found[l] \in customers
    /\ \A q \in Resolvers : Begun(q) /\ identifier[q] = identifier[l] => Apart(q, l)
    /\ \A k \in Called("link") \ {l} : identifier[k] = identifier[l] => k \in before[l]
    => found[r] = found[l]

\* What was written under an identifier is found under it: a later resolve of
\* the identifier gives the customer that owns the memory, whatever merges ran
\* in between, if they ran beside neither and merged into customers that exist.
FoundAgain ==
  \A w \in Writers, r \in Resolvers :
    /\ pc[w] = "done" /\ Resolved(r) /\ w \in before[r]
    /\ identifier[w] = identifier[r]
    /\ \A l \in Called("link") : identifier[l] # identifier[w]
    /\ Called("forget") = {}
    /\ \A m \in Called("merge") : m \in before[r] /\ Apart(m, w) /\ found[m] \in customers
    => rows[w] = found[r]

\* No resolve that begins after a forget has returned gives the forgotten
\* customer, though the forget leaves the identifier cache as it is.
ForgottenUnresolved ==
  \A f \in Called("forget"), r \in Resolvers :
    pc[f] = "done" /\ Resolved(r) /\ f \in before[r] => found[r] # found[f]
==============================================================================
