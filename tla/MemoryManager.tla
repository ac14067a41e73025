--------------------------- MODULE MemoryManager ---------------------------
(***************************************************************************)
(* The memory service of one Memnex instance: the client's user_write,     *)
(* user_read, user_search and user_forget, the TTL worker, the three       *)
(* stores they share (hot cache, warm rows, semantic points), the version  *)
(* clock, the write ledger and the invalidation bus.                       *)
(*                                                                         *)
(* Every request is one asyncio task.  A task runs until it awaits a call  *)
(* that suspends; awaiting a coroutine of an in-memory store does not, so  *)
(* which calls suspend depends on the backends open_stores picked (Redis,  *)
(* Postgres, Qdrant, RemoteModels).  loop is the task that holds the event *)
(* loop in the middle of such a run, Nil when any task may be resumed.     *)
(***************************************************************************)
EXTENDS Naturals, Sequences, FiniteSets

CONSTANTS
  Writers, Readers, Searchers, Forgetters, Sweepers,   \* requests, each made once
  Customers,
  Facts,        \* what a fact says, up to what conflict detection tells apart
  Opposed,      \* pairs of facts that conflict.detect reports
  Kind,         \* fact type of each fact
  Salience,     \* salience score of each fact
  Batches,      \* fact lists that a write may hold once extracted and scored
  MaxFacts,     \* max_facts_per_write
  Refused,      \* facts the trust policy refuses
  Filters,      \* fact_type arguments of reads (Nil: none)
  Floors,       \* if_version arguments of reads (0: none)
  Expiring,     \* the writers that pass ttl_hours
  Strategy,     \* conflict_strategy
  ListLimit,    \* limit of list_memories on the write and the read path
  SearchLimit,  \* max_results of a search
  Redis, Postgres, Qdrant, RemoteModels,   \* which backends are remote
  Faults,       \* whether remote calls may raise
  Nil           \* Python's None

Requests == Writers \cup Readers \cup Searchers \cup Forgetters \cup Sweepers

ASSUME RequestsAssumption ==
  /\ Writers \cap (Readers \cup Searchers \cup Forgetters \cup Sweepers) = {}
  /\ Readers \cap (Searchers \cup Forgetters \cup Sweepers) = {}
  /\ Searchers \cap (Forgetters \cup Sweepers) = {}
  /\ Forgetters \cap Sweepers = {}
  /\ Nil \notin Requests \cup Customers

ASSUME FactsAssumption ==
  /\ Opposed \subseteq Facts \X Facts
  /\ \A p \in Opposed : <<p[2], p[1]>> \in Opposed
  /\ Refused \subseteq Facts
  /\ DOMAIN Kind = Facts
  /\ Salience \in [Facts -> Nat]
  /\ MaxFacts \in Nat
  /\ Batches \subseteq Seq(Facts)
  /\ \A b \in Batches : Len(b) <= MaxFacts

ASSUME ConfigAssumption ==
  /\ Expiring \subseteq Writers
  /\ Strategy \in {"latest_wins", "keep_both", "ask_agent"}
  /\ ListLimit \in Nat /\ SearchLimit \in Nat /\ Floors \subseteq Nat
  /\ {Redis, Postgres, Qdrant, RemoteModels, Faults} \subseteq BOOLEAN

\* A memory_id is a fresh uuid per planned fact: here, the write and the
\* position of the fact in its batch.
MemoryIds == Writers \X (1..MaxFacts)

Memory == [customer : Customers, active : BOOLEAN, superseded_by : MemoryIds \cup {Nil}]

ASSUME NilAssumption == Nil \notin Memory

VARIABLES
  customers,   \* warm store: customer rows
  memories,    \* warm store: memory rows, Nil where there is none
  points,      \* semantic store: the customer_id a point carries, Nil: no point
  hot,         \* hot store: cached working memory per customer, Nil: a miss
  versions,    \* version clock
  ledger,      \* write ledger
  bus,         \* invalidations published on Redis and not yet delivered
  loop,        \* the task holding the event loop, or Nil
  pc,          \* the call each request makes next
  user,        \* customer_id of each request
  batch,       \* facts that each write plans from
  pending,     \* positions of planned facts not stored yet
  listing,     \* rows each request fetched: existing, memories, cached, hits
  todo,        \* rows each request still has to supersede
  stamp,       \* version each write was given, 0 before
  floor,       \* if_version of each read, 0 for none
  filter,      \* fact_type of each read
  before       \* history: writes and forgets that had returned when this request began

stores == <<customers, memories, points, hot, versions, ledger, bus>>
locals == <<user, batch, pending, listing, todo, stamp, floor, filter, before>>
vars == <<customers, memories, points, hot, versions, ledger, bus, loop, pc,
          user, batch, pending, listing, todo, stamp, floor, filter, before>>

-----------------------------------------------------------------------------
(* Which calls leave the process, and which give up the event loop.        *)

Returned == {"done", "failed"}

WarmCalls == {"get_customer", "upsert_customer", "list_existing", "supersede",
              "insert_memory", "list_memories", "get_memories_by_ids",
              "delete_rows", "list_expired", "expire"}
HotCalls == {"current", "bump", "await_version", "get_working_memory",
             "set_working_memory", "invalidate", "forget_hot"}
SemanticCalls == {"upsert_point", "search_points", "delete_points"}
ModelCalls == {"extract", "embed", "embed_query"}

Calls == {"idle", "append", "publish"} \cup WarmCalls \cup HotCalls
           \cup SemanticCalls \cup ModelCalls \cup Returned

Remote(call) ==
  \/ Postgres /\ call \in WarmCalls
  \/ Redis /\ call \in HotCalls
  \/ Qdrant /\ call \in SemanticCalls
  \/ RemoteModels /\ call \in ModelCalls

\* Mutant: awaiting an in-memory store yields too.
SuspendsAlways(call) == Remote(call) \/ call # "get_customer"

\* InProcessBus.publish gathers its handlers, which yields once even with
\* nothing remote; a task that has not started or has returned holds nothing.
Suspends(call) == Remote(call) \/ call \in {"idle", "publish"} \cup Returned

At(r, call) == pc[r] = call /\ loop \in {r, Nil}

\* The call at pc[r] has taken effect and r goes on to the next one, or, when
\* its reply is lost, r fails with the exception.
Goto(r, call) ==
  /\ \/ pc' = [pc EXCEPT ![r] = call]
     \/ Faults /\ Remote(pc[r]) /\ pc' = [pc EXCEPT ![r] = "failed"]
  /\ loop' = IF Suspends(pc[r]) \/ Suspends(pc'[r]) THEN Nil ELSE r

\* Mutant: the exception is swallowed and the request returns.
FailSwallowed(r) == pc' = [pc EXCEPT ![r] = "done"] /\ loop' = Nil

Fail(r) == pc' = [pc EXCEPT ![r] = "failed"] /\ loop' = Nil

-----------------------------------------------------------------------------
(* The stores' own operations.                                             *)

Text(m) == batch[m[1]][m[2]]

Active(c, kind) ==
  {m \in MemoryIds : /\ memories[m] # Nil
                     /\ memories[m].customer = c
                     /\ memories[m].active
                     /\ (kind = Nil \/ Kind[Text(m)] = kind)}

\* list_memories: the most salient rows, at most limit of them.  Among equally
\* salient ones created_at decides, which is left open here.
Listings(c, kind, limit) ==
  {S \in SUBSET Active(c, kind) :
     /\ S = Active(c, kind) \/ Cardinality(S) = limit
     /\ Cardinality(S) <= limit
     /\ \A m \in S, n \in Active(c, kind) \ S : Salience[Text(m)] >= Salience[Text(n)]}

\* The nearest points of a customer; the embedding decides which.
Hits(c) ==
  LET own == {m \in MemoryIds : points[m] = c}
  IN  {S \in SUBSET own : /\ S = own \/ Cardinality(S) = SearchLimit
                          /\ Cardinality(S) <= SearchLimit}

\* Mutant: the link is set but the row stays active.
SupersededStillActive(m, by) ==
  IF memories[m] = Nil THEN memories ELSE [memories EXCEPT ![m].superseded_by = by]

\* supersede_memory: an unknown memory_id is ignored.
Superseded(m, by) ==
  IF memories[m] = Nil
  THEN memories
  ELSE [memories EXCEPT ![m] = [@ EXCEPT !.active = FALSE, !.superseded_by = by]]

\* On Postgres superseded_by is a foreign key to memories, checked at once.
BreaksForeignKey(m, by) == Postgres /\ memories[m] # Nil /\ memories[by] = Nil

-----------------------------------------------------------------------------
(* user_write                                                              *)

Conflicts(w, i) ==
  IF Strategy = "latest_wins"
  THEN {m \in listing[w] : <<batch[w][i], Text(m)>> \in Opposed}
  ELSE {}

Least(S, i) == i \in S /\ \A j \in S : i <= j

\* The head of the loop over planned facts: supersede what the next one
\* conflicts with, or store it, or leave the loop.
StoreNext(w, rest) ==
  /\ pending' = [pending EXCEPT ![w] = rest]
  /\ \/ rest = {} /\ UNCHANGED todo /\ Goto(w, "invalidate")
     \/ \E i \in rest :
          /\ Least(rest, i)
          /\ todo' = [todo EXCEPT ![w] = Conflicts(w, i)]
          /\ Goto(w, IF Conflicts(w, i) = {} THEN "embed" ELSE "supersede")

Begin(r, call) ==
  /\ At(r, "idle")
  /\ before' = [before EXCEPT ![r] = {q \in Writers \cup Forgetters : pc[q] \in Returned}]
  /\ Goto(r, call)
  /\ UNCHANGED <<stores, batch, pending, listing, todo, stamp>>

UserWrite(w, c) ==
  /\ Begin(w, "get_customer")
  /\ user' = [user EXCEPT ![w] = c]
  /\ UNCHANGED <<floor, filter>>

GetCustomer(w) ==
  /\ At(w, "get_customer")
  /\ Goto(w, IF user[w] \in customers THEN "extract" ELSE "upsert_customer")
  /\ UNCHANGED <<stores, locals>>

UpsertCustomer(w) ==
  /\ At(w, "upsert_customer")
  /\ customers' = customers \cup {user[w]}
  /\ Goto(w, "extract")
  /\ UNCHANGED <<memories, points, hot, versions, ledger, bus, locals>>

\* Extraction, masking, salience cut and per-write cap give one of Batches; an
\* empty one ends the write.  The injection filter or a malformed fact raises.
Extract(w) ==
  /\ At(w, "extract")
  /\ \/ \E b \in Batches :
          /\ batch' = [batch EXCEPT ![w] = b]
          /\ Goto(w, IF b = <<>> THEN "done" ELSE "list_existing")
     \/ Fail(w) /\ UNCHANGED batch
  /\ UNCHANGED <<stores, user, pending, listing, todo, stamp, floor, filter, before>>

\* Facts the trust policy refuses are dropped, the rest are planned.
ListExisting(w) ==
  LET plan == {i \in 1..Len(batch[w]) : batch[w][i] \notin Refused}
  IN  /\ At(w, "list_existing")
      /\ \E S \in Listings(user[w], Nil, ListLimit) : listing' = [listing EXCEPT ![w] = S]
      /\ pending' = [pending EXCEPT ![w] = plan]
      /\ Goto(w, IF plan = {} THEN "current" ELSE "bump")
      /\ UNCHANGED <<stores, user, batch, todo, stamp, floor, filter, before>>

CurrentVersion(w) ==
  /\ At(w, "current")
  /\ Goto(w, "done")
  /\ UNCHANGED <<stores, locals>>

\* Mutant: the new version is returned but not stored.
BumpVersionUnstored(w) ==
  /\ At(w, "bump")
  /\ stamp' = [stamp EXCEPT ![w] = versions[user[w]] + 1]
  /\ Goto(w, "append")
  /\ UNCHANGED <<stores, user, batch, pending, listing, todo, floor, filter, before>>

BumpVersion(w) ==
  /\ At(w, "bump")
  /\ versions' = [versions EXCEPT ![user[w]] = @ + 1]
  /\ stamp' = [stamp EXCEPT ![w] = versions[user[w]] + 1]
  /\ Goto(w, "append")
  /\ UNCHANGED <<customers, memories, points, hot, ledger, bus,
                 user, batch, pending, listing, todo, floor, filter, before>>

\* Mutant: the entry names the first planned memory only.
AppendLedgerFirstOnly(w) ==
  /\ At(w, "append")
  /\ ledger' = Append(ledger, [user |-> user[w], version |-> stamp[w],
                               memory_ids |-> {<<w, i>> : i \in {j \in pending[w] : Least(pending[w], j)}}])
  /\ StoreNext(w, pending[w])
  /\ UNCHANGED <<customers, memories, points, hot, versions, bus,
                 user, batch, listing, stamp, floor, filter, before>>

AppendLedger(w) ==
  /\ At(w, "append")
  /\ ledger' = Append(ledger, [user |-> user[w], version |-> stamp[w],
                               memory_ids |-> {w} \X pending[w]])
  /\ StoreNext(w, pending[w])
  /\ UNCHANGED <<customers, memories, points, hot, versions, bus,
                 user, batch, listing, stamp, floor, filter, before>>

\* The row's new state is written before the row that replaces it exists.
Supersede(w) ==
  /\ At(w, "supersede")
  /\ \E m \in todo[w], i \in pending[w] :
       /\ Least(pending[w], i)
       /\ IF BreaksForeignKey(m, <<w, i>>)
          THEN Fail(w) /\ UNCHANGED <<memories, todo>>
          ELSE /\ memories' = Superseded(m, <<w, i>>)
               /\ todo' = [todo EXCEPT ![w] = @ \ {m}]
               /\ Goto(w, IF todo[w] = {m} THEN "embed" ELSE "supersede")
  /\ UNCHANGED <<customers, points, hot, versions, ledger, bus,
                 user, batch, pending, listing, stamp, floor, filter, before>>

Embed(w) ==
  /\ At(w, "embed")
  /\ Goto(w, "upsert_point")
  /\ UNCHANGED <<stores, locals>>

\* Mutant: the point is lost.
UpsertPointLost(w) ==
  /\ At(w, "upsert_point")
  /\ Goto(w, "insert_memory")
  /\ UNCHANGED <<stores, locals>>

UpsertPoint(w) ==
  /\ At(w, "upsert_point")
  /\ \E i \in pending[w] :
       /\ Least(pending[w], i)
       /\ points' = [points EXCEPT ![<<w, i>>] = user[w]]
  /\ Goto(w, "insert_memory")
  /\ UNCHANGED <<customers, memories, hot, versions, ledger, bus, locals>>

InsertMemory(w) ==
  /\ At(w, "insert_memory")
  /\ \E i \in pending[w] :
       /\ Least(pending[w], i)
       /\ memories' = [memories EXCEPT ![<<w, i>>] =
                         [customer |-> user[w], active |-> TRUE, superseded_by |-> Nil]]
       /\ StoreNext(w, pending[w] \ {i})
  /\ UNCHANGED <<customers, points, hot, versions, ledger, bus,
                 user, batch, listing, stamp, floor, filter, before>>

InvalidateHot(w) ==
  /\ At(w, "invalidate")
  /\ hot' = [hot EXCEPT ![user[w]] = Nil]
  /\ Goto(w, "publish")
  /\ UNCHANGED <<customers, memories, points, versions, ledger, bus, locals>>

\* Mutant: the message's fields are swapped.
PublishSwapped(w) ==
  /\ At(w, "publish")
  /\ bus' = bus \cup {<<stamp[w], user[w]>>}
  /\ Goto(w, "done")
  /\ UNCHANGED <<customers, memories, points, hot, versions, ledger, locals>>

\* In process, publish runs the subscriber, which invalidates; on Redis it
\* queues a message, or fails, and the failure is swallowed.
Publish(w) ==
  /\ At(w, "publish")
  /\ IF Redis
     THEN /\ \/ bus' = bus \cup {<<user[w], stamp[w]>>}
             \/ Faults /\ UNCHANGED bus
          /\ UNCHANGED hot
     ELSE hot' = [hot EXCEPT ![user[w]] = Nil] /\ UNCHANGED bus
  /\ Goto(w, "done")
  /\ UNCHANGED <<customers, memories, points, versions, ledger, locals>>

-----------------------------------------------------------------------------
(* user_read                                                               *)

UserRead(r, c, n, kind) ==
  /\ Begin(r, IF n = 0 THEN "get_working_memory" ELSE "await_version")
  /\ user' = [user EXCEPT ![r] = c]
  /\ floor' = [floor EXCEPT ![r] = n]
  /\ filter' = [filter EXCEPT ![r] = kind]

AwaitVersion(r) ==
  /\ At(r, "await_version")
  /\ versions[user[r]] >= floor[r]
  /\ Goto(r, "get_working_memory")
  /\ UNCHANGED <<stores, locals>>

\* The clock is behind: sleep, and poll again later.
Poll(r) ==
  /\ pc[r] = "await_version" /\ loop = r
  /\ versions[user[r]] < floor[r]
  /\ loop' = Nil
  /\ UNCHANGED <<pc, stores, locals>>

\* Mutant: the deadline is never checked.
TimeOutNever(r) == At(r, "timed_out") /\ UNCHANGED vars

TimeOut(r) ==
  /\ At(r, "await_version")
  /\ versions[user[r]] < floor[r]
  /\ Fail(r)
  /\ UNCHANGED <<stores, locals>>

\* A hit is returned whatever fact_type the read asks for.
GetWorkingMemory(r) ==
  /\ At(r, "get_working_memory")
  /\ IF hot[user[r]] = Nil
     THEN Goto(r, "list_memories") /\ UNCHANGED listing
     ELSE Goto(r, "done") /\ listing' = [listing EXCEPT ![r] = hot[user[r]]]
  /\ UNCHANGED <<stores, user, batch, pending, todo, stamp, floor, filter, before>>

ListMemories(r) ==
  /\ At(r, "list_memories")
  /\ \E S \in Listings(user[r], filter[r], ListLimit) : listing' = [listing EXCEPT ![r] = S]
  /\ Goto(r, "set_working_memory")
  /\ UNCHANGED <<stores, user, batch, pending, todo, stamp, floor, filter, before>>

SetWorkingMemory(r) ==
  /\ At(r, "set_working_memory")
  /\ hot' = [hot EXCEPT ![user[r]] = listing[r]]
  /\ Goto(r, "done")
  /\ UNCHANGED <<customers, memories, points, versions, ledger, bus, locals>>

-----------------------------------------------------------------------------
(* user_search                                                             *)

UserSearch(s, c) ==
  /\ Begin(s, "embed_query")
  /\ user' = [user EXCEPT ![s] = c]
  /\ UNCHANGED <<floor, filter>>

EmbedQuery(s) ==
  /\ At(s, "embed_query")
  /\ Goto(s, "search_points")
  /\ UNCHANGED <<stores, locals>>

SearchPoints(s) ==
  /\ At(s, "search_points")
  /\ \E S \in Hits(user[s]) :
       /\ listing' = [listing EXCEPT ![s] = S]
       /\ Goto(s, IF S = {} THEN "done" ELSE "get_memories_by_ids")
  /\ UNCHANGED <<stores, user, batch, pending, todo, stamp, floor, filter, before>>

GetMemoriesByIds(s) ==
  /\ At(s, "get_memories_by_ids")
  /\ listing' = [listing EXCEPT ![s] =
                   {m \in @ : memories[m] # Nil /\ memories[m].customer = user[s]}]
  /\ Goto(s, "done")
  /\ UNCHANGED <<stores, user, batch, pending, todo, stamp, floor, filter, before>>

-----------------------------------------------------------------------------
(* user_forget                                                             *)

UserForget(f, c) ==
  /\ Begin(f, "forget_hot")
  /\ user' = [user EXCEPT ![f] = c]
  /\ UNCHANGED <<floor, filter>>

\* Mutant: the cache is left alone.
ForgetHotSkipped(f) ==
  /\ At(f, "forget_hot")
  /\ Goto(f, "delete_rows")
  /\ UNCHANGED <<stores, locals>>

ForgetHot(f) ==
  /\ At(f, "forget_hot")
  /\ hot' = [hot EXCEPT ![user[f]] = Nil]
  /\ Goto(f, "delete_rows")
  /\ UNCHANGED <<customers, memories, points, versions, ledger, bus, locals>>

\* Mutant: only the rows a listing shows are deleted.
DeleteRowsActive(f) ==
  /\ At(f, "delete_rows")
  /\ customers' = customers \ {user[f]}
  /\ memories' = [m \in MemoryIds |-> IF m \in Active(user[f], Nil) THEN Nil ELSE memories[m]]
  /\ Goto(f, "delete_points")
  /\ UNCHANGED <<points, hot, versions, ledger, bus, locals>>

\* Mutant: the customer_id is missing from the condition.
DeleteRowsOfAll(f) ==
  /\ At(f, "delete_rows")
  /\ customers' = {}
  /\ memories' = [m \in MemoryIds |-> Nil]
  /\ Goto(f, "delete_points")
  /\ UNCHANGED <<points, hot, versions, ledger, bus, locals>>

\* On Postgres the statement is DELETE ... RETURNING count(*), which the server
\* refuses (no aggregate in RETURNING): the transaction rolls back and raises.
DeleteRows(f) ==
  /\ At(f, "delete_rows")
  /\ IF Postgres
     THEN Fail(f) /\ UNCHANGED <<customers, memories>>
     ELSE /\ customers' = customers \ {user[f]}
          /\ memories' = [m \in MemoryIds |->
                IF memories[m] # Nil /\ memories[m].customer = user[f]
                THEN Nil ELSE memories[m]]
          /\ Goto(f, "delete_points")
  /\ UNCHANGED <<points, hot, versions, ledger, bus, locals>>

\* Mutant: the points to delete are looked up through the rows, already gone.
DeletePointsByRow(f) ==
  /\ At(f, "delete_points")
  /\ points' = [m \in MemoryIds |-> IF m \in Active(user[f], Nil) THEN Nil ELSE points[m]]
  /\ Goto(f, "done")
  /\ UNCHANGED <<customers, memories, hot, versions, ledger, bus, locals>>

DeletePoints(f) ==
  /\ At(f, "delete_points")
  /\ points' = [m \in MemoryIds |-> IF points[m] = user[f] THEN Nil ELSE points[m]]
  /\ Goto(f, "done")
  /\ UNCHANGED <<customers, memories, hot, versions, ledger, bus, locals>>

-----------------------------------------------------------------------------
(* TTL enforcement: every expired active row of every customer is          *)
(* superseded by itself.  The memories of one write share one expires_at.  *)

Enforce(s) ==
  /\ Begin(s, "list_expired")
  /\ UNCHANGED <<user, floor, filter>>

ListExpired(s) ==
  /\ At(s, "list_expired")
  /\ \E due \in SUBSET Expiring :
       LET expired == {m \in MemoryIds :
                         /\ m[1] \in due
                         /\ memories[m] # Nil
                         /\ memories[m].active}
       IN  /\ todo' = [todo EXCEPT ![s] = expired]
           /\ Goto(s, IF expired = {} THEN "done" ELSE "expire")
  /\ UNCHANGED <<stores, user, batch, pending, listing, stamp, floor, filter, before>>

Expire(s) ==
  /\ At(s, "expire")
  /\ \E m \in todo[s] :
       /\ memories' = Superseded(m, m)
       /\ todo' = [todo EXCEPT ![s] = @ \ {m}]
       /\ Goto(s, IF todo[s] = {m} THEN "done" ELSE "expire")
  /\ UNCHANGED <<customers, points, hot, versions, ledger, bus,
                 user, batch, pending, listing, stamp, floor, filter, before>>

-----------------------------------------------------------------------------
(* The environment: a remote call raises without effect, Redis delivers or *)
(* drops an invalidation, a cached entry reaches its TTL.                  *)

Raise(r) ==
  /\ Faults /\ Remote(pc[r]) /\ loop \in {r, Nil}
  /\ Fail(r)
  /\ UNCHANGED <<stores, locals>>

Deliver(message) ==
  /\ loop = Nil
  /\ bus' = bus \ {message}
  /\ \/ hot' = [hot EXCEPT ![message[1]] = Nil]
     \/ Faults /\ UNCHANGED hot
  /\ UNCHANGED <<customers, memories, points, versions, ledger, loop, pc, locals>>

EvictHot(c) ==
  /\ loop = Nil /\ hot[c] # Nil
  /\ hot' = [hot EXCEPT ![c] = Nil]
  /\ UNCHANGED <<customers, memories, points, versions, ledger, bus, loop, pc, locals>>

-----------------------------------------------------------------------------
WriteStep(w) ==
  \/ GetCustomer(w) \/ UpsertCustomer(w) \/ Extract(w) \/ ListExisting(w)
  \/ CurrentVersion(w) \/ BumpVersion(w) \/ AppendLedger(w) \/ Supersede(w)
  \/ Embed(w) \/ UpsertPoint(w) \/ InsertMemory(w) \/ InvalidateHot(w) \/ Publish(w)

ReadStep(r) ==
  \/ AwaitVersion(r) \/ Poll(r) \/ TimeOut(r) \/ GetWorkingMemory(r)
  \/ ListMemories(r) \/ SetWorkingMemory(r)

SearchStep(s) == EmbedQuery(s) \/ SearchPoints(s) \/ GetMemoriesByIds(s)

ForgetStep(f) == ForgetHot(f) \/ DeleteRows(f) \/ DeletePoints(f)

SweepStep(s) == ListExpired(s) \/ Expire(s)

\* A request that has begun takes its next step.
Step(r) ==
  \/ r \in Writers /\ WriteStep(r)
  \/ r \in Readers /\ ReadStep(r)
  \/ r \in Searchers /\ SearchStep(r)
  \/ r \in Forgetters /\ ForgetStep(r)
  \/ r \in Sweepers /\ SweepStep(r)
  \/ Raise(r)

Call ==
  \/ \E w \in Writers, c \in Customers : UserWrite(w, c)
  \/ \E r \in Readers, c \in Customers, n \in Floors, kind \in Filters : UserRead(r, c, n, kind)
  \/ \E s \in Searchers, c \in Customers : UserSearch(s, c)
  \/ \E f \in Forgetters, c \in Customers : UserForget(f, c)
  \/ \E s \in Sweepers : Enforce(s)

Environment ==
  \/ \E message \in bus : Deliver(message)
  \/ \E c \in Customers : EvictHot(c)

Init ==
  /\ customers = {}
  /\ memories = [m \in MemoryIds |-> Nil]
  /\ points = [m \in MemoryIds |-> Nil]
  /\ hot = [c \in Customers |-> Nil]
  /\ versions = [c \in Customers |-> 0]
  /\ ledger = <<>>
  /\ bus = {}
  /\ loop = Nil
  /\ pc = [r \in Requests |-> "idle"]
  /\ user = [r \in Requests |-> Nil]
  /\ batch = [w \in Writers |-> <<>>]
  /\ pending = [w \in Writers |-> {}]
  /\ listing = [r \in Requests |-> {}]
  /\ todo = [r \in Requests |-> {}]
  /\ stamp = [w \in Writers |-> 0]
  /\ floor = [r \in Readers |-> 0]
  /\ filter = [r \in Readers |-> Nil]
  /\ before = [r \in Requests |-> {}]

\* The one state the system may stop in: every request has returned.
Quiet == (\A r \in Requests : pc[r] \in Returned) /\ UNCHANGED vars

Next == (\E r \in Requests : Step(r)) \/ Call \/ Environment \/ Quiet

Spec == Init /\ [][Next]_vars

\* The event loop resumes every task whose call has been answered, and every
\* call is answered unless it raises; no call need raise, no caller need call.
Fairness ==
  /\ \A w \in Writers : WF_vars(WriteStep(w))
  /\ \A r \in Readers : WF_vars(ReadStep(r))
  /\ \A s \in Searchers : WF_vars(SearchStep(s))
  /\ \A f \in Forgetters : WF_vars(ForgetStep(f))
  /\ \A s \in Sweepers : WF_vars(SweepStep(s))

FairSpec == Spec /\ Fairness

-----------------------------------------------------------------------------
(* What the system promises.                                               *)

TypeOK ==
  /\ customers \subseteq Customers
  /\ memories \in [MemoryIds -> Memory \cup {Nil}]
  /\ points \in [MemoryIds -> Customers \cup {Nil}]
  /\ hot \in [Customers -> (SUBSET MemoryIds) \cup {Nil}]
  /\ versions \in [Customers -> Nat]
  /\ ledger \in Seq([user : Customers, version : Nat, memory_ids : SUBSET MemoryIds])
  /\ bus \subseteq Customers \X Nat
  /\ loop \in Requests \cup {Nil}
  /\ pc \in [Requests -> Calls]
  /\ user \in [Requests -> Customers \cup {Nil}]
  /\ batch \in [Writers -> Batches \cup {<<>>}]
  /\ pending \in [Writers -> SUBSET (1..MaxFacts)]
  /\ listing \in [Requests -> SUBSET MemoryIds]
  /\ todo \in [Requests -> SUBSET MemoryIds]
  /\ stamp \in [Writers -> Nat]
  /\ floor \in [Readers -> Nat]
  /\ filter \in [Readers -> Filters \cup {Nil}]
  /\ before \in [Requests -> SUBSET Requests]

\* The memories that write w set out to store.
Planned(w) == {<<w, i>> : i \in {j \in 1..Len(batch[w]) : batch[w][j] \notin Refused}}

Promised(m) == \E n \in DOMAIN ledger : m \in ledger[n].memory_ids

\* A forget of r's customer was running when r began, or began later.
ForgetOverlaps(r) ==
  \E f \in Forgetters : pc[f] # "idle" /\ user[f] = user[r] /\ f \notin before[r]

\* "Durability first" (manager.py:243): whatever a row, a point or a successor
\* link names was promised by an earlier ledger entry, whichever calls of the
\* write failed and whoever ran in between.
LedgerFirst ==
  \A m \in MemoryIds :
    /\ memories[m] # Nil => Promised(m)
    /\ memories[m] # Nil /\ memories[m].superseded_by # Nil
         => Promised(memories[m].superseded_by)
    /\ points[m] # Nil => Promised(m)

\* No two entries of one customer's ledger carry the same version, so that a
\* version names one write (versions.py:3).
UniqueVersions ==
  \A j, k \in DOMAIN ledger :
    ledger[j].user = ledger[k].user /\ ledger[j].version = ledger[k].version => j = k

\* Without Redis, bump and append run in one turn of the event loop: the ledger
\* lists each customer's writes in version order.
LedgerInVersionOrder ==
  ~Redis => \A j, k \in DOMAIN ledger :
              j < k /\ ledger[j].user = ledger[k].user => ledger[j].version < ledger[k].version

\* A write that returned has its customer row, and a row and a point for every
\* fact it planned, unless a forget of the customer overlapped or followed it.
DurableOnReturn ==
  \A w \in Writers :
    pc[w] = "done" /\ Planned(w) # {} /\ ~ForgetOverlaps(w)
      => /\ user[w] \in customers
         /\ \A m \in Planned(w) : memories[m] # Nil /\ points[m] = user[w]

\* A read given the version of a write that had returned before the read began
\* (read's docstring, manager.py:325) returns that write's memories, save those
\* superseded or forgotten since.
ReadAfterWrite ==
  \A r \in Readers, w \in Writers :
    /\ pc[r] = "done" /\ w \in before[r] /\ pc[w] = "done"
    /\ user[w] = user[r] /\ stamp[w] <= floor[r]
    => \A m \in Planned(w) :
         \/ m \in listing[r]
         \/ memories[m] = Nil \/ ~memories[m].active
         \/ filter[r] # Nil /\ Kind[Text(m)] # filter[r]

\* A search that began after a write returned finds the write's memories, save
\* those retired since or taken by a forget that overlapped or followed it.
SearchAfterWrite ==
  \A s \in Searchers, w \in Writers :
    /\ pc[s] = "done" /\ w \in before[s] /\ pc[w] = "done" /\ user[w] = user[s]
    /\ ~ForgetOverlaps(w)
    => \A m \in Planned(w) : m \in listing[s] \/ ~memories[m].active

\* Once a write has seen another return, the two leave no contradicting facts
\* active (latest_wins), whatever runs beside them.
SerialConflictsResolved ==
  Strategy = "latest_wins" =>
    \A v, w \in Writers :
      v \in before[w] /\ pc[w] = "done" /\ user[v] = user[w] =>
        \A m \in Planned(v), n \in Planned(w) :
          <<Text(m), Text(n)>> \in Opposed
            => ~(/\ memories[m] # Nil /\ memories[m].active
                 /\ memories[n] # Nil /\ memories[n].active)

\* When a forget returns, no row and no point is left of a write that had
\* returned, or failed, before the forget began; and none comes back.
ForgottenGone ==
  \A f \in Forgetters, w \in Writers :
    pc[f] = "done" /\ w \in before[f] /\ user[w] = user[f]
      => \A i \in 1..MaxFacts : memories[<<w, i>>] = Nil /\ points[<<w, i>>] = Nil

\* "Forget must be total: Postgres, Redis, and Qdrant are all purged"
\* (gdpr.py:3): nor is any of it cached.
ForgottenNotCached ==
  \A f \in Forgetters, w \in Writers :
    /\ pc[f] = "done" /\ w \in before[f] /\ user[w] = user[f]
    /\ hot[user[f]] # Nil
    => \A i \in 1..MaxFacts : <<w, i>> \notin hot[user[f]]

\* "Forget must be total" (gdpr.py:3), not only when it reports success: with no
\* remote fault, a forget that ended has removed every row of an earlier write.
ForgetTotal ==
  ~Faults =>
    \A f \in Forgetters, w \in Writers :
      pc[f] \in Returned /\ w \in before[f] /\ user[w] = user[f]
        => \A i \in 1..MaxFacts : memories[<<w, i>>] = Nil

\* Every request that begins returns, a read that waits for a version included.
RequestsReturn ==
  \A r \in Requests : pc[r] # "idle" ~> pc[r] \in Returned

-----------------------------------------------------------------------------
(* The abstract specification, read off the ledger, the rows and the write *)
(* that may still be storing.                                              *)

LifeOf(m) ==
  IF memories[m] # Nil
  THEN IF memories[m].active THEN "active" ELSE "retired"
  ELSE IF ~Promised(m) THEN "unborn"
  ELSE IF m[2] \in pending[m[1]] THEN "promised" ELSE "erased"

Lifecycle == INSTANCE MemoryLifecycle WITH
  Nobody <- Nil,
  clock <- versions,
  state <- [m \in MemoryIds |-> LifeOf(m)],
  owner <- [m \in MemoryIds |-> IF Promised(m) THEN user[m[1]] ELSE Nil]

\* The memory service implements the life cycle of MemoryLifecycle.
LifecycleSpec == Lifecycle!Spec
=============================================================================
