--------------------------- MODULE ConnectionPool ---------------------------
(***************************************************************************)
(* The Postgres warm store and its asyncpg pool (storage/postgres.py).     *)
(* Every method takes a connection of its own, and gives it back when it   *)
(* returns: find_by_identifier calls get_customer, and get_customer calls  *)
(* list_identifiers, while still holding theirs.                           *)
(*                                                                         *)
(* A call is one request of a task: nested methods are its depth.  Its     *)
(* awaits are the acquire, the set_config of _scoped, each statement and   *)
(* the release (which asyncpg shields from cancellation).  The pool is     *)
(* external: acquire waits without a limit, and any waiter may be next.    *)
(***************************************************************************)
EXTENDS Integers, FiniteSets

CONSTANTS
  Calls,        \* the calls; each is made once
  Customers,
  Identifiers,
  PoolSize,     \* max_size of the pool, 10 as shipped
  MaxCancels,   \* bound of the model: calls that are cancelled
  Nil           \* Python's None

VARIABLES
  idle,         \* connections of the pool that nobody has
  call,         \* what each call does: [method, key, customer, depth, at, found,
                \* raised]
  customers,    \* table customer_identities
  owner,        \* table channel_identifiers: the customer of each, Nil: no row
  leaked,       \* history: connections whose holder was cancelled inside _scoped
  cancels,      \* cancellations so far
  asked         \* history: owner of its identifier when a find began

vars == <<idle, call, customers, owner, leaked, cancels, asked>>

\* "scoped" is any method that is one statement on a connection of _scoped, and
\* "direct" any that is one on a connection it acquires itself: none of them
\* touches the two tables (delete_customer rolls back, its statement is refused).
Nested == {"find_by_identifier", "get_customer"}
Methods == Nested \cup {"upsert_customer", "add_identifier", "scoped", "direct"}

ASSUME PoolAssumption ==
  /\ PoolSize \in Nat \ {0} /\ MaxCancels \in Nat
  /\ IsFiniteSet(Calls)
  /\ Nil \notin Customers \cup Identifiers \cup Methods

\* What a lookup answers; id is Nil when there is no row.
NotFound == [id |-> Nil, identifiers |-> {}]

\* Mutant: get_customer looks itself up before it lists the identifiers.
ChainDeeper(m) ==
  IF m = "find_by_identifier" THEN 4 ELSE IF m = "get_customer" THEN 3 ELSE 1

\* How many methods deep a call goes when every row is found.
Chain(m) ==
  IF m = "find_by_identifier" THEN 3 ELSE IF m = "get_customer" THEN 2 ELSE 1

\* add_identifier, record_candidate_link and list_expired acquire for themselves.
IsScoped(m) == m \notin {"add_identifier", "direct"}

InFlight == {c \in Calls : call[c].at \notin {"new", "done"}}
Waiting == {c \in Calls : call[c].at = "acquire"}
Has(c) == call[c].at \in {"scope", "query", "insert", "release"}

\* One connection for each method of a call, the one that acquires excepted.
Held ==
  {h \in InFlight \X (1 .. 3) :
     h[2] < call[h[1]].depth \/ (h[2] = call[h[1]].depth /\ Has(h[1]))}

NotCalled == [method |-> Nil, key |-> Nil, customer |-> Nil, depth |-> 1, at |-> "new",
              found |-> NotFound, raised |-> FALSE]
Over == [NotCalled EXCEPT !.at = "done"]

\* A call is over; the model remembers the answers of finds only.
Ended(r) == IF r.method = "find_by_identifier" THEN [r EXCEPT !.at = "done"] ELSE Over

\* The method at the call's depth is over and gave back its connection, if it
\* had one; the caller's `finally` comes next.
Unwound(r) ==
  IF r.depth > 1 THEN [r EXCEPT !.depth = @ - 1, !.at = "release"] ELSE Ended(r)

\* It raised, and nothing of a call catches an exception.
Raised(r) == [r EXCEPT !.raised = (r.method = "find_by_identifier")]
Failed(r) == Raised([r EXCEPT !.at = "release"])

Set(c, r) == call' = [call EXCEPT ![c] = r]
Goto(c, here) == call' = [call EXCEPT ![c].at = here]

-----------------------------------------------------------------------------
(* The methods.                                                            *)

\* key is the identifier and customer the customer that the method is given.
Begin(c, m, i, u) ==
  /\ call[c].at = "new"
  /\ (i = Nil) <=> (m \notin {"find_by_identifier", "add_identifier"})
  /\ (u = Nil) <=> (m \notin {"get_customer", "upsert_customer", "add_identifier"})
  /\ Set(c, [NotCalled EXCEPT !.method = m, !.key = i, !.customer = u, !.at = "acquire"])
  /\ asked' = [asked EXCEPT ![c] = IF m = "find_by_identifier" THEN owner[i] ELSE Nil]
  /\ UNCHANGED <<idle, customers, owner, leaked, cancels>>

Acquire(c) ==
  /\ call[c].at = "acquire"
  /\ idle > 0
  /\ idle' = idle - 1
  /\ Goto(c, IF IsScoped(call[c].method) THEN "scope" ELSE "query")
  /\ UNCHANGED <<customers, owner, leaked, cancels, asked>>

Scope(c) ==
  /\ call[c].at = "scope"
  /\ Goto(c, "query")
  /\ UNCHANGED <<idle, customers, owner, leaked, cancels, asked>>

\* Mutant: the caller's `finally` releases it a second time.
ScopeFailsTwice(c) ==
  /\ call[c].at = "scope"
  /\ idle' = idle + 1
  /\ Set(c, Failed(call[c]))
  /\ UNCHANGED <<customers, owner, leaked, cancels, asked>>

\* `except Exception` of _scoped; the method's own `try` has not begun.
ScopeFails(c) ==
  /\ call[c].at = "scope"
  /\ idle' = idle + 1
  /\ Set(c, Unwound(Raised(call[c])))
  /\ UNCHANGED <<customers, owner, leaked, cancels, asked>>

\* find_by_identifier's own SELECT.
FindRow(c) ==
  /\ call[c].at = "query" /\ call[c].method = "find_by_identifier" /\ call[c].depth = 1
  /\ IF owner[call[c].key] = Nil
     THEN Goto(c, "release")
     ELSE Set(c, [call[c] EXCEPT !.customer = owner[call[c].key], !.depth = 2, !.at = "acquire"])
  /\ UNCHANGED <<idle, customers, owner, leaked, cancels, asked>>

\* get_customer's SELECT, one level above the last.
GetRow(c) ==
  /\ call[c].at = "query" /\ call[c].method \in Nested
  /\ call[c].depth \in (IF call[c].method = "get_customer" THEN 1 ELSE 2) .. Chain(call[c].method) - 1
  /\ IF call[c].customer \notin customers
     THEN Goto(c, "release")
     ELSE Set(c, [call[c] EXCEPT !.depth = @ + 1, !.at = "acquire"])
  /\ UNCHANGED <<idle, customers, owner, leaked, cancels, asked>>

\* list_identifiers' SELECT, and the Customer made of the rows.
ListRows(c) ==
  /\ call[c].at = "query" /\ call[c].method \in Nested /\ call[c].depth = Chain(call[c].method)
  /\ LET rows == {i \in Identifiers : owner[i] = call[c].customer}
     IN  Set(c, [call[c] EXCEPT !.found = [id |-> call[c].customer, identifiers |-> rows],
                                !.at = "release"])
  /\ UNCHANGED <<idle, customers, owner, leaked, cancels, asked>>

Upsert(c) ==
  /\ call[c].at = "query" /\ call[c].method = "upsert_customer"
  /\ customers' = customers \cup {call[c].customer}
  /\ Goto(c, "release")
  /\ UNCHANGED <<idle, owner, leaked, cancels, asked>>

\* The tenant is that of the customer: an unknown customer raises.
FindTenant(c) ==
  /\ call[c].at = "query" /\ call[c].method = "add_identifier"
  /\ IF call[c].customer \in customers THEN Goto(c, "insert") ELSE Set(c, Failed(call[c]))
  /\ UNCHANGED <<idle, customers, owner, leaked, cancels, asked>>

\* Mutant: a row that is there is deleted first, in a statement of its own.
InsertByReplacing(c) ==
  /\ call[c].at = "insert"
  /\ IF owner[call[c].key] # Nil
     THEN owner' = [owner EXCEPT ![call[c].key] = Nil] /\ UNCHANGED call
     ELSE /\ owner' = [owner EXCEPT ![call[c].key] = call[c].customer]
          /\ Goto(c, "release")
  /\ UNCHANGED <<idle, customers, leaked, cancels, asked>>

\* ON CONFLICT (tenant_id, channel, identifier) DO NOTHING.
Insert(c) ==
  /\ call[c].at = "insert"
  /\ owner' = [owner EXCEPT ![call[c].key] = IF @ = Nil THEN call[c].customer ELSE @]
  /\ Goto(c, "release")
  /\ UNCHANGED <<idle, customers, leaked, cancels, asked>>

Other(c) ==
  /\ call[c].at = "query" /\ call[c].method \in {"scoped", "direct"}
  /\ Goto(c, "release")
  /\ UNCHANGED <<idle, customers, owner, leaked, cancels, asked>>

\* The statement raises, or the task is cancelled while it runs: the method's
\* `finally` releases.
QueryFails(c) ==
  /\ call[c].at \in {"query", "insert"}
  /\ Set(c, Failed(call[c]))
  /\ UNCHANGED <<idle, customers, owner, leaked, cancels, asked>>

\* Mutant: a nested method releases and the ones above it do not.
ReleaseOnce(c) ==
  /\ call[c].at = "release"
  /\ idle' = idle + 1
  /\ Goto(c, "done")
  /\ UNCHANGED <<customers, owner, leaked, cancels, asked>>

\* The `finally` of the method at the call's depth.
Release(c) ==
  /\ call[c].at = "release"
  /\ idle' = idle + 1
  /\ Set(c, Unwound(call[c]))
  /\ UNCHANGED <<customers, owner, leaked, cancels, asked>>

-----------------------------------------------------------------------------
(* Cancellation: an MCP client may cancel its request, a worker is cancelled *)
(* on stop.                                                                  *)

\* The acquire gives nothing to a waiter that is cancelled.
CancelWait(c) ==
  /\ cancels < MaxCancels
  /\ call[c].at = "acquire"
  /\ Set(c, Unwound(Raised(call[c])))
  /\ cancels' = cancels + 1
  /\ UNCHANGED <<idle, customers, owner, leaked, asked>>

\* CancelledError is not an Exception: _scoped lets it pass with the connection,
\* which nobody then releases.
CancelScope(c) ==
  /\ cancels < MaxCancels
  /\ call[c].at = "scope"
  /\ Set(c, Unwound(Raised(call[c])))
  /\ leaked' = leaked + 1
  /\ cancels' = cancels + 1
  /\ UNCHANGED <<idle, customers, owner, asked>>

-----------------------------------------------------------------------------
\* The process connects to a database that may hold rows already.
Init ==
  /\ idle = PoolSize
  /\ call = [c \in Calls |-> NotCalled]
  /\ customers \in SUBSET Customers
  /\ owner \in [Identifiers -> customers \cup {Nil}]
  /\ leaked = 0 /\ cancels = 0 /\ asked = [c \in Calls |-> Nil]

\* What a call does once begun, unless it is cancelled.
Step(c) ==
  \/ Acquire(c) \/ Scope(c) \/ ScopeFails(c) \/ FindRow(c) \/ GetRow(c) \/ ListRows(c)
  \/ Upsert(c) \/ FindTenant(c) \/ Insert(c) \/ Other(c) \/ QueryFails(c) \/ Release(c)

Next ==
  \E c \in Calls :
    \/ \E m \in Methods, i \in Identifiers \cup {Nil}, u \in Customers \cup {Nil} : Begin(c, m, i, u)
    \/ Step(c)
    \/ CancelWait(c)
    \/ CancelScope(c)

\* The server answers every statement and the loop resumes every task, so that a
\* call whose next step stays possible takes it.  Who is served first is not assumed.
Spec == Init /\ [][Next]_vars /\ \A c \in Calls : WF_vars(Step(c))

-----------------------------------------------------------------------------
(* Properties.                                                             *)

\* The state is well formed.
TypeOK ==
  /\ idle \in Nat /\ leaked \in Nat /\ cancels \in Nat
  /\ customers \subseteq Customers
  /\ owner \in [Identifiers -> Customers \cup {Nil}]
  /\ asked \in [Calls -> Customers \cup {Nil}]
  /\ call \in [Calls ->
       [method : Methods \cup {Nil}, key : Identifiers \cup {Nil}, customer : Customers \cup {Nil},
        depth : 1 .. 3, at : {"new", "acquire", "scope", "query", "insert", "release", "done"},
        found : [id : Customers \cup {Nil}, identifiers : SUBSET Identifiers], raised : BOOLEAN]]

\* Every way out of a method gives its connection back, at every depth: one that
\* is not idle is held by a call that has not returned, or was taken from the
\* pool for good by a cancellation inside _scoped.
Accounted == idle + Cardinality(Held) + leaked = PoolSize

\* The most that the calls in flight may hold while they wait for one more.
Hoarded ==
  Cardinality({c \in InFlight : call[c].method = "find_by_identifier"} \X {1, 2}
              \cup {c \in InFlight : call[c].method = "get_customer"} \X {1})

\* No connection is idle and everyone wants one: no call can ever go on.
Wedged == idle = 0 /\ InFlight # {} /\ InFlight = Waiting

\* The pool wedges only if lookups that nest could hoard what is left of it: 5
\* concurrent find_by_identifier of a fresh pool of 10, fewer after leaks.  Calls
\* of the other methods, however many, never wedge it.
WedgeNeedsHoard == Wedged => Hoarded + leaked >= PoolSize

\* The three statements of a find are not one transaction, and yet it answers
\* with a customer that has the identifier, and misses none that was there when
\* it began: rows are only ever added.
FoundIsCurrent ==
  \A c \in Calls :
    call[c].at = "done" /\ call[c].method = "find_by_identifier" /\ ~call[c].raised =>
      IF call[c].found = NotFound
      THEN asked[c] = Nil
      ELSE /\ owner[call[c].key] = call[c].found.id
           /\ call[c].key \in call[c].found.identifiers

\* Every call returns, whoever the pool serves first, unless nested lookups
\* hoard the pool for good.
Served ==
  \A c \in Calls :
    c \in InFlight ~> (c \notin InFlight \/ (Wedged /\ Hoarded + leaked >= PoolSize))
=============================================================================
