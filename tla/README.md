# A TLA+ model of Memnex

Memnex (`src/src/memnex`) is a memory layer for customer-facing agents: it
stores facts about a tenant's customers, supersedes the ones that a newer fact
contradicts, caches a customer's working memory, finds memories by meaning, and
forgets a customer on request. Around that core stand the intake of a write
(filter, extraction, masking), the rendering of a read, the Postgres connection
pool and the platform (tenants, keys, rate limit). This directory models them,
checks them with TLC on small instances and proves the main safety properties
with TLAPS.

Paths below are relative to `src/src/memnex`.

## Inventory

| Component | State | Operations | Hard part |
| --- | --- | --- | --- |
| Memory service: `memory/manager.py`, `client.py` | none of its own between calls but the ledger and a list of alerts | write, read, search | each runs as an asyncio task over up to seven awaited calls, beside the others |
| GDPR: `privacy/gdpr.py` | - | forget, export | three stores emptied one after the other |
| TTL worker: `privacy/ttl.py`, `workers/privacy.py` | - | enforce | retires rows it listed earlier |
| Version clock: `concurrency/versions.py` | a counter per customer | bump, current | shared by instances over Redis |
| Write ledger: `concurrency/ledger.py` | list of hash-chained entries, in process memory | append, verify_chain, tail | order of the entries; lost on restart |
| Invalidation bus: `concurrency/bus.py` | subscribers; messages in flight on Redis | publish, deliver | lost, late |
| Hot store: `storage/redis.py`, `memory_backend.py` | working memory and identifier cache, with TTLs | get, set, invalidate | a set that undoes an invalidation |
| Warm store: `storage/postgres.py`, `memory_backend.py` | customers, identifiers, candidate links, memories | upsert, insert, supersede, list, delete | foreign key, nested pool connections |
| Semantic store: `storage/qdrant.py`, `memory_backend.py` | a point per memory | upsert, search, delete | no transaction with the warm store |
| Store selection: `storage/factory.py`, `config.py` | - | open_stores | decides which awaits suspend |
| Conflict detection: `memory/conflict.py` | - | detect, apply_strategy | sees only what was listed |
| Extraction, salience, masking, embedding: `memory/`, `privacy/` | - | extract, score, mask, embed | provider calls |
| Identity: `identity/`, `workers/identity_merge.py` | customers, identifiers, cache | resolve, link, check_match, merge | find-then-create races, stale re-insert |
| Compaction: `workers/compaction.py` | - | run_once | decides from one listing |
| Compressor: `memory/compressor.py` | - | compress | pinned facts and the budget |
| Trust policy, injection filter: `provenance/` | - | check, scan, wrap | which facts of a batch survive |
| Tenants, keys: `saas/` | tenants, keys | register, login, add, revoke, resolve | sessions that outlive their tenant |
| MCP server: `mcp/` | tenant resolved at start | tools, resources, prompts | authorised once, for good; two filters in a row that must agree |
| HTTP API: `api/` | sliding window per tenant | routes, auth, rate limit | window boundary; routes without a limit |
| Trace: `audit/trace.py` | - | trace_output | reads again, perhaps the cache, instead of what the agent was shown |
| Channels: `channels/` | - | format, extract | which memories a channel leaves out |
| Receipts, CLI, eval | - | pure functions and entry points | - |

How they interact. A client call awaits the memory service, which awaits the
stores, the clock, the ledger and the bus one at a time. The stores are shared
by all requests, and over Redis, Postgres and Qdrant by all instances of a
fleet. A publish on the bus calls back into the service, which invalidates the
hot store. Workers run beside the requests over the same warm store.

What makes each correct, where the model states it:

- write: promised before stored, unique and ordered versions, stored whole on
  return, conflicts resolved
- read, search: what an earlier write returned is found
- forget: nothing of an earlier write left in any store, nothing comes back
- every request returns
- resolve: one customer per identifier, a link takes hold, a merge loses no
  memory, a forgotten customer is not resolved to
- crash: every row can be searched for, whatever a crash cut short
- compaction: no fact that has not faded loses its last active row
- intake: what is kept is exactly what scores, fits and is trusted; nothing of a
  text that the filter refuses, nothing that the masker should have replaced
- rendering: the budget, the order, the envelope of untrusted facts, and no quoted
  memory taken for an invention
- pool: connections come back, and a wedge has one cause only
- platform: indexes agree, a server serves the tenant of a key that stays good, keys
  change in valid sessions of their tenant only, the rate of the requests that are
  limited is bounded and no tighter than it says

## Modules

| Module | What it is |
| --- | --- |
| `MemoryManager` | the requests, the three stores, clock, ledger, bus; its properties |
| `MemoryLifecycle` | the abstract specification: the life of one memory |
| `Compaction` | extends `MemoryManager` with the passes of the compaction worker |
| `Recovery` | extends `MemoryManager` with crashes of the process and losses of Redis |
| `IdentityResolver` | resolve, link, forget and merge over customers, identifiers and their cache; its properties |
| `Intake` | one write before anything is stored: validators, filter, extraction, masking, salience, policy |
| `Render` | one read from cache or rows: listing, compressor, channels, envelope, trace |
| `ConnectionPool` | the Postgres store's methods as takers of pooled connections |
| `Platform` | the start of an MCP process, tenants, sessions, keys; REST authentication and rate limit |
| `MC...` | model values, small inputs and symmetry for TLC, one for each module that is run |
| `MemoryManagerProofs` | types, frame lemmas on which step writes what, durability first, versions |
| `ReturnProofs` | what a write has stored and a forget removed by the time it returns; what searches, conflict detection, the cache and reads show |
| `ExtensionProofs` | the service beside the compaction worker and through crashes and losses; its refinement of `MemoryLifecycle` |
| `IdentityProofs` | the resolver's types, forgotten customers; off Postgres one customer per identifier, links, merges |
| `IntakeProofs` | what the injection filters let through, extraction leaves, masking replaces and the cut keeps |
| `RenderProofs` | what a read keeps, a channel shows, an envelope holds and a trace finds |
| `ConnectionPoolProofs` | the pool's types, answers of finds, every connection accounted for, the cause of a wedge |
| `PlatformProofs` | types, the tenant store's consistency, the server's tenant, revocation, the rate limiter |

`Intake` ends where `MemoryManager` begins: the lists it may keep and refuse are
`Batches` and `Refused` there. `Render` takes the requests of `MemoryManager` as one
step each and follows what one agent is given of them. `ConnectionPool` refines single awaits of the warm
store, which `MemoryManager` and `IdentityResolver` take as one step each.

### How MemoryManager corresponds to the code

A request is one task that calls `user_write`, `user_read`, `user_search`,
`user_forget` or the TTL worker's `enforce` once. `pc[r]` is the awaited call it
makes next, and there is one action per awaited call: it takes the effect of the
call on the store together with everything the task computes until its next
await. `user_write` goes

    get_customer -> upsert_customer -> extract -> list_existing -> bump ->
    append -> { supersede* -> embed -> upsert_point -> insert_memory }* ->
    invalidate -> publish -> done

with the early returns of the code (no fact left: done; all refused by the trust
policy: current, done; injection or malformed fact: failed).

*The event loop.* Awaiting a coroutine that never suspends does not yield. With
in-memory stores most of a write is therefore one uninterrupted turn, and with
Redis every call of the hot store or the clock is a point where others run.
`Remote` says which calls leave the process, from the constants `Redis`,
`Postgres`, `Qdrant` and `RemoteModels` (what `open_stores` picked);
`Suspends` adds the one local call that yields, the `asyncio.gather` of the
in-process bus. `loop` holds the task that is in the middle of a turn; no other
task and no event may step in until it suspends. The interleavings checked are
those the deployment has, not more. With every store remote `loop` stays Nil
but for ledger appends and model calls, so that the same model stands for a
fleet of instances. The one thing a fleet has more than one of is the ledger,
which the model keeps as a single log.

*Failures.* With `Faults`, a remote call raises without effect (`Raise`), takes
effect and loses its reply (`Goto`), and the bus drops messages. Any exception
ends the request as failed, as the code catches none but that of the publish.
On Postgres two statements always fail and are modelled as such: superseding by
a row that is not stored yet (foreign key of `migrations/001_initial.sql:62`)
and `DELETE ... RETURNING count(*)` (`postgres.py:358`).

*Abstractions.* A fact is a model value. `Opposed` is what `conflict.detect`
reports of two facts, `Kind` and `Salience` their type and score. `Batches` are
the fact lists that extraction, masking, the salience threshold and the per-write
cap may leave; `Refused` are the facts that the trust policy drops. Among rows of
equal salience the order of `created_at` is left open, and so is the ranking of a
semantic search. A memory id is the pair of the write and the position of the
fact, for the code's fresh uuid. A model instance has one tenant: every store
operation of the code is keyed by it. `before[r]` is a history variable: the
writes and forgets that had returned when r began.

### How IdentityResolver corresponds to the code

The same conventions: a request is a task, `pc[r]` its next awaited call, `loop`
the turn of the event loop. A resolve goes

    get_identifier_cache -> [ get_customer ] -> find_by_identifier
      -> [ upsert_customer -> add_identifier ] -> set_identifier_cache -> done

and ends early on a cached customer that exists, or fails on a miss with
`auto_create=False` (`Lookups`). `link_identity` runs the last two calls, so
that `AddIdentifier` and `SetIdentifierCache` are shared. `Writers` go on with
the write, reduced to what carries the customer: the awaits that plan it
(`PlanWrite`), its point and its row. A customer is named by the resolve that
creates it, for the code's fresh uuid.

`Operators` choose between a link, a forget and a merge, on customers that a
resolve has returned (`Known`). `forget_customer` leaves the identifier cache
alone, as the code does. The merge worker's two loops each run in one turn on
the in-memory store; on Postgres no row of them changes (the re-insert repeats a
primary key, the identifier conflicts, the delete is refused), and the actions
fail there. In memory a later `add_identifier` replaces the row, on Postgres the
row there is wins (`ON CONFLICT DO NOTHING`, `postgres.py:134`), and `AddIdentifier`
has both.

This module stands beside `MemoryManager`, not under it: they share the hot,
warm and semantic stores but, of what the other writes, each needs only that
memories belong to a customer. Fuzzy hints only record candidate links.

### How Compaction and Recovery correspond to the code

`Compaction` adds one action, `RunOnce`. The worker finds the customers in the
private dictionary of the in-memory store (`workers/compaction.py:86`), so that on
Postgres it finds none; where it finds some no await of it suspends, and a pass
over all customers is one step. Both loops work on one listing: a row that decays
stays in the list that duplicates are looked for in. `Seens` are the lists `seen`
that the second loop may end with, `old` the writes of more than 30 days ago. A
retired row names itself as its successor, which is why `Retire` of
`MemoryLifecycle` takes a set.

`Recovery` adds `Crash`, which ends every request in flight and empties whatever
lives in the process (the ledger, always; every store that is not remote), and
`LoseRedis`: cache and clock start empty. No code of the repository replays a
ledger or repairs a store on start, so that there is no recovery action.

### How Intake corresponds to the code

One action per step of a write: `MemoryWrite` (the MCP tool's validators and
injection floor), `Write` (the head of `MemoryManager.write`), `Extract`,
`MaskFacts`, `Select` (salience and cap), `Plan` (trust policy). Calls enter at the tool
or, from the library, at `Write`. An item is a string, a `Fact`, a dict or a stray; the
tool makes a `Fact` of every dict (`Handed`). The manager's filter reads a dict as
`str()` shows it (`Scanned`, `manager.py:115`), which is why an item has a `repr`
beside its text. A deployment is [llm, pii, presidio, reject], the last being the
policy's `reject_injection_patterns`; the language model answers, answers something
else, or raises.

A text is a record of what the steps tell of it: its sentences, the whole, how
deep in encodings a denied phrase lies, and the parts of an instruction's shape.
A sentence has a length in units, the detector's hits as intervals of units, the
type its cue gives, the fuzzy match, and what the salience score looks for. What
the regular expressions match is thus data; what is done with the matches is
modelled. A fact's `body` is the sequence of units that are left of its text, in
which a placeholder takes `Placeholder` units: `Mask` replaces at the indices of
the original text, as the code does. Confidence and similarity are in percent
and salience in 1/10000, with the rounding of floating point left out.

### How Render corresponds to the code

`Read` and `ReadWrapped` are the calls of the client and of the MCP tool: the cached
list if there is one, whatever its type, or the first `ListLimit` rows, which are
cached (`ReadList`, `Listing`); the compressor under the budget, where none and 0 mean
the default one; and the text of a channel or the envelope. The module follows one
customer's requests one after another; what happens between listing and caching is
`MemoryManager`'s subject.

In between `Retire` is the TTL worker or compaction, which leave the cache alone;
`Write` and `Forget` change rows and drop the cache, and `Expire` drops it by its TTL.
`Draft` is an agent that quotes a run of words of a memory it was shown, and `Trace`
the client's `user_trace`, which reads again with the default budget and hence from the
cache where the agent's read has left one. On Postgres `AsRead` drops the trust level:
`insert_memory` has no column for it.

Memories may tie in salience and creation time, as the facts of one write do. A store
returns those in any order (`Orders`); the sorts of the compressor are stable, and the
last one sorts the pinned memories before the others (`LastSort`). A fact is a sequence
of words; token counts, phrase scores and overlap are computed from them by the
code's formulas, with 15 characters taken as `MinPhrase` words. A channel is the
set of memories its text shows, without their order.

### How ConnectionPool corresponds to the code

A call is one method of `PostgresStore` in one task; `depth` is how many methods
are nested, each of which has a connection of its own. Its awaits are the acquire,
the `set_config` of `_scoped` (`postgres.py:35-48`), each statement and the
release. `find_by_identifier` calls `get_customer`, which calls
`list_identifiers`, each inside the `try` of the one before. Methods that
neither nest nor touch the two tables are one of two kinds, "scoped" and
"direct". A statement may raise; a task may be cancelled while it waits for a
connection (`CancelWait`), inside `_scoped` (`CancelScope`, the connection is
lost) or in a statement (as `QueryFails`); asyncpg shields the release. Statements
are atomic. The pool is external: `acquire` waits without a limit and serves its
waiters in any order. The role of the pool is taken to own the tables, so that
row-level security, whose setting is local to a transaction that `_scoped` never
opens, does not restrict it.

### How Platform corresponds to the code

A process is `serve mcp` over stdio, `serve mcp` over HTTP, or `serve rest`
(`cli/main.py:36-65`). The first two go through `phase`: `Bootstrap` makes the store
and, with `MEMNEX_DEV_KEY`, the dev tenant and a key in no session, which becomes the
process's secret (`bootstrap.py:20-38`); `ResolveTenant` looks the secret up, once, and
the process is up or down. Only over HTTP, and only then, is the dashboard mounted
(`server.py:231-236`): `Register`, `Login`, `AddKey` and `RevokeKey` come too late for
this process's server, and the store is gone when the next one starts. A secret from
elsewhere is thus never in the store, and a server serves the dev tenant or does not start, which is what
`ServesDevTenant` says. `env` holds the three variables that matter; without a JWT key a registration stores
its tenant and hands out no session, and a session is good only under the key that signed it.

`TenantStore` and `RateLimiter` have no await inside an operation, so that each is a
step; between them time passes (`Tick`) and the process restarts (`Restart`), which
empties both, may change the environment and leaves the session tokens, signed and
stateless, in the clients' hands. A REST request is one of three: `Request`, to a route
with key and limiter; `Stats`, to `GET /stats`, with a key only (`admin.py:26-32`);
`Open`, to `/health` and `/metrics`, with neither. `passed` are the requests that the
limiter let through. `Pruned` is the deque after its popping loop.

`Tenant.disabled` is checked by the code and set by none, and is left out. A raw key
is its id, or Nil if it does not parse or verify; a password is right or wrong, and
the dev tenant's, drawn at random and told to nobody, is never right.

## What the runs check

| Run | Instance | Shows |
| --- | --- | --- |
| `local` | in-memory stores, remote providers; 2 contradicting writes, 2 reads with or without `if_version` 1, forget | `LedgerInVersionOrder`, `ReadAfterWrite`, `SerialConflictsResolved`, `ForgottenNotCached` |
| `progress` | Redis and Qdrant, all faults; write, read with `if_version` 0 to 2, search, forget | `RequestsReturn` |
| `shared` | Redis and Qdrant remote, all faults; 2 writes of up to 2 facts, forget, compaction, 2 customers | `TypeOK`, `UniqueVersions`, `LedgerFirst`, `DurableOnReturn`, `ForgottenGone`, `CompactionKeepsFacts`, and that service and compaction implement `MemoryLifecycle` |
| `recovery` | everything remote, all faults, crashes, losses of Redis; 2 writes (empty, refused and mixed batches), search, TTL worker | `RowsAreSearchable`, `SearchAfterWrite` |
| `identity` | in-memory warm store, Redis cache; a write, a resolve whose calls may raise, a lookup, 2 operators, 2 identifiers | `TypeOK`, `SameCustomer`, `SerialLinksHold`, `FoundAgain`, `ForgottenUnresolved` |
| `intake` | every list of up to 2 items of 9 or, in the library, 11 (some of 3), or one of 8 raw texts, by tool or library, in 8 deployments | `TypeOK`, `KeepsTheRightFacts`, `EveryItemExtracted`, `FloorSuffices`, `NoTaintedFact`, `MaskedExactly` |
| `render` | every set of 5 memories, three of them tied, of which 4 are listed, in memory or on Postgres, 3 budgets (0, the default, among them), filtered or not, 5 channels or wrapped, 2 changes of rows or cache | `TypeOK`, `BudgetKept`, `ShowsTheTop`, `UntrustedWrapped`, `NoFalseAlarm` |
| `pool` | 3 calls of any method on a pool of 3, one cancelled | `Accounted`, `WedgeNeedsHoard`, `FoundIsCurrent`, `Served` |
| `platform` | 4 addresses, 4 tenants, 4 keys, 2 JWT keys or none, 3 kinds of process, 4 instants, a restart; 5 requests passed at a rate of 2 | `TypeOK`, `IndexesAgree`, `ServesDevTenant`, `RateBounded`, `RevocationHolds`, `RefusedOnlyWhenFull` |
| `stale_read` | Redis; 2 reads, 1 write | `ReadAfterWrite` fails |
| `forget_postgres` | Postgres; write, forget | `ForgetTotal` fails |
| `masking` | overlapping hits | `MaskedWhole` fails |

The three failing runs are places where the code does less than it says:

1. `stale_read`. A read lists the rows, a write stores, invalidates and
   publishes, and then the read's `set_working_memory` lands. Every later read is
   a hit on the old list, `if_version` or not, until the TTL of hours. The
   docstring of `read` says "strict read-after-write" (`manager.py:325`).
2. `forget_postgres`. The statement is refused, the forget raises after it has
   purged only the cache. `gdpr.py:3`: "Forget must be total".
3. `masking`. A card number is also found as an Aadhaar number and a phone number
   that start with it. Those are replaced one after the other by indices of the
   original text, each cutting into the placeholder of the one before: of
   "card 1234 5678 9012 3456 ok" the last group stays. `masker.py:45`: "right-to-left
   so indices stay valid", which they do only for hits that do not overlap;
   `MaskedExactly` is what then holds.

Others of the kind, met while modelling and stated as the condition of a
property that holds, or not at all:

- A filtered read caches its list under the key that unfiltered ones look in
  (`manager.py:335-342`); `ReadAfterWrite` is run without filters.
- Two writes that both list before either stores do not see each other's fact
  (`manager.py:180`), though `mcp/tools.py:258` says contradicting facts "will be
  merged/superseded by the server". `SerialConflictsResolved`: a write resolves its
  conflicts with every write that returned before it began.
- A read beside a forget re-caches what is forgotten on Redis, as in `stale_read`:
  the purge of the cache comes first and is never repeated (`gdpr.py:37`).
- On Postgres two first contacts on one identifier create two customers
  (`resolver.py:63`); the second's identifier insert does nothing and the customer
  returned is found by nobody afterwards. A link of an identifier that has a
  customer changes only the cache there (`postgres.py:134`).
- A loss of Redis lets versions repeat, so that a reader with an old `if_version`
  waits in vain, while the operator guide (line 220) says that losing it "is fine". The ledger,
  "the durable source of truth" (`ledger.py:3`), is a list in process memory.
- The worker's docstring says that it supersedes "very old intents with no matching
  resolution" (`workers/compaction.py:6`); no code does. Of two faded duplicates it
  may retire both, for which `CompactionKeepsFacts` speaks of facts not faded.
- The compressor's docstring says "largest subset", "most recent" and "merged where
  possible" (`compressor.py:3-6`). It is a greedy choice by salience, pins the most
  salient of a type, merges nothing, and exceeds the budget when the pinned facts do. Of two memories that tie it may keep one and
  drop the other, which would have fitted beside the better ones: `BudgetKept` says that what is
  dropped does not fit beside those that are *no worse*.
- The trace speaks of "every memory we returned in the most recent read"
  (`trace.py:3`) but reads again with the default budget, while the prompts tell
  agents to read with 1500 (`prompts.py:141`), and reads the cached list where there is
  one. A memory pinned in the store may thus be missing from the list the trace
  compresses; hence the cases of `NoFalseAlarm`, all about that list.
- The manager's filter reads a dict fact's repr (`manager.py:115`), whose quote and
  brace join the first word: a text that opens with an instruction is refused as a
  string and stored as a dict. `manager.py:111` says "tainted content never reaches the
  extractor"; `NoTaintedFact` leaves a library's dicts out. The tool has made `Fact`s of them.
- Without `MEMNEX_DEV_KEY` no MCP server can start: the only store it looks its key up
  in is the empty one just made. The keys that the dashboard hands out start nothing.
- On Postgres a trust level lasts as long as the cache entry: afterwards verified
  facts are wrapped as untrusted. `UntrustedWrapped` is the direction that matters.
- Five concurrent `find_by_identifier` hold a pool of ten and each waits for one
  more; a cancelled task can take its connection with it (`postgres.py:43, 83`).
  `WedgeNeedsHoard` and `Served` say that nothing else wedges the pool.

What `identity` shows has its conditions in the properties. `SerialLinksHold`: a
link holds for later resolves if no resolve of that identifier ran beside it; one
that did may put the older customer back into the cache. `FoundAgain`: a merge
loses nothing written before it; a write it overlaps may store under the customer
merged away.

`ReadAfterWrite` and `ForgottenNotCached` hold in `local`, where no await between
listing and caching suspends: the mutant that makes local calls yield violates
the former at once. The same is not true of the conflict race, which the
embedder's suspension is enough for.

`FloorSuffices` relates two filters that are not the same: the tool's floor looks at
the raw text and every item, the manager at the raw text or else the items, with
an empty raw text counting as none; `NoTaintedFact` says that what extraction then
uses was looked at, dicts apart, by the floor or, where the policy has it on, by the manager.

*Bounds.* Each request is made once; two writes are the least that race for
versions, ledger order and conflicts, and two facts in a batch the least that a
failure can split. `ListLimit` and `SearchLimit` exceed the rows an instance can
hold, so that no property is owed to rows cut off. Versions, ledger and bus are
bounded by the number of writes, with no constraint on states. `shared` uses the
symmetry of the two writers and `local` that of the two reads, whose constants
agree; neither checks liveness. `progress` has one request of each kind: whether
a request returns depends on the others only through the version a read awaits.
`identity` has three resolves because a merge needs two customers and a
third request to find the memory again, and two operators for a link or a merge
after another; identifiers and operators are interchangeable there.
In `recovery` the number of crashes is not bounded: requests do not come back, so
that the states stay finite, and the two writes give a search something from
before and something from after a crash.
`intake` drops facts below 0.49, so that some of its facts are dropped: with
the default of 0.1 (`config.py:61`) the write path drops none, since recency and
uniqueness are 1 there and no score is below 0.26. It has every pair of items so that one item's fate meets another's (order,
cap, an early malformed one), `MaxItems` and `MaxFacts` 2 with lists of 3 to
exceed them, denied phrases at, above and below the decoding depth, and a dict whose
repr is harmless where its text is not. `render`
has, in its five memories, three that tie, of which one is pinned and two do not both fit
beside it, a second of a pinned type, three levels of trust, nonces that facts contain, and a listing of one row
less; two changes are the least that put a write after a retirement, or a row back.
`pool` has three calls and three connections: a find that nests in full needs
three, and two are the least that wedge; one customer and one identifier, since
two take the run past its time and the theorems cover any number. `platform`'s
four addresses are two spellings of one, another and the dev tenant's, its four tenants
and keys two for each of its two processes, and five requests that the limiter passes
make two windows of two that overlap.
`intake` reaches 20 thousand distinct states, `platform` 55 thousand (up to symmetry), `pool` 178
thousand, `render` 933 thousand; the others from 0.3 to 4.6 million.

*Fairness.* `FairSpec` assumes that a request which can take a step eventually
does: the event loop resumes every task whose call has been answered, and calls
are answered unless they raise. No call need raise (the fair actions leave out
`Raise`, so that no request owes its end to a failure), callers need not call,
messages need not be delivered, entries need not expire. For a read that polls a version that nobody reaches, the
step that is eventually taken is its time-out; `RequestsReturn` depends on it.
`ConnectionPool` assumes weak fairness of each call's steps, of which an acquire is
one only while a connection is idle: the server answers and the loop resumes, and
in what order the pool serves its waiters is not assumed. `Served` leaves out the
wedge, in which no fairness helps. `Intake`, `Render` and `Platform` state safety only.

Deadlock is checked in the runs of `MemoryManager`, its extensions and
`IdentityResolver`: the only states without a step are those where every request
has returned, where `Quiet` stutters. The others really stop and say
`CHECK_DEADLOCK FALSE`: a write is stored or refused (`intake`, `masking`), a
draft is traced (`render`), every call has returned or the pool is wedged
(`pool`, where `Served` says which), the time is over (`platform`).

*Mutants.* The modules hold, beside some definitions, a variant marked "Mutant" with a plausible bug (a skipped purge, a missing condition, a version
not stored, the wrong side of a boundary). Each property of a passing run is violated
once a variant takes the definition's place; no specification refers to the variants.

## What is proved

All theorems hold for every value of the constants: every set of requests and
customers, every batch, every choice of backends unless the table names one, with
faults or without, a pool of any size, any rate and window. They rest on the named
assumptions of the modules (the kinds of requests are disjoint, facts are well formed,
Nil is nothing else, the calls of a pool and the memories of a catalog are finitely
many). `MemoryManagerProofs`
and `ReturnProofs` are about `Spec`, the memory service alone.
`ExtensionProofs` takes their results to `CompactingSpec`, with passes of the worker
between any two steps, and to `RecoverySpec`, with crashes and losses between any two.

| Theorem | States | Inductive invariant |
| --- | --- | --- |
| `TypeCorrect`, `TypeSafety` | `TypeOK` | `TypeInv`: types, and a request that runs knows its customer |
| `DurabilityFirst` | `LedgerFirst` | with `PendingPromised`: what a storing write has left is in the ledger |
| `VersionsUnique` | `UniqueVersions` | `VersionInv` |
| `VersionOrder` | `LedgerInVersionOrder` | `VersionInv` |
| `ForgetPurges` | `ForgottenGone` | `ForgetInv` |
| `ReturnsDurable` | `DurableOnReturn` | `Durable`, with `ForgetInv` |
| `SearchesFind` | while `FewPoints`, `SearchAfterWrite` | `Found`, with `Durable` |
| `ConflictsResolve` | while `FewRows`, `SerialConflictsResolved` | `Resolved`, with `ForgetInv` |
| `ForgetUncaches` | without Redis and Postgres, `ForgottenNotCached` | `Cached` |
| `ReadsSeeWrites` | without Redis, Postgres and `fact_type`, while `FewRows`, `ReadAfterWrite` | `Fresh`, with `LifeInv` |
| `CompactingTypeCorrect`, `DurabilityCompacting`, `VersionsCompacting`, `ForgetCompacting`, `ReturnsCompacting` | types, `LedgerFirst`, `UniqueVersions`, `ForgottenGone`, `DurableOnReturn` beside compaction | the same |
| `CompactionIsSafe` | `CompactionKeepsFacts` | from `Texts`, for each step |
| `ServiceImplementsLifecycle` | `LifecycleSpec`, beside compaction | `LifecycleInv` |
| `RecoveryTypeCorrect`, `ForgetsSurviveLosses` | types, `ForgottenGone` through crashes and losses | the same |
| `RowsStaySearchable` | `RowsAreSearchable` | `SearchInv` |
| `SearchesSurviveLosses` | with Postgres and Qdrant, while `FewPoints`, `SearchAfterWrite` through crashes and losses | `Durable` and `Found` |
| `IdentityTypes` | `TypeOK` of the resolver | `TypeInv`: types, and a resolve that runs knows its identifier |
| `ForgottenStaysGone` | `ForgottenUnresolved` | `CreateInv` and `ForgetInv` of `IdentityProofs` |
| `OneCustomerInMemory`, `LinksHold`, `MergesKeepMemories` | off Postgres, `SameCustomer`, `SerialLinksHold`, `FoundAgain` | `IdentityInv` |
| `NothingTaintedKept`, `FloorIsEnough` | `NoTaintedFact`, `FloorSuffices` | `CallInv`, `FilterInv`, `FloorInv` |
| `Typed`, `ItemsExtracted`, `RightFactsKept`, `HitsReplaced` | `TypeOK`, `EveryItemExtracted`, `KeepsTheRightFacts`, `MaskedExactly` of `Intake` | `IntakeInv` |
| `Typed`, `Budgeted`, `TopShown`, `Wrappings`, `Grounded` | `TypeOK`, `BudgetKept`, `ShowsTheTop`, `UntrustedWrapped`, `NoFalseAlarm` of `Render` | `RenderInv` |
| `PoolTypes` | the pool's `TypeOK` | `TypeInv`: types, arguments that fit the method and its depth, no identifier without its customer |
| `FindsAreCurrent` | `FoundIsCurrent` | `FindInv` |
| `AllAccounted` | `Accounted` | with `TypeInv` |
| `WedgesOnlyByHoard` | `WedgeNeedsHoard` | follows from the two above |
| `PlatformTypes` | `TypeOK` of the platform | `TypeOK` itself |
| `StoreConsistent`, `ServersServeDev` | `IndexesAgree`, `ServesDevTenant` | `StoreInv` |
| `RevocationsHold` | `RevocationHolds` | from `StoreInv`, for each step |
| `RateIsBounded` | `RateBounded` | `LimiterInv` |
| `RefusalsNeeded` | `RefusedOnlyWhenFull` | from `LimiterInv`, for each step |

*Hypotheses.* Some theorems ask for less than every state, each for what the code
does beyond it. `FewRows` and `FewPoints` say that no customer has more active rows
than a listing shows, or more points than a search returns: past the limit both cut
off the least salient or least similar, and a read, a search or the conflict detection
does not see them. They are assumed of the states of the run, not of the constants.
With Redis or Postgres, a call between listing and caching suspends, and
`ReadAfterWrite` and `ForgottenNotCached` are false (`stale_read`). A filtered read caches its list for all, so that
`ReadsSeeWrites` has `Filters` without a `fact_type`. Where the warm store or the semantic
store lives in the process, a crash takes it along, so that `SearchesSurviveLosses`
asks for Postgres and Qdrant. On Postgres a link of an
identifier with a customer changes only the cache and two first contacts create two
customers, so that `IdentityInv` is about the warm store in memory.

*Durability.* `LedgerFirst` is not inductive alone: a store action needs to know that the
ledger names the row it adds. `PendingPromised` says so from the moment of the
append; `StoringFrom` shows that there is no other way into the store loop, and
`PromisesKept` that the ledger only grows.

`VersionInv` has two parts beside the properties. `VersionsFresh`: the clock is at
or past every version in the ledger, and a version on its way to the ledger is
neither there nor on another write; this gives uniqueness whatever the
interleaving. `LoopHeld`: without Redis, a write between bump and append holds
the event loop and has the customer's largest version; this gives the order, and
is false with Redis, where `shared` reaches ledgers out of order.

`ForgetInv`: rows and points carry the customer of the write that made them and
exist only once it has begun (`OwnRows`), what had returned stays returned
(`BeforeReturned`), and a forget past each delete leaves nothing of earlier writes
in that store (`GoneInOrder`). `RowOrigin` and `PointOrigin` show that a row or
point appears only by a step of its own, still running, write. On Postgres the
theorem is empty, since no forget returns there (`forget_postgres`).

`Durable` follows a write through its calls (`StoredSoFar`): its customer has a row from
the upsert on; of what it planned each fact is stored, row and point, or still
pending; the fact it is about to insert has its point; and it leaves the store loop
with nothing pending. It is claimed of writes no forget overlaps, since a
forget beside a write may take the customer, a row or a point from under it.

*Reads.* `Found` says that a search past its call of the semantic store has all that is
due: by `Durable` the points are there, by `FewPoints` the search returned them
all, and by `Durable` again the rows can be fetched. `Resolved` follows the conflicts of
a write with the earlier ones: a planned fact that contradicts an active row has that
row in the write's listing until the write has superseded it, or is itself
superseded or not stored yet (`Resolves`). It needs `OwnRows` to know that nobody else adds
rows to an earlier write, and the conclusion speaks of `latest_wins`, the one strategy
that supersedes. `Cached` and `Fresh` are about the one turn from listing to caching,
and from the purge of the cache to that of the rows: the request holds the loop, so that
what it caches is still what is stored. `Fresh` adds that the cache, when there is
one, misses no active row of a write that has invalidated it.

*Compaction.* A pass of the worker only retires rows, each with itself as its successor
(`RunOnceRows`), so that the invariants of the service hold beside it. For
`CompactionIsSafe` the other steps are sorted out first: a step that retires a row
and leaves program counters and locals alone is a pass (`RowsByPass`). `Texts` says
that every row has a fact of its write's batch, which the salience of the row comes
from. A row that a pass retires unfaded duplicates one met earlier in the listing,
hence no less salient and not faded either, and the rows met are not retired
as duplicates (`PassKeeps`).

*Refinement.* `LifecycleInv` adds `LifeInv` to the invariants above: a write promises nothing
before its ledger entry, what is pending has no row, and a write that takes a version
has something to store. Then an append promises all of its memories at once
(`Promises`), an insert stores one of them, a supersede or a pass retires a set
(`RetiresOrStutters`), a forget removes them, a bump ticks, and every other step of
service and worker leaves the abstract state alone (`LifeByRow`).

*Recovery.* `SearchInv` follows the order of a write's calls: about to insert a row, a write has
stored its point (`PointFirst`), which nobody takes away, since on Postgres no
forget gets as far as the points (`NoPointDeleted`); a row appears by an insert only
(`RowsHavePoints`). A crash ends every write before its next call; with Postgres
and Qdrant it loses neither rows nor points. `LossFrame` says what a crash or a loss may
change; nothing of it appears in a store, so that `ForgetInv` holds on any stores.

*Identity.* `CreateInv` (theorem `CustomersMade`) says that a customer which
exists, or which somebody was answered with, is past the one step that can create
its row. A forget names such a customer, so that once the row is deleted it never
comes back, not even from the cache, and a resolve that begins later cannot come
to hold it (`ForgetInv`).

`IdentityInv` is for the warm store in memory and has five parts, which TLC checked on the
instance of `identity` before they were proved.
`Directory`: an identifier's row names a customer that exists; a resolve that creates its customer holds the event loop from the
lookup that missed to the identifier's row, so that nobody else misses in between; a merge holds
it from the first row it moves to the delete. `Agreement`: whoever has a customer for
an identifier that nobody links, the cache included, has the one its row names, or
one that no longer exists or is about to be deleted with its identifiers moved. `Existing`: what a resolve settled on is
there as long as no operator's call is deleting it. `Linked`: a link that no resolve of its identifier disturbed holds in the
row, in the cache and in whatever a later resolve has. `Kept`: what an orderly write has stored belongs to the customer that its
identifier's row names, except between the two loops of a merge. The three theorems follow
from these at the state where the requests they speak of have returned.

*Intake.* `FilterInv` says that, with the filter on, a call past it is clean in the texts the filter
looks at; by `SourceFiltered` these cover, dicts apart, the texts that facts are taken from, whichever
of raw text and items the client gave. `FloorInv` says the same of the tool's floor and its wider set of texts, and
`FloorCoversFilter` that it contains the other once no item is a dict, which `CallInv` says of the
calls the tool has handed on.

`IntakeInv` follows the facts from step to step: as extracted, no unit of their texts is replaced
(`FreshFacts`) and a list of items is covered in order (`Covers`); after masking each text is
what `Mask` makes of it (`AllMasked`); at the policy the facts kept are those at the
indices `Chosen`. Sequences are filtered and sorted by the one operator `Arranged`, which
sorts by any strict total order (`ArrangedSorts`, from the pigeonhole principle), and taking from what was taken
is taking once (`AtOfAt`): by it the cap after the cut leaves `Chosen` (`ChosenAre`)
and the policy after both `ToKeep` (`PolicyLeaves`). The loops of extraction, deduplication and
masking go element by element, by the induction of *Rendering* below. `MaskExact` is the loop
invariant of `_mask`: after k replacements from the right the text is its own units up to the last
hit replaced, followed by what writing from the left puts there. It needs hits that
do not overlap, for then each hit lies within the units left alone (`ReplaceInSpan`);
`DedupeKeeps` shows that of deduplicated ones, and `masking` what happens otherwise.

*Rendering.* The properties are about what folds over a list compute, so the proof is by
induction over data. `Induction` gets it from the pigeonhole principle, since a set that
has 0 and all successors but misses some n would inject one of its finite parts into a smaller
one. With it a sum does not depend on the order of its terms (`CostAdds`), `Arranged` sorts by any strict
order (`ArrangedSorts`), the one of a store's rows and the compressor's last sort among them (`StoreLists`, `LastSortOrders`),
and the compressor's fold goes element by element (`KeptToSteps`). `Loop` is then
the loop invariant of `compress`: after k memories the pinned ones are kept, the cost is
within the budget or what those cost, and each memory passed over does not fit beside the pinned
ones and those kept that are no worse. `CompressKeeps` is what it says at the end. `RenderInv` ties
the state to these functions: what was listed is a ranked list of part of the catalog, as the
cache is, which is that very list until it is dropped; what was shown is what the compressor
makes of it; the text is the channel's or the envelopes
of that; the hits are those of a read after the draft, which works on the same list unless the cache was dropped. The rest are the lemmas on channels
(`FirstOfBest`, `MostSalientFirst`, `FirstOfTypesBest`) and on the trace (`LongestPhrase`,
`TraceKeeps`).

*Pool.* `TypeInv` bounds the depth of a call by the chain of its method.
`HeldIs` turns the set of held connections into a sum: `Size` gives how many a
call in its state holds, `SizeStep` how a step changes that, and `HeldMore` the
cardinality of the set when one call's share changes by one, so that idle, held and
leaked always add up to the pool. In a wedge every call waits for a connection, so that it holds
one fewer than its depth: two at most for a find, one for a `get_customer`, none for
the rest (`HoardersWedge`). `FindInv` follows a find through its three statements: the
row it read is still there, since rows are only added (`RowsStay`), and the list
it reads last contains its identifier.

*Platform.* `StoreInv` adds to `IndexesAgree` that ids in use, those of sessions included, were drawn
(`InUseIssued`), so that a fresh one is nobody's; that a process that resolves its secret has no key
but the dev tenant's, and that a dashboard has a server behind it (`Started`), so that nobody can
register the dev tenant's address again; and that the dev tenant has no session and the server's key is its own
and in force (`DevServed`). `RevocationHolds` follows for each step from the indexes: a
key that a session disables is listed by the session's tenant, hence resolves to it. `LimiterInv`
says that the deque is exactly the end of what was passed, and that what was
popped is too old to count; what was passed is sorted, since time does not go
back. A request is passed with fewer than `Rpm` times left in the deque, so that the
one `Rpm` before it was popped and is older than the window.

Frame lemmas (`StepFrame`, `CallFrame`, `StepRows`, `WriteKeepsLedger`,
`OthersKeepLedger`, `QuietStores`) say once which step of the memory service may
change which variable, and carry the case analysis over its 35 actions. `StepSetsCall`
does so for the pool, and `BeginFrame`, `CallFrame`, `MergeActs` and `OperatorActs` for the resolver.

Only model-checked:

- `RequestsReturn` and `Served`: liveness under fairness, which the prover has no rules for;
  it rests on `ENABLED` of each request's steps.
- `stale_read`, `forget_postgres`, `masking`: runs with a counterexample.

## Plan

Done: the memory service with its stores, workers, crashes and life cycle; the
identity resolver and merge worker; intake and rendering; the connection pool; the
platform; a theorem on every safety property that a run checks. Left: `verify_chain` per
tenant, as a module over `ledger` with its hashes.

## Not modelled

Text (what the regular expressions match, similarity, wording of prompts), hashing
and signatures, embedding vectors and their ranking: the models have their outcome
as constants or open choices. The ledger's hash chain and `verify_chain`, which
change nothing. Receipts: a hash and a signature of their own fields. MCP resources
and registries, what HTTP routes do past key and limiter, the commands other than `serve` and the evaluation
scripts: stateless, or entry points to the operations above. The hybrid encoder, an optional install
that only picks another type. Candidate links and fuzzy matching:
recorded, and decided on by people outside the code. `check_match`,
`export_customer_data`: read only. `Tenant.disabled`: no code sets it.
