------------------------------ MODULE Platform ------------------------------
(***************************************************************************)
(* One server process.  `serve mcp` makes a tenant store (saas/), resolves *)
(* the tenant that it serves from the secret in its environment, and, over *)
(* HTTP, mounts the dashboard on that store; over stdio it has none.       *)
(* `serve rest` has no tenant store, but the authentication and the rate   *)
(* limit of the REST API (api/).                                           *)
(*                                                                         *)
(* The tenant store and the limiter live in the memory of the process.     *)
(* Their operations never await, so each is one step; what happens between *)
(* them is time, and restarts.  A raw key is its key_id, Nil if it is      *)
(* malformed or tampered with; a password is right or wrong.               *)
(***************************************************************************)
EXTENDS Integers, Sequences, FiniteSets

CONSTANTS
  Emails,       \* e-mail addresses as clients write them
  Lower,        \* str.lower() of each
  DevEmail,     \* dev@local.test
  Tenants,      \* tenant ids, each fresh when drawn
  Keys,         \* key ids, each fresh when drawn
  JwtKeys,      \* what MEMNEX_JWT_SIGNING_KEY may be set to
  RestKeys,     \* MEMNEX_API_KEYS: the tenant of each key; empty in development
  Headers,      \* what a REST request may carry as X-Memnex-API-Key
  Configured,   \* the tenant that the REST process serves
  Rpm,          \* requests allowed in a window
  Window,       \* its length, 60 s
  SessionTTL,   \* _SESSION_TTL
  MaxTime, MaxRestarts, MaxRequests,   \* bounds of the model: time, restarts of
                \* the process, requests the limiter passes in its life
  Nil           \* Python's None

ASSUME PlatformAssumption ==
  /\ Lower \in [Emails -> Emails]
  /\ \A e \in Emails : Lower[Lower[e]] = Lower[e]
  /\ DevEmail \in Emails /\ Lower[DevEmail] = DevEmail
  /\ DOMAIN RestKeys \subseteq Headers
  /\ Rpm \in Nat \ {0} /\ Window \in Nat \ {0} /\ SessionTTL \in Nat
  /\ MaxTime \in Nat /\ MaxRestarts \in Nat
  /\ Nil \notin Tenants \cup Keys \cup Emails \cup JwtKeys \cup [key : Keys, tenant : Tenants]

VARIABLES
  process,    \* what the process serves: MCP over "stdio" or "http", or "rest"
  phase,      \* how far it has come: "bootstrap", "resolve", "up", or "down"
  env,        \* [dev, secret, jwt]: its environment
  by_email,   \* TenantStore: tenant of each address, Nil: none
  by_id,      \* TenantStore: address of each tenant, Nil: no such tenant
  api_keys,   \* TenantStore: the keys each tenant lists
  by_key_id,  \* TenantStore: tenant of each key, Nil: unknown
  disabled,   \* the keys that are disabled; both indexes share the record
  sessions,   \* the session tokens handed out: [sub, iat, signed]
  server,     \* what the MCP server serves: [key, tenant], Nil: it has not started
  window,     \* RateLimiter: times of the requests in the window
  answer,     \* status of the last REST request, 0 before any
  now,        \* the clock
  restarts,   \* restarts so far
  issued,     \* history: tenant ids and key ids ever drawn
  passed      \* history: times of the requests that this process's limiter passed

store == <<by_email, by_id, api_keys, by_key_id, disabled>>
limiter == <<window, answer, passed>>
vars == <<process, phase, env, store, sessions, server, limiter, now, restarts, issued>>

\* MEMNEX_DEV_KEY, MEMNEX_SECRET_KEY and MEMNEX_JWT_SIGNING_KEY.  In development
\* the secret is overwritten.
Environments ==
  {e \in [dev : BOOLEAN, secret : Keys \cup {Nil}, jwt : JwtKeys \cup {Nil}] :
     e.dev => e.secret = Nil}

FirstPhase == IF process = "rest" THEN "up" ELSE "bootstrap"

-----------------------------------------------------------------------------
(* The start of an MCP process.                                            *)

\* bootstrap_store_from_env: with MEMNEX_DEV_KEY the fresh store has a tenant and
\* a key made in no session, and the key is the process's secret.
Bootstrap ==
  /\ phase = "bootstrap"
  /\ \/ /\ env.dev
        /\ \E t \in Tenants \ issued, k \in Keys \ issued :
             /\ by_email' = [by_email EXCEPT ![DevEmail] = t]
             /\ by_id' = [by_id EXCEPT ![t] = DevEmail]
             /\ api_keys' = [api_keys EXCEPT ![t] = @ \cup {k}]
             /\ by_key_id' = [by_key_id EXCEPT ![k] = t]
             /\ env' = [env EXCEPT !.secret = k]
             /\ issued' = issued \cup {t, k}
        /\ UNCHANGED disabled
     \/ ~env.dev /\ UNCHANGED <<store, env, issued>>
  /\ phase' = "resolve"
  /\ UNCHANGED <<sessions, server, limiter, now, restarts>>

\* _resolve_tenant, once: a secret that does not resolve, or does not verify,
\* stops the process.
Resolves(k) == k # Nil /\ by_key_id[k] # Nil /\ k \notin disabled

ResolveTenant ==
  /\ phase = "resolve"
  /\ \/ /\ Resolves(env.secret)
        /\ server' = [key |-> env.secret, tenant |-> by_key_id[env.secret]]
        /\ phase' = "up"
     \/ ~Resolves(env.secret) /\ phase' = "down" /\ UNCHANGED server
  /\ UNCHANGED <<env, store, sessions, limiter, now, restarts, issued>>

-----------------------------------------------------------------------------
(* The dashboard routes, and what they do to the tenant store.             *)

\* Mutant: the token's times count from its expiry.
SessionFromExpiry(t) == [sub |-> t, iat |-> now + SessionTTL, signed |-> env.jwt]

Session(t) == [sub |-> t, iat |-> now, signed |-> env.jwt]

\* Without a signing key the request fails, and hands out none.
NewSessions(t) == IF env.jwt = Nil THEN {} ELSE {Session(t)}

\* An address that is registered is refused.  The new tenant is stored before the
\* session is made.
Register(e) ==
  /\ by_email[Lower[e]] = Nil
  /\ \E t \in Tenants \ issued :
       /\ by_email' = [by_email EXCEPT ![Lower[e]] = t]
       /\ by_id' = [by_id EXCEPT ![t] = Lower[e]]
       /\ issued' = issued \cup {t}
       /\ sessions' = sessions \cup NewSessions(t)
  /\ UNCHANGED <<api_keys, by_key_id, disabled>>

\* With the right password, which for the dev tenant nobody is told; a wrong one
\* leaves no trace.
Login(e) ==
  /\ by_email[Lower[e]] # Nil
  /\ Lower[e] # DevEmail
  /\ sessions' = sessions \cup NewSessions(by_email[Lower[e]])
  /\ UNCHANGED <<store, issued>>

\* Mutant: a session never expires.
ValidForever(s) == s.signed = env.jwt

\* verify_session_jwt: the token carries its expiry, the store is not asked.
Valid(s) == s.signed = env.jwt /\ now <= s.iat + SessionTTL

\* Mutant: whether the tenant exists is not looked at.
AddKeyUnchecked(s) ==
  /\ Valid(s)
  /\ \E k \in Keys \ issued :
       /\ api_keys' = [api_keys EXCEPT ![s.sub] = @ \cup {k}]
       /\ by_key_id' = [by_key_id EXCEPT ![k] = s.sub]
       /\ issued' = issued \cup {k}
  /\ UNCHANGED <<by_email, by_id, disabled, sessions>>

\* A session may outlive its tenant when the process restarts.
AddKey(s) ==
  /\ Valid(s)
  /\ by_id[s.sub] # Nil
  /\ \E k \in Keys \ issued :
       /\ api_keys' = [api_keys EXCEPT ![s.sub] = @ \cup {k}]
       /\ by_key_id' = [by_key_id EXCEPT ![k] = s.sub]
       /\ issued' = issued \cup {k}
  /\ UNCHANGED <<by_email, by_id, disabled, sessions>>

\* Mutant: the key is looked for among those of every tenant.
RevokeAnyKey(s, k) ==
  /\ Valid(s)
  /\ by_key_id[k] # Nil
  /\ disabled' = disabled \cup {k}
  /\ UNCHANGED <<by_email, by_id, api_keys, by_key_id, sessions, issued>>

\* The key is looked for among the tenant's own; another's is "unknown".
RevokeKey(s, k) ==
  /\ Valid(s)
  /\ by_id[s.sub] # Nil
  /\ k \in api_keys[s.sub]
  /\ disabled' = disabled \cup {k}
  /\ UNCHANGED <<by_email, by_id, api_keys, by_key_id, sessions, issued>>

-----------------------------------------------------------------------------
(* The REST API: require_api_key, then, on most routes, rate_limit.        *)

\* Without keys every request passes as the configured tenant's.
Authorised(h) ==
  \/ RestKeys = <<>>
  \/ h \in DOMAIN RestKeys /\ RestKeys[h] = Configured

Refusal(h) == IF h \in DOMAIN RestKeys THEN 403 ELSE 401

\* Mutant: a request at the edge of the window no longer counts.
PrunedAtEdge ==
  {SubSeq(window, k + 1, Len(window)) :
     k \in {k \in 0 .. Len(window) :
              /\ \A i \in 1 .. k : window[i] <= now - Window
              /\ k < Len(window) => window[k + 1] > now - Window}}

\* What popping from the left leaves of the window, as long as its first time is
\* before now - Window.
Pruned ==
  {SubSeq(window, k + 1, Len(window)) :
     k \in {k \in 0 .. Len(window) :
              /\ \A i \in 1 .. k : window[i] < now - Window
              /\ k < Len(window) => window[k + 1] >= now - Window}}

Accept ==
  \E kept \in Pruned :
    /\ Len(kept) < Rpm
    /\ window' = Append(kept, now)
    /\ passed' = Append(passed, now)
    /\ answer' = 200

\* Mutant: a refused request is recorded in the window.
RefuseCounted ==
  \E kept \in Pruned :
    /\ Len(kept) >= Rpm
    /\ window' = Append(kept, now)
    /\ answer' = 429
    /\ UNCHANGED passed

Refuse ==
  \E kept \in Pruned :
    /\ Len(kept) >= Rpm
    /\ window' = kept
    /\ answer' = 429
    /\ UNCHANGED passed

\* Memories, identities and customers.
Request(h) ==
  /\ Len(passed) < MaxRequests
  /\ \/ Authorised(h) /\ (Accept \/ Refuse)
     \/ ~Authorised(h) /\ answer' = Refusal(h) /\ UNCHANGED <<window, passed>>

\* GET /stats wants a key, and is not limited.
Stats(h) ==
  /\ answer' = IF Authorised(h) THEN 200 ELSE Refusal(h)
  /\ UNCHANGED <<window, passed>>

\* GET /health and /metrics want nothing.
Open ==
  /\ answer' = 200
  /\ UNCHANGED <<window, passed>>

-----------------------------------------------------------------------------
(* Time and restarts.                                                      *)

Tick ==
  /\ now < MaxTime
  /\ now' = now + 1
  /\ UNCHANGED <<phase, env, store, sessions, server, limiter, restarts, issued>>

\* Everything but the sessions, which are tokens in the clients' hands, is gone;
\* the next process may have another environment.
Restart ==
  /\ restarts < MaxRestarts
  /\ restarts' = restarts + 1
  /\ phase' = FirstPhase /\ env' \in Environments
  /\ by_email' = [e \in Emails |-> Nil] /\ by_id' = [t \in Tenants |-> Nil]
  /\ api_keys' = [t \in Tenants |-> {}] /\ by_key_id' = [k \in Keys |-> Nil]
  /\ disabled' = {} /\ server' = Nil
  /\ window' = <<>> /\ passed' = <<>> /\ answer' = 0
  /\ UNCHANGED <<sessions, now, issued>>

Init ==
  /\ process \in {"stdio", "http", "rest"}
  /\ phase = FirstPhase /\ env \in Environments
  /\ by_email = [e \in Emails |-> Nil] /\ by_id = [t \in Tenants |-> Nil]
  /\ api_keys = [t \in Tenants |-> {}] /\ by_key_id = [k \in Keys |-> Nil]
  /\ disabled = {} /\ sessions = {} /\ server = Nil
  /\ window = <<>> /\ answer = 0 /\ passed = <<>>
  /\ now = 0 /\ restarts = 0 /\ issued = {}

\* run_streamable_http: the dashboard is there once the server has its tenant.
Dashboard ==
  /\ process = "http" /\ phase = "up"
  /\ \/ \E e \in Emails : Register(e) \/ Login(e)
     \/ \E s \in sessions : AddKey(s) \/ \E k \in Keys : RevokeKey(s, k)
  /\ UNCHANGED <<phase, env, server, limiter, now, restarts>>

RestApi ==
  /\ process = "rest"
  /\ (\E h \in Headers : Request(h) \/ Stats(h)) \/ Open
  /\ UNCHANGED <<phase, env, store, sessions, server, now, restarts, issued>>

Next ==
  /\ Bootstrap \/ ResolveTenant \/ Dashboard \/ RestApi \/ Tick \/ Restart
  /\ UNCHANGED process

Spec == Init /\ [][Next]_vars

-----------------------------------------------------------------------------
(* Properties.                                                             *)

\* The state is well formed.
TypeOK ==
  /\ phase \in {"bootstrap", "resolve", "up", "down"}
  /\ env \in [dev : BOOLEAN, secret : Keys \cup {Nil}, jwt : JwtKeys \cup {Nil}]
  /\ by_email \in [Emails -> Tenants \cup {Nil}]
  /\ by_id \in [Tenants -> Emails \cup {Nil}]
  /\ api_keys \in [Tenants -> SUBSET Keys]
  /\ by_key_id \in [Keys -> Tenants \cup {Nil}]
  /\ disabled \subseteq Keys
  /\ sessions \subseteq [sub : Tenants, iat : 0..now, signed : JwtKeys]
  /\ server \in [key : Keys, tenant : Tenants] \cup {Nil}
  /\ window \in Seq(0..now) /\ passed \in Seq(0..now)
  /\ answer \in {0, 200, 401, 403, 429}
  /\ issued \subseteq Tenants \cup Keys

\* The store's three indexes agree: addresses and tenants are matched one to
\* one, a key resolves to exactly the tenant that lists it, and that tenant is
\* in the store, whatever sessions of tenants since lost are still about
\* (accounts.py:79-91, 104-111).
IndexesAgree ==
  /\ \A e \in Emails, t \in Tenants : by_email[e] = t <=> by_id[t] = e
  /\ \A k \in Keys, t \in Tenants : by_key_id[k] = t <=> k \in api_keys[t]
  /\ \A k \in Keys : by_key_id[k] # Nil => by_id[by_key_id[k]] # Nil

\* A server that runs serves the dev tenant of its own process: no key of the
\* dashboard, nor of an earlier process, starts one.  The tenant is resolved only
\* once (server.py:32-52, 72), and it stays right to serve it: its key goes on
\* resolving to it and is never disabled, since no session is ever of that
\* tenant (bootstrap.py:22-29, accounts.py:79, 113-121).
ServesDevTenant ==
  server # Nil =>
    /\ by_id[server.tenant] = DevEmail
    /\ by_key_id[server.key] = server.tenant /\ server.key \notin disabled
    /\ \A s \in sessions : s.sub # server.tenant

\* A session of tenant t that this process takes now.
InSession(t) ==
  \E s \in sessions : s.sub = t /\ s.signed = env.jwt /\ now <= s.iat + SessionTTL

\* As long as the process lives, a key that is disabled stays disabled; and once
\* it is up, a key is added or disabled only in a session of the tenant that it
\* resolves to, which is still valid (accounts.py:104-121, 150-166).
RevocationHolds ==
  [][restarts' = restarts =>
       /\ disabled \subseteq disabled'
       /\ phase = "up" =>
            \A k \in Keys : (k \in disabled' \ disabled \/ by_key_id'[k] # by_key_id[k])
                             => InSession(by_key_id'[k])]_vars

\* Of the requests that the limiter passes, any Rpm + 1 in a row span more than
\* the window (rate_limit.py:19-27).  GET /stats, /health and /metrics are not
\* among them: they never come to the limiter (admin.py:12-32).
RateBounded ==
  \A i \in DOMAIN passed :
    i + Rpm \in DOMAIN passed => passed[i + Rpm] - passed[i] > Window

\* A request is refused for the rate only when the limiter passed Rpm requests
\* within the window: neither refused ones nor those to a route without a limit
\* ever count against later ones.
RefusedOnlyWhenFull ==
  [][answer' = 429 /\ answer # 429 =>
       Cardinality({i \in DOMAIN passed : passed[i] >= now - Window}) >= Rpm]_vars

=============================================================================
