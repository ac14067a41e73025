--------------------------- MODULE PlatformProofs ---------------------------
(***************************************************************************)
(* Proofs about Platform, for any tenants, keys, limits and time: the      *)
(* indexes of the tenant store agree, a server serves the dev tenant of    *)
(* its own process with a key that stays good, revocation holds, and the   *)
(* rate limiter passes no more than its rate and refuses nothing that it   *)
(* need not.                                                               *)
(***************************************************************************)
EXTENDS Platform, FiniteSetTheorems, TLAPS

-----------------------------------------------------------------------------
(* The tenant store.                                                       *)

StoreTypes ==
  /\ now \in Int /\ restarts \in Int
  /\ phase \in {"bootstrap", "resolve", "up", "down"}
  /\ env \in [dev : BOOLEAN, secret : Keys \cup {Nil}, jwt : JwtKeys \cup {Nil}]
  /\ by_email \in [Emails -> Tenants \cup {Nil}]
  /\ by_id \in [Tenants -> Emails \cup {Nil}]
  /\ api_keys \in [Tenants -> SUBSET Keys]
  /\ by_key_id \in [Keys -> Tenants \cup {Nil}]
  /\ disabled \subseteq Keys
  /\ sessions \subseteq [sub : Tenants, iat : Int, signed : JwtKeys]
  /\ server \in [key : Keys, tenant : Tenants] \cup {Nil}

\* An id that is in use has been drawn, and is not drawn again.
InUseIssued ==
  /\ \A t \in Tenants : by_id[t] # Nil => t \in issued
  /\ \A k \in Keys : by_key_id[k] # Nil => k \in issued
  /\ \A s \in sessions : s.sub \in issued

\* A process begins with nothing in its store, and resolves its secret among the
\* dev tenant's keys; the dashboard of one that is up is behind a server.
Started ==
  /\ phase = "bootstrap" => by_email = [e \in Emails |-> Nil] /\ by_key_id = [k \in Keys |-> Nil]
  /\ phase \in {"bootstrap", "resolve"} => disabled = {} /\ server = Nil
  /\ phase = "resolve" => \A k \in Keys : by_key_id[k] # Nil => by_key_id[k] = by_email[DevEmail]
  /\ phase = "up" /\ process = "http" => server # Nil

\* The dev tenant has no session, and the server's key is its own and in force.
DevServed ==
  /\ by_email[DevEmail] # Nil => \A s \in sessions : s.sub # by_email[DevEmail]
  /\ server # Nil =>
       /\ server.tenant = by_email[DevEmail] /\ by_key_id[server.key] = server.tenant
       /\ server.key \notin disabled

StoreInv == StoreTypes /\ InUseIssued /\ IndexesAgree /\ Started /\ DevServed

LEMMA StoreInit == Init => StoreInv
  BY PlatformAssumption DEF Init, FirstPhase, Environments, StoreInv, StoreTypes, InUseIssued,
    IndexesAgree, Started, DevServed

\* What the invariant is about but the clock.
indexes == <<process, phase, env, store, sessions, server, issued>>

\* A step that leaves the store, its sessions and the server alone keeps the invariant.
LEMMA StoreStays ==
  ASSUME StoreInv, UNCHANGED indexes, now' \in Int, restarts' \in Int
  PROVE  StoreInv'
  BY DEF indexes, store, StoreInv, StoreTypes, InUseIssued, IndexesAgree, Started, DevServed

LEMMA BootstrapKeeps ==
  ASSUME StoreInv, Bootstrap, UNCHANGED process
  PROVE  StoreInv'
<1> USE DEF StoreInv, StoreTypes
<1>1. /\ phase = "bootstrap" /\ phase' = "resolve"
      /\ UNCHANGED <<disabled, sessions, server, now, restarts>>
  BY DEF Bootstrap, store
<1>2. /\ by_email = [e \in Emails |-> Nil] /\ by_key_id = [k \in Keys |-> Nil]
      /\ disabled = {} /\ server = Nil
  BY <1>1 DEF Started
<1>3. CASE UNCHANGED <<store, env, issued>>
  <2>1. InUseIssued' /\ IndexesAgree' /\ StoreTypes'
    BY <1>1, <1>3 DEF store, InUseIssued, IndexesAgree
  <2>2. Started'
    BY <1>1, <1>2, <1>3 DEF store, Started
  <2>3. DevServed'
    BY <1>1, <1>2, <1>3 DEF store, DevServed
  <2> QED
    BY <2>1, <2>2, <2>3
<1>4. ASSUME NEW t \in Tenants \ issued, NEW k \in Keys \ issued,
             by_email' = [by_email EXCEPT ![DevEmail] = t],
             by_id' = [by_id EXCEPT ![t] = DevEmail],
             api_keys' = [api_keys EXCEPT ![t] = @ \cup {k}],
             by_key_id' = [by_key_id EXCEPT ![k] = t],
             env' = [env EXCEPT !.secret = k],
             issued' = issued \cup {t, k}
      PROVE  StoreInv'
  <2>1. DevEmail \in Emails /\ Nil \notin Tenants /\ Nil \notin Emails
    BY PlatformAssumption
  <2>2. by_id[t] = Nil /\ \A u \in Tenants : api_keys[u] = {}
    <3>1. by_id[t] = Nil
      BY DEF InUseIssued
    <3>2. \A u \in Tenants, j \in Keys : j \notin api_keys[u]
      BY <1>2, <2>1 DEF IndexesAgree
    <3> QED
      BY <3>1, <3>2
  <2>3. StoreTypes'
    BY <1>1, <1>4, <2>1
  <2>4. InUseIssued'
    BY <1>1, <1>4, <2>1 DEF InUseIssued
  <2>5. IndexesAgree'
    <3>1. \A f \in Emails, u \in Tenants : by_email'[f] = u <=> by_id'[u] = f
      BY <1>2, <1>4, <2>1, <2>2 DEF IndexesAgree
    <3>2. \A j \in Keys, u \in Tenants : by_key_id'[j] = u <=> j \in api_keys'[u]
      BY <1>2, <1>4, <2>1, <2>2
    <3>3. \A j \in Keys : by_key_id'[j] # Nil => by_id'[by_key_id'[j]] # Nil
      BY <1>2, <1>4, <2>1
    <3> QED
      BY <3>1, <3>2, <3>3 DEF IndexesAgree
  <2>6. Started'
    BY <1>1, <1>2, <1>4, <2>1 DEF Started
  <2>7. DevServed'
    BY <1>1, <1>2, <1>4, <2>1 DEF DevServed, InUseIssued
  <2> QED
    BY <2>3, <2>4, <2>5, <2>6, <2>7
<1> QED
  BY <1>3, <1>4 DEF Bootstrap

LEMMA ResolveKeeps ==
  ASSUME StoreInv, ResolveTenant, UNCHANGED process
  PROVE  StoreInv'
<1> USE DEF StoreInv, StoreTypes
<1>1. phase = "resolve" /\ UNCHANGED <<env, store, sessions, now, restarts, issued>>
  BY DEF ResolveTenant
<1>2. InUseIssued' /\ IndexesAgree'
  BY <1>1 DEF store, InUseIssued, IndexesAgree
<1>3. CASE phase' = "down" /\ UNCHANGED server
  <2>1. StoreTypes' /\ Started' /\ DevServed'
    BY <1>1, <1>3 DEF store, Started, DevServed
  <2> QED
    BY <1>2, <2>1
<1>4. CASE /\ Resolves(env.secret) /\ phase' = "up"
           /\ server' = [key |-> env.secret, tenant |-> by_key_id[env.secret]]
  <2> DEFINE k == env.secret
  <2>1. k \in Keys /\ by_key_id[k] \in Tenants
    BY <1>4 DEF Resolves
  <2>2. server'.key = k /\ server'.tenant = by_key_id[k] /\ server' \in [key : Keys, tenant : Tenants]
    BY <1>4, <2>1
  <2>3. server' # Nil
    BY <2>2, PlatformAssumption
  <2>4. by_key_id[k] = by_email[DevEmail] /\ disabled = {}
    BY <1>1, <1>4, <2>1 DEF Started, Resolves
  <2>5. StoreTypes'
    BY <1>1, <1>4, <2>2 DEF store
  <2>6. Started'
    BY <1>1, <1>4, <2>3 DEF store, Started
  <2>7. DevServed'
    BY <1>1, <2>2, <2>4 DEF store, DevServed
  <2> QED
    BY <1>2, <2>5, <2>6, <2>7
<1> QED
  BY <1>3, <1>4 DEF ResolveTenant

LEMMA RegisterKeeps ==
  ASSUME StoreInv, NEW e \in Emails, Register(e), process = "http", phase = "up",
         UNCHANGED <<process, phase, env, server, limiter, now, restarts>>
  PROVE  StoreInv'
<1> USE DEF StoreInv, StoreTypes
<1>1. PICK t \in Tenants \ issued :
        /\ by_email' = [by_email EXCEPT ![Lower[e]] = t]
        /\ by_id' = [by_id EXCEPT ![t] = Lower[e]]
        /\ issued' = issued \cup {t}
        /\ sessions' = sessions \cup NewSessions(t)
  BY DEF Register
<1>2. by_email[Lower[e]] = Nil /\ UNCHANGED <<api_keys, by_key_id, disabled>>
  BY DEF Register
<1>3. /\ Lower[e] \in Emails /\ DevEmail \in Emails
      /\ Nil \notin Tenants /\ Nil \notin Emails /\ Nil \notin JwtKeys
  BY PlatformAssumption
<1>4. \A s \in NewSessions(t) : s \in [sub : Tenants, iat : Int, signed : JwtKeys] /\ s.sub = t
  <2>1. env.jwt # Nil => env.jwt \in JwtKeys
    OBVIOUS
  <2> QED
    BY <2>1 DEF NewSessions, Session
<1>5. by_id[t] = Nil
  BY <1>1 DEF InUseIssued
<1>6. StoreTypes'
  BY <1>1, <1>2, <1>3, <1>4
<1>7. InUseIssued'
  BY <1>1, <1>2, <1>3, <1>4 DEF InUseIssued
<1>8. IndexesAgree'
  <2>1. \A f \in Emails, u \in Tenants : by_email'[f] = u <=> by_id'[u] = f
    BY <1>1, <1>2, <1>3, <1>5 DEF IndexesAgree
  <2>2. \A k \in Keys : by_key_id[k] # Nil => by_id'[by_key_id[k]] # Nil
    BY <1>1, <1>3 DEF IndexesAgree
  <2>3. \A k \in Keys, u \in Tenants : by_key_id'[k] = u <=> k \in api_keys'[u]
    BY <1>2 DEF IndexesAgree
  <2> QED
    BY <1>2, <2>1, <2>2, <2>3 DEF IndexesAgree
<1>9. by_email[DevEmail] # Nil /\ by_email'[DevEmail] = by_email[DevEmail] /\ by_email[DevEmail] # t
  <2>1. by_email[DevEmail] # Nil
    BY <1>3 DEF Started, DevServed
  <2>2. Lower[e] # DevEmail
    BY <1>2, <2>1
  <2>3. by_id[by_email[DevEmail]] # Nil
    BY <1>3, <2>1 DEF IndexesAgree
  <2> QED
    BY <1>1, <1>3, <1>5, <2>1, <2>2, <2>3
<1>10. Started'
  BY <1>2, <1>9 DEF Started
<1>11. DevServed'
  BY <1>1, <1>2, <1>4, <1>9 DEF DevServed
<1> QED
  BY <1>6, <1>7, <1>8, <1>10, <1>11

LEMMA LoginKeeps ==
  ASSUME StoreInv, NEW e \in Emails, Login(e), process = "http", phase = "up",
         UNCHANGED <<process, phase, env, server, limiter, now, restarts>>
  PROVE  StoreInv'
<1> USE DEF StoreInv, StoreTypes
<1> DEFINE t == by_email[Lower[e]]
<1>1. /\ t # Nil /\ Lower[e] # DevEmail /\ UNCHANGED <<store, issued>>
      /\ sessions' = sessions \cup NewSessions(t)
  BY DEF Login
<1>2. Lower[e] \in Emails /\ DevEmail \in Emails /\ t \in Tenants /\ Nil \notin Emails
  BY <1>1, PlatformAssumption
<1>3. by_id[t] = Lower[e] /\ t # by_email[DevEmail] /\ t \in issued
  <2>1. by_id[t] = Lower[e]
    BY <1>2 DEF IndexesAgree
  <2>2. t \in issued
    BY <1>2, <2>1 DEF InUseIssued
  <2>3. t # by_email[DevEmail]
    BY <1>1, <1>2, <2>1 DEF IndexesAgree
  <2> QED
    BY <2>1, <2>2, <2>3
<1> HIDE DEF t
<1>4. \A s \in NewSessions(t) : s \in [sub : Tenants, iat : Int, signed : JwtKeys] /\ s.sub = t
  <2>1. env.jwt # Nil => env.jwt \in JwtKeys
    OBVIOUS
  <2> QED
    BY <1>2, <2>1 DEF NewSessions, Session
<1>5. StoreTypes'
  BY <1>1, <1>4 DEF store
<1>6. InUseIssued' /\ IndexesAgree'
  BY <1>1, <1>3, <1>4 DEF store, InUseIssued, IndexesAgree
<1>7. Started'
  BY <1>1 DEF store, Started
<1>8. DevServed'
  BY <1>1, <1>3, <1>4 DEF store, DevServed
<1> QED
  BY <1>5, <1>6, <1>7, <1>8

LEMMA AddKeyKeeps ==
  ASSUME StoreInv, NEW s \in sessions, AddKey(s), process = "http", phase = "up",
         UNCHANGED <<process, phase, env, server, limiter, now, restarts>>
  PROVE  StoreInv'
<1> USE DEF StoreInv, StoreTypes
<1>1. PICK k \in Keys \ issued :
        /\ api_keys' = [api_keys EXCEPT ![s.sub] = @ \cup {k}]
        /\ by_key_id' = [by_key_id EXCEPT ![k] = s.sub]
        /\ issued' = issued \cup {k}
  BY DEF AddKey
<1>2. by_id[s.sub] # Nil /\ UNCHANGED <<by_email, by_id, disabled, sessions>>
  BY DEF AddKey
<1>3. s.sub \in Tenants /\ Nil \notin Tenants
  BY PlatformAssumption
<1>4. by_key_id[k] = Nil /\ \A t \in Tenants : k \notin api_keys[t]
  BY <1>1, PlatformAssumption DEF InUseIssued, IndexesAgree
<1>5. StoreTypes'
  BY <1>1, <1>2, <1>3
<1>6. InUseIssued'
  BY <1>1, <1>2 DEF InUseIssued
<1>7. IndexesAgree'
  <2>1. \A j \in Keys, t \in Tenants : by_key_id'[j] = t <=> j \in api_keys'[t]
    BY <1>1, <1>3, <1>4 DEF IndexesAgree
  <2>2. \A j \in Keys : by_key_id'[j] # Nil => by_id'[by_key_id'[j]] # Nil
    BY <1>1, <1>2, <1>3 DEF IndexesAgree
  <2>3. \A e \in Emails, t \in Tenants : by_email'[e] = t <=> by_id'[t] = e
    BY <1>2 DEF IndexesAgree
  <2> QED
    BY <2>1, <2>2, <2>3 DEF IndexesAgree
<1>8. Started'
  BY <1>2 DEF Started
<1>9. DevServed'
  <2>1. server # Nil => by_key_id'[server.key] = by_key_id[server.key]
    BY <1>1, <1>3, <1>4, PlatformAssumption DEF DevServed
  <2> QED
    BY <1>2, <2>1 DEF DevServed
<1> QED
  BY <1>5, <1>6, <1>7, <1>8, <1>9

LEMMA RevokeKeeps ==
  ASSUME StoreInv, NEW s \in sessions, NEW k \in Keys, RevokeKey(s, k),
         process = "http", phase = "up",
         UNCHANGED <<process, phase, env, server, limiter, now, restarts>>
  PROVE  StoreInv'
<1> USE DEF StoreInv, StoreTypes
<1>1. /\ k \in api_keys[s.sub] /\ disabled' = disabled \cup {k}
      /\ UNCHANGED <<by_email, by_id, api_keys, by_key_id, sessions, issued>>
  BY DEF RevokeKey
<1>2. by_key_id[k] = s.sub /\ s.sub \in Tenants
  BY <1>1 DEF IndexesAgree
<1>3. server # Nil => server.key # k
  BY <1>2, PlatformAssumption DEF DevServed
<1>4. StoreTypes'
  BY <1>1
<1>5. InUseIssued' /\ IndexesAgree'
  BY <1>1 DEF InUseIssued, IndexesAgree
<1>6. Started'
  BY <1>1 DEF Started
<1>7. DevServed'
  BY <1>1, <1>3 DEF DevServed
<1> QED
  BY <1>4, <1>5, <1>6, <1>7

LEMMA RestartKeeps ==
  ASSUME StoreInv, Restart, UNCHANGED process
  PROVE  StoreInv'
<1> USE PlatformAssumption DEF Restart, StoreInv
<1>1. StoreTypes'
  BY DEF StoreTypes, FirstPhase, Environments
<1>2. InUseIssued' /\ IndexesAgree'
  BY DEF InUseIssued, IndexesAgree
<1>3. Started' /\ DevServed'
  BY DEF Started, DevServed, FirstPhase
<1> QED
  BY <1>1, <1>2, <1>3

LEMMA StoreNext == StoreInv /\ [Next]_vars => StoreInv'
<1> SUFFICES ASSUME StoreInv, [Next]_vars PROVE StoreInv'
  OBVIOUS
<1>0. now \in Int /\ restarts \in Int
  BY DEF StoreInv, StoreTypes
<1>1. CASE UNCHANGED vars
  BY <1>0, <1>1, StoreStays DEF vars, indexes
<1>2. CASE Next
  <2>1. UNCHANGED process
    BY <1>2 DEF Next
  <2>2. CASE Bootstrap
    BY <2>1, <2>2, BootstrapKeeps
  <2>3. CASE ResolveTenant
    BY <2>1, <2>3, ResolveKeeps
  <2>4. CASE Dashboard
    BY <2>1, <2>4, RegisterKeeps, LoginKeeps, AddKeyKeeps, RevokeKeeps DEF Dashboard
  <2>5. CASE RestApi
    BY <1>0, <2>1, <2>5, StoreStays DEF RestApi, indexes
  <2>6. CASE Tick
    BY <1>0, <2>1, <2>6, StoreStays DEF Tick, indexes
  <2>7. CASE Restart
    BY <2>1, <2>7, RestartKeeps
  <2> QED
    BY <1>2, <2>2, <2>3, <2>4, <2>5, <2>6, <2>7 DEF Next
<1> QED
  BY <1>1, <1>2

LEMMA StoreHolds == Spec => []StoreInv
  BY StoreInit, StoreNext, PTL DEF Spec

\* The store's three indexes agree, and name no tenant that is not in the store
\* (accounts.py:76-91, 104-111).
THEOREM StoreConsistent == Spec => []IndexesAgree
<1>1. StoreInv => IndexesAgree
  BY DEF StoreInv
<1> QED
  BY <1>1, StoreHolds, PTL

\* A server that runs serves the dev tenant of its own process, with a key that
\* goes on resolving to it and is never disabled (server.py:32-52,
\* bootstrap.py:22-29, accounts.py:104-121).
THEOREM ServersServeDev == Spec => []ServesDevTenant
<1>1. StoreInv => ServesDevTenant
  <2> SUFFICES ASSUME StoreInv, server # Nil
               PROVE  /\ by_id[server.tenant] = DevEmail
                      /\ by_key_id[server.key] = server.tenant /\ server.key \notin disabled
                      /\ \A s \in sessions : s.sub # server.tenant
    BY DEF ServesDevTenant
  <2>1. server.tenant \in Tenants /\ server.tenant = by_email[DevEmail] /\ server.tenant # Nil
    BY PlatformAssumption DEF StoreInv, StoreTypes, DevServed
  <2> QED
    BY <2>1, PlatformAssumption DEF StoreInv, IndexesAgree, DevServed
<1> QED
  BY <1>1, StoreHolds, PTL

\* A step that the property of revocation allows.
Respected ==
  restarts' = restarts =>
    /\ disabled \subseteq disabled'
    /\ phase = "up" =>
         \A k \in Keys : (k \in disabled' \ disabled \/ by_key_id'[k] # by_key_id[k])
                          => InSession(by_key_id'[k])

LEMMA StepRespects == StoreInv /\ [Next]_vars => [Respected]_vars
<1> SUFFICES ASSUME StoreInv, Next PROVE Respected
  OBVIOUS
<1>1. ASSUME UNCHANGED <<by_key_id, disabled>> PROVE Respected
  BY <1>1 DEF Respected
<1>2. ASSUME NEW s \in sessions, AddKey(s) PROVE Respected
  <2>1. PICK k \in Keys : by_key_id' = [by_key_id EXCEPT ![k] = s.sub]
    BY <1>2 DEF AddKey
  <2>2. disabled' = disabled /\ s.signed = env.jwt /\ now <= s.iat + SessionTTL
    BY <1>2 DEF AddKey, Valid
  <2>3. InSession(s.sub)
    BY <2>2 DEF InSession
  <2>4. \A j \in Keys : by_key_id'[j] # by_key_id[j] => by_key_id'[j] = s.sub
    BY <2>1 DEF StoreInv, StoreTypes
  <2> QED
    BY <2>2, <2>3, <2>4 DEF Respected
<1>3. ASSUME NEW s \in sessions, NEW k \in Keys, RevokeKey(s, k) PROVE Respected
  <2>1. /\ disabled' = disabled \cup {k} /\ by_key_id' = by_key_id /\ k \in api_keys[s.sub]
        /\ s.signed = env.jwt /\ now <= s.iat + SessionTTL
    BY <1>3 DEF RevokeKey, Valid
  <2>2. by_key_id[k] = s.sub
    BY <2>1 DEF StoreInv, StoreTypes, IndexesAgree
  <2>3. InSession(s.sub)
    BY <2>1 DEF InSession
  <2> QED
    BY <2>1, <2>2, <2>3 DEF Respected
<1>4. CASE Bootstrap
  <2>1. phase # "up" /\ disabled' = disabled
    BY <1>4 DEF Bootstrap, store
  <2> QED
    BY <2>1 DEF Respected
<1>5. CASE ResolveTenant
  BY <1>1, <1>5 DEF ResolveTenant, store
<1>6. CASE Dashboard
  <2>1. ASSUME NEW e \in Emails, Register(e) \/ Login(e) PROVE Respected
    BY <1>1, <2>1 DEF Register, Login, store
  <2> QED
    BY <1>2, <1>3, <1>6, <2>1 DEF Dashboard
<1>7. CASE RestApi \/ Tick
  BY <1>1, <1>7 DEF RestApi, Tick, store
<1>8. CASE Restart
  <2>1. restarts' # restarts
    BY <1>8 DEF Restart, StoreInv, StoreTypes
  <2> QED
    BY <2>1 DEF Respected
<1> QED
  BY <1>4, <1>5, <1>6, <1>7, <1>8 DEF Next

\* A disabled key stays disabled while the process lives, and keys are added and
\* disabled only in a valid session of the tenant that they resolve to
\* (accounts.py:104-121, 150-166).
THEOREM RevocationsHold == Spec => RevocationHolds
<1>1. StoreInv /\ [Next]_vars => [Respected]_vars
  BY StepRespects
<1>2. [][Respected]_vars => RevocationHolds
  BY DEF Respected, RevocationHolds
<1> QED
  BY <1>1, <1>2, StoreHolds, PTL DEF Spec

-----------------------------------------------------------------------------
(* The rate limiter.                                                       *)

\* The window is the end of what was passed; what came before it is too old to
\* count, and time goes on.
LimiterInv ==
  /\ now \in Int
  /\ window \in Seq(Int) /\ passed \in Seq(Int)
  /\ Len(window) <= Len(passed)
  /\ \A i \in 1 .. Len(window) : window[i] = passed[Len(passed) - Len(window) + i]
  /\ \A i \in 1 .. Len(passed) - Len(window) : passed[i] < now - Window
  /\ \A i \in 1 .. Len(passed) : passed[i] <= now
  /\ \A i, j \in 1 .. Len(passed) : i <= j => passed[i] <= passed[j]

LEMMA LimiterInit == Init => LimiterInv
  BY PlatformAssumption DEF Init, LimiterInv

\* What the loop leaves of the window.
LEMMA PrunedIs ==
  ASSUME LimiterInv, NEW kept \in Pruned
  PROVE  /\ kept \in Seq(Int)
         /\ Len(kept) <= Len(passed)
         /\ \A i \in 1 .. Len(kept) : kept[i] = passed[Len(passed) - Len(kept) + i]
         /\ \A i \in 1 .. Len(passed) - Len(kept) : passed[i] < now - Window
         /\ \A i \in 1 .. Len(kept) : kept[i] >= now - Window
<1> DEFINE n == Len(passed)
           m == Len(window)
<1>1. PICK k \in 0 .. m :
        /\ kept = SubSeq(window, k + 1, m)
        /\ \A i \in 1 .. k : window[i] < now - Window
        /\ k < m => window[k + 1] >= now - Window
  BY DEF Pruned
<1>2. /\ n \in Nat /\ m \in Nat /\ m <= n /\ window \in Seq(Int) /\ now - Window \in Int
      /\ \A i \in 1 .. n : passed[i] \in Int
      /\ \A i \in 1 .. m : window[i] = passed[n - m + i]
      /\ \A i \in 1 .. n - m : passed[i] < now - Window
      /\ \A i, j \in 1 .. n : i <= j => passed[i] <= passed[j]
  BY PlatformAssumption DEF LimiterInv
<1>3. kept \in Seq(Int) /\ Len(kept) = m - k /\ \A i \in 1 .. m - k : kept[i] = window[k + i]
  BY <1>1, <1>2
<1> DEFINE l == Len(kept)
<1> HIDE DEF n, m
<1>4. ASSUME NEW i \in 1 .. l PROVE kept[i] = passed[n - l + i]
  <2>1. k + i \in 1 .. m /\ n - l + i = n - m + (k + i) /\ i \in 1 .. m - k
    BY <1>1, <1>2, <1>3
  <2> HIDE DEF l
  <2>2. window[k + i] = passed[n - m + (k + i)]
    BY <1>2, <2>1
  <2> QED
    BY <1>3, <2>1, <2>2
<1>5. ASSUME NEW i \in 1 .. n - l PROVE passed[i] < now - Window
  <2>1. CASE i <= n - m
    <3>1. i \in 1 .. n - m
      BY <1>2, <1>3, <2>1
    <3> QED
      BY <1>2, <3>1
  <2>2. CASE i > n - m
    <3> DEFINE j == i - (n - m)
    <3>1. j \in 1 .. k /\ j \in 1 .. m /\ n - m + j = i
      BY <1>1, <1>2, <1>3, <2>2
    <3> HIDE DEF j
    <3>2. window[j] = passed[i]
      BY <1>2, <3>1
    <3> QED
      BY <1>1, <3>1, <3>2
  <2> QED
    BY <1>2, <1>3, <2>1, <2>2
<1>6. ASSUME NEW i \in 1 .. l PROVE kept[i] >= now - Window
  <2>1. k < m /\ 1 \in 1 .. l /\ 1 \in 1 .. m - k /\ n - l + 1 \in 1 .. n /\ n - l + i \in 1 .. n
        /\ n - l + 1 <= n - l + i
    BY <1>1, <1>2, <1>3
  <2> HIDE DEF l
  <2>2. kept[1] = window[k + 1] /\ kept[1] = passed[n - l + 1] /\ kept[i] = passed[n - l + i]
    BY <1>3, <1>4, <2>1
  <2>3. passed[n - l + 1] <= passed[n - l + i]
    BY <1>2, <2>1
  <2>4. passed[n - l + 1] \in Int /\ passed[n - l + i] \in Int
    BY <1>2, <2>1
  <2>5. window[k + 1] >= now - Window
    BY <1>1, <2>1
  <2> QED
    BY <1>2, <2>2, <2>3, <2>4, <2>5
<1>7. l <= n
  BY <1>1, <1>2, <1>3
<1> QED
  BY <1>3, <1>4, <1>5, <1>6, <1>7 DEF n

\* A request that is passed is the last of both sequences.
LEMMA AcceptKeeps ==
  ASSUME LimiterInv, RateBounded, Accept, now' = now
  PROVE  LimiterInv' /\ RateBounded'
<1> DEFINE n == Len(passed)
<1>1. PICK kept \in Pruned :
        /\ Len(kept) < Rpm
        /\ window' = Append(kept, now)
        /\ passed' = Append(passed, now)
  BY DEF Accept
<1> DEFINE l == Len(kept)
<1>2. /\ kept \in Seq(Int) /\ l \in Nat /\ l <= n
      /\ \A i \in 1 .. l : kept[i] = passed[n - l + i]
      /\ \A i \in 1 .. n - l : passed[i] < now - Window
  BY PrunedIs
<1>3. /\ now \in Int /\ passed \in Seq(Int) /\ n \in Nat
      /\ \A i \in 1 .. n : passed[i] <= now
      /\ \A i, j \in 1 .. n : i <= j => passed[i] <= passed[j]
      /\ \A i \in 1 .. n : passed[i] \in Int
  BY DEF LimiterInv
<1>4. /\ passed' \in Seq(Int) /\ Len(passed') = n + 1 /\ passed'[n + 1] = now
      /\ \A i \in 1 .. n : passed'[i] = passed[i]
  BY <1>1, <1>3
<1>5. /\ window' \in Seq(Int) /\ Len(window') = l + 1 /\ window'[l + 1] = now
      /\ \A i \in 1 .. l : window'[i] = kept[i]
  BY <1>1, <1>2, <1>3
<1>6. Window \in Nat /\ Rpm \in Nat \ {0} /\ l < Rpm
  BY <1>1, PlatformAssumption
<1> HIDE DEF n, l
<1>7. ASSUME NEW i \in 1 .. l + 1 PROVE window'[i] = passed'[(n + 1) - (l + 1) + i]
  <2>1. CASE i = l + 1
    BY <1>2, <1>3, <1>4, <1>5, <2>1
  <2>2. CASE i \in 1 .. l
    <3>1. n - l + i \in 1 .. n /\ (n + 1) - (l + 1) + i = n - l + i
      BY <1>2, <1>3, <2>2
    <3> QED
      BY <1>2, <1>4, <1>5, <2>2, <3>1
  <2> QED
    BY <1>2, <2>1, <2>2
<1>8. ASSUME NEW i \in 1 .. (n + 1) - (l + 1) PROVE passed'[i] < now - Window
  <2>1. i \in 1 .. n - l /\ i \in 1 .. n
    BY <1>2, <1>3
  <2> QED
    BY <1>2, <1>4, <2>1
<1>9. ASSUME NEW i \in 1 .. n + 1 PROVE passed'[i] <= now
  <2>1. i = n + 1 \/ i \in 1 .. n
    BY <1>3
  <2> QED
    BY <1>3, <1>4, <2>1
<1>10. ASSUME NEW i \in 1 .. n + 1, NEW j \in 1 .. n + 1, i <= j
       PROVE  passed'[i] <= passed'[j]
  <2>1. j = n + 1 \/ (i \in 1 .. n /\ j \in 1 .. n)
    BY <1>3, <1>10
  <2> QED
    BY <1>3, <1>4, <1>9, <1>10, <2>1
<1>11. LimiterInv'
  BY <1>2, <1>3, <1>4, <1>5, <1>7, <1>8, <1>9, <1>10 DEF LimiterInv
<1>12. ASSUME NEW i \in 1 .. n + 1, i + Rpm \in 1 .. n + 1
       PROVE  passed'[i + Rpm] - passed'[i] > Window
  <2>1. CASE i + Rpm = n + 1
    <3>1. i \in 1 .. n - l /\ i \in 1 .. n
      BY <1>2, <1>3, <1>6, <2>1
    <3>2. passed[i] < now - Window /\ passed'[i] = passed[i] /\ passed'[i + Rpm] = now
      BY <1>2, <1>4, <2>1, <3>1
    <3>3. passed[i] \in Int
      BY <1>3, <3>1
    <3> QED
      BY <1>3, <1>6, <3>2, <3>3
  <2>2. CASE i + Rpm \in 1 .. n
    <3>1. i \in 1 .. n
      BY <1>3, <1>6, <2>2
    <3>2. passed[i + Rpm] - passed[i] > Window
      <4>1. DOMAIN passed = 1 .. n
        BY <1>3 DEF n
      <4> QED
        BY <2>2, <3>1, <4>1 DEF RateBounded
    <3> QED
      BY <1>4, <2>2, <3>1, <3>2
  <2> QED
    BY <1>3, <1>6, <1>12, <2>1, <2>2
<1>13. RateBounded'
  <2>1. DOMAIN passed' = 1 .. n + 1
    BY <1>3, <1>4
  <2> QED
    BY <1>12, <2>1 DEF RateBounded
<1> QED
  BY <1>11, <1>13

\* A refusal only prunes the window.
LEMMA RefuseKeeps ==
  ASSUME LimiterInv, RateBounded, Refuse, now' = now
  PROVE  LimiterInv' /\ RateBounded'
<1>1. PICK kept \in Pruned : window' = kept /\ passed' = passed
  BY DEF Refuse
<1>2. RateBounded'
  BY <1>1 DEF RateBounded
<1>3. LimiterInv'
  BY <1>1, PrunedIs DEF LimiterInv
<1> QED
  BY <1>2, <1>3

LEMMA LimiterNext == LimiterInv /\ RateBounded /\ [Next]_vars => LimiterInv' /\ RateBounded'
<1> SUFFICES ASSUME LimiterInv, RateBounded, [Next]_vars PROVE LimiterInv' /\ RateBounded'
  OBVIOUS
<1>1. ASSUME UNCHANGED <<window, passed, now>> PROVE LimiterInv' /\ RateBounded'
  BY <1>1 DEF LimiterInv, RateBounded
<1>2. CASE RestApi
  <2>1. now' = now
    BY <1>2 DEF RestApi
  <2>2. Accept \/ Refuse \/ UNCHANGED <<window, passed>>
    BY <1>2 DEF RestApi, Request, Stats, Open
  <2> QED
    BY <1>1, <2>1, <2>2, AcceptKeeps, RefuseKeeps
<1>3. CASE Tick
  <2>1. now' = now + 1 /\ UNCHANGED <<window, passed>>
    BY <1>3 DEF Tick, limiter
  <2>2. \A i \in 1 .. Len(passed) : passed[i] \in Int
    BY DEF LimiterInv
  <2>3. ASSUME NEW i \in 1 .. Len(passed) - Len(window) PROVE passed[i] < now' - Window
    <3>1. i \in 1 .. Len(passed) /\ passed[i] < now - Window
      BY DEF LimiterInv
    <3> QED
      BY <2>1, <2>2, <3>1, PlatformAssumption DEF LimiterInv
  <2>4. ASSUME NEW i \in 1 .. Len(passed) PROVE passed[i] <= now'
    BY <2>1, <2>2 DEF LimiterInv
  <2>5. LimiterInv'
    BY <2>1, <2>3, <2>4 DEF LimiterInv
  <2> QED
    BY <2>1, <2>5 DEF RateBounded
<1>4. CASE Restart
  <2>1. window' = <<>> /\ passed' = <<>> /\ now' = now
    BY <1>4 DEF Restart
  <2> QED
    BY <2>1, PlatformAssumption DEF LimiterInv, RateBounded
<1>5. CASE UNCHANGED vars
  BY <1>1, <1>5 DEF vars, limiter
<1>6. CASE Bootstrap \/ ResolveTenant \/ Dashboard
  BY <1>1, <1>6 DEF Bootstrap, ResolveTenant, Dashboard, limiter
<1> QED
  BY <1>2, <1>3, <1>4, <1>5, <1>6 DEF Next

LEMMA LimiterHolds == Spec => [](LimiterInv /\ RateBounded)
<1>1. Init => LimiterInv /\ RateBounded
  BY LimiterInit DEF Init, RateBounded
<1>2. LimiterInv /\ RateBounded /\ [Next]_vars => LimiterInv' /\ RateBounded'
  BY LimiterNext
<1> QED
  BY <1>1, <1>2, PTL DEF Spec

\* Any Rpm + 1 passed requests in a row span more than the window
\* (middleware/rate_limit.py:17-26).
THEOREM RateIsBounded == Spec => []RateBounded
  BY LimiterHolds, PTL

\* A refusal for the rate, as the property allows it.
Full ==
  answer' = 429 /\ answer # 429 =>
    Cardinality({i \in DOMAIN passed : passed[i] >= now - Window}) >= Rpm

LEMMA RefusalNeedsFull ==
  ASSUME LimiterInv, Refuse
  PROVE  Cardinality({i \in DOMAIN passed : passed[i] >= now - Window}) >= Rpm
<1> DEFINE n == Len(passed)
           recent == {i \in DOMAIN passed : passed[i] >= now - Window}
<1>1. PICK kept \in Pruned : Len(kept) >= Rpm
  BY DEF Refuse
<1> DEFINE l == Len(kept)
<1>2. /\ kept \in Seq(Int) /\ l \in Nat /\ l <= n
      /\ \A i \in 1 .. l : kept[i] = passed[n - l + i]
      /\ \A i \in 1 .. l : kept[i] >= now - Window
  BY PrunedIs
<1>3. n \in Nat /\ DOMAIN passed = 1 .. n
  BY DEF LimiterInv
<1>4. Rpm \in Nat
  BY PlatformAssumption
<1>5. l >= Rpm
  BY <1>1
<1> HIDE DEF n, l
<1>6. (n - l + 1) .. n \subseteq recent
  <2> SUFFICES ASSUME NEW i \in (n - l + 1) .. n PROVE i \in recent
    OBVIOUS
  <2>1. i - (n - l) \in 1 .. l /\ n - l + (i - (n - l)) = i /\ i \in 1 .. n
    BY <1>2, <1>3
  <2> QED
    BY <1>2, <1>3, <2>1
<1>7. IsFiniteSet(1 .. n) /\ IsFiniteSet((n - l + 1) .. n) /\ Cardinality((n - l + 1) .. n) = l
  <2>1. n - l + 1 \in Int /\ n \in Int /\ 1 \in Int
    BY <1>2, <1>3
  <2>2. Cardinality((n - l + 1) .. n) = IF n - l + 1 > n THEN 0 ELSE n - (n - l + 1) + 1
    BY <2>1, FS_Interval, Zenon
  <2>3. IsFiniteSet(1 .. n) /\ IsFiniteSet((n - l + 1) .. n)
    BY <2>1, FS_Interval, Zenon
  <2> QED
    BY <1>2, <1>3, <2>2, <2>3
<1>8. IsFiniteSet(recent)
  <2>1. recent \subseteq 1 .. n
    BY <1>3
  <2> HIDE DEF recent
  <2> QED
    BY <1>7, <2>1, FS_Subset
<1>9. Cardinality((n - l + 1) .. n) <= Cardinality(recent) /\ Cardinality(recent) \in Nat
  <2> HIDE DEF recent
  <2> QED
    BY <1>6, <1>8, FS_Subset, FS_CardinalityType
<1> HIDE DEF recent
<1>10. Cardinality(recent) >= Rpm
  BY <1>2, <1>4, <1>5, <1>7, <1>9
<1> QED
  BY <1>10 DEF recent

LEMMA StepFull == LimiterInv /\ [Next]_vars => [Full]_vars
<1> SUFFICES ASSUME LimiterInv, Next, answer' = 429, answer # 429
             PROVE  Cardinality({i \in DOMAIN passed : passed[i] >= now - Window}) >= Rpm
  BY DEF Full
<1>1. answer' # answer
  OBVIOUS
<1>2. CASE RestApi
  <2>1. Accept \/ Refuse \/ answer' \in {200, 401, 403}
    BY <1>2 DEF RestApi, Request, Stats, Open, Refusal
  <2> QED
    BY <2>1, RefusalNeedsFull DEF Accept
<1>3. RestApi
  BY <1>1 DEF Next, Bootstrap, ResolveTenant, Dashboard, Tick, Restart, limiter
<1> QED
  BY <1>2, <1>3

\* A request is refused for the rate only when Rpm requests were passed within
\* the window (middleware/rate_limit.py:17-26).
THEOREM RefusalsNeeded == Spec => RefusedOnlyWhenFull
<1>1. LimiterInv /\ [Next]_vars => [Full]_vars
  BY StepFull
<1>2. [][Full]_vars => RefusedOnlyWhenFull
  BY DEF Full, RefusedOnlyWhenFull
<1> QED
  BY <1>1, <1>2, LimiterHolds, PTL DEF Spec

-----------------------------------------------------------------------------
(* Types.                                                                  *)

\* The types of the store and of what is made with it, at one value of the clock.
TypeInv == now \in Nat /\ TypeOK

\* What is of a time is of every later time.
LEMMA TimeGrows ==
  ASSUME TypeInv, UNCHANGED <<phase, env, store, sessions, server, limiter, issued>>,
         now' \in Nat, now <= now'
  PROVE  TypeInv'
<1>1. 0 .. now \subseteq 0 .. now'
  BY DEF TypeInv
<1>2. sessions \subseteq [sub : Tenants, iat : 0 .. now', signed : JwtKeys]
  BY <1>1 DEF TypeInv, TypeOK
<1>3. window \in Seq(0 .. now') /\ passed \in Seq(0 .. now')
  BY <1>1 DEF TypeInv, TypeOK
<1> QED
  BY <1>2, <1>3 DEF TypeInv, TypeOK, store, limiter

LEMMA RestType ==
  ASSUME TypeInv, RestApi
  PROVE  TypeInv'
<1>1. UNCHANGED <<phase, env, store, sessions, server, now, restarts, issued>>
  BY DEF RestApi
<1>2. window \in Seq(0 .. now) /\ passed \in Seq(0 .. now) /\ now \in 0 .. now
  BY DEF TypeInv, TypeOK
<1>3. ASSUME NEW kept \in Pruned PROVE kept \in Seq(0 .. now)
  <2> DEFINE Times == 0 .. now
             m == Len(window)
  <2>1. PICK k \in 0 .. m : kept = SubSeq(window, k + 1, m)
    BY DEF Pruned
  <2>2. window \in Seq(Times)
    BY <1>2
  <2> HIDE DEF Times
  <2>3. m \in Nat /\ k + 1 \in 1 .. m + 1 /\ \A i \in 1 .. m : window[i] \in Times
    BY <2>2
  <2> HIDE DEF m
  <2>4. kept \in Seq(Times)
    BY <2>1, <2>2, <2>3
  <2> QED
    BY <2>4 DEF Times
<1>4. /\ window' \in Seq(0 .. now) /\ passed' \in Seq(0 .. now)
      /\ answer' \in {0, 200, 401, 403, 429}
  <2>1. CASE Accept
    BY <1>2, <1>3, <2>1 DEF Accept
  <2>2. CASE Refuse
    BY <1>2, <1>3, <2>2 DEF Refuse
  <2>3. CASE answer' \in {200, 401, 403} /\ UNCHANGED <<window, passed>>
    BY <1>2, <2>3
  <2>4. Accept \/ Refuse \/ (answer' \in {200, 401, 403} /\ UNCHANGED <<window, passed>>)
    BY DEF RestApi, Request, Stats, Open, Refusal
  <2> QED
    BY <2>1, <2>2, <2>3, <2>4
<1> QED
  BY <1>1, <1>4 DEF TypeInv, TypeOK, store

LEMMA NewSessionsType ==
  ASSUME TypeInv, NEW t \in Tenants
  PROVE  NewSessions(t) \subseteq [sub : Tenants, iat : 0 .. now, signed : JwtKeys]
<1>1. now \in 0 .. now
  BY DEF TypeInv
<1>2. env.jwt # Nil => env.jwt \in JwtKeys
  BY DEF TypeInv, TypeOK
<1> QED
  BY <1>1, <1>2 DEF NewSessions, Session

LEMMA DashboardType ==
  ASSUME TypeInv, Dashboard
  PROVE  TypeInv'
<1> USE DEF TypeInv, TypeOK
<1>0. UNCHANGED <<phase, env, server, limiter, now, restarts>>
  BY DEF Dashboard
<1>1. ASSUME NEW e \in Emails, Register(e) PROVE TypeInv'
  <2>1. PICK t \in Tenants \ issued :
          /\ by_email' = [by_email EXCEPT ![Lower[e]] = t]
          /\ by_id' = [by_id EXCEPT ![t] = Lower[e]]
          /\ issued' = issued \cup {t}
          /\ sessions' = sessions \cup NewSessions(t)
    BY <1>1 DEF Register
  <2>2. UNCHANGED <<api_keys, by_key_id, disabled>>
    BY <1>1 DEF Register
  <2>3. sessions' \subseteq [sub : Tenants, iat : 0 .. now, signed : JwtKeys]
    BY <2>1, NewSessionsType
  <2>4. Lower[e] \in Emails
    BY PlatformAssumption
  <2> QED
    BY <1>0, <2>1, <2>2, <2>3, <2>4 DEF limiter
<1>2. ASSUME NEW e \in Emails, Login(e) PROVE TypeInv'
  <2>1. by_email[Lower[e]] \in Tenants
    BY <1>2, PlatformAssumption DEF Login
  <2>2. sessions' \subseteq [sub : Tenants, iat : 0 .. now, signed : JwtKeys]
    BY <1>2, <2>1, NewSessionsType DEF Login
  <2> QED
    BY <1>0, <1>2, <2>2 DEF Login, store, limiter
<1>3. ASSUME NEW s \in sessions, AddKey(s) PROVE TypeInv'
  <2>1. PICK k \in Keys \ issued :
          /\ api_keys' = [api_keys EXCEPT ![s.sub] = @ \cup {k}]
          /\ by_key_id' = [by_key_id EXCEPT ![k] = s.sub]
          /\ issued' = issued \cup {k}
    BY <1>3 DEF AddKey
  <2>2. UNCHANGED <<by_email, by_id, disabled, sessions>> /\ s.sub \in Tenants
    BY <1>3 DEF AddKey
  <2> QED
    BY <1>0, <2>1, <2>2 DEF limiter
<1>4. ASSUME NEW s \in sessions, NEW k \in Keys, RevokeKey(s, k) PROVE TypeInv'
  BY <1>0, <1>4 DEF RevokeKey, limiter
<1> QED
  BY <1>1, <1>2, <1>3, <1>4 DEF Dashboard

LEMMA StartType ==
  ASSUME TypeInv, Bootstrap \/ ResolveTenant
  PROVE  TypeInv'
<1> USE DEF TypeInv, TypeOK
<1>1. CASE Bootstrap
  <2>1. UNCHANGED <<disabled, sessions, server, limiter, now, restarts>> /\ phase' = "resolve"
    BY <1>1 DEF Bootstrap, store
  <2>2. CASE UNCHANGED <<store, env, issued>>
    BY <2>1, <2>2 DEF store, limiter
  <2>3. ASSUME NEW t \in Tenants, NEW k \in Keys,
               by_email' = [by_email EXCEPT ![DevEmail] = t],
               by_id' = [by_id EXCEPT ![t] = DevEmail],
               api_keys' = [api_keys EXCEPT ![t] = @ \cup {k}],
               by_key_id' = [by_key_id EXCEPT ![k] = t],
               env' = [env EXCEPT !.secret = k],
               issued' = issued \cup {t, k}
        PROVE  TypeInv'
    <3>1. DevEmail \in Emails
      BY PlatformAssumption
    <3>2. /\ by_email' \in [Emails -> Tenants \cup {Nil}] /\ by_id' \in [Tenants -> Emails \cup {Nil}]
          /\ api_keys' \in [Tenants -> SUBSET Keys] /\ by_key_id' \in [Keys -> Tenants \cup {Nil}]
      BY <2>3, <3>1
    <3>3. /\ env' \in [dev : BOOLEAN, secret : Keys \cup {Nil}, jwt : JwtKeys \cup {Nil}]
          /\ issued' \subseteq Tenants \cup Keys
      BY <2>3
    <3> QED
      BY <2>1, <3>2, <3>3 DEF limiter
  <2> QED
    BY <1>1, <2>2, <2>3 DEF Bootstrap
<1>2. CASE ResolveTenant
  <2>1. Resolves(env.secret) =>
          [key |-> env.secret, tenant |-> by_key_id[env.secret]] \in [key : Keys, tenant : Tenants]
    BY DEF Resolves
  <2> QED
    BY <1>2, <2>1 DEF ResolveTenant, store, limiter
<1> QED
  BY <1>1, <1>2

LEMMA PlatformTypeStep == TypeInv /\ [Next]_vars => TypeInv'
<1> SUFFICES ASSUME TypeInv, [Next]_vars PROVE TypeInv'
  OBVIOUS
<1>0. now \in Nat
  BY DEF TypeInv
<1>1. CASE Tick
  BY <1>0, <1>1, TimeGrows DEF Tick
<1>2. CASE Restart
  <2>1. env' \in [dev : BOOLEAN, secret : Keys \cup {Nil}, jwt : JwtKeys \cup {Nil}]
    BY <1>2 DEF Restart, Environments
  <2> QED
    BY <1>0, <1>2, <2>1 DEF Restart, FirstPhase, TypeInv, TypeOK
<1>3. CASE UNCHANGED vars
  BY <1>0, <1>3, TimeGrows DEF vars
<1> QED
  BY <1>1, <1>2, <1>3, RestType, DashboardType, StartType DEF Next

\* Every variable keeps its type, and no token or passed request is of a time to
\* come.
THEOREM PlatformTypes == Spec => []TypeOK
<1>1. Init => TypeInv
  <2> SUFFICES ASSUME Init PROVE TypeInv
    OBVIOUS
  <2>1. env \in [dev : BOOLEAN, secret : Keys \cup {Nil}, jwt : JwtKeys \cup {Nil}]
    BY DEF Init, Environments
  <2> QED
    BY <2>1 DEF Init, FirstPhase, TypeInv, TypeOK
<1>2. TypeInv => TypeOK
  BY DEF TypeInv
<1> QED
  BY <1>1, <1>2, PlatformTypeStep, PTL DEF Spec
=============================================================================
