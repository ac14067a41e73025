--------------------------- MODULE MemoryLifecycle ---------------------------
(***************************************************************************)
(* What the memory service promises of one memory at a time, whatever its  *)
(* tasks, calls and failures are: the ledger promises it before it is      *)
(* stored, it is stored at most once, a row that is retired never becomes  *)
(* active again, forgetting a customer erases every row of the customer in *)
(* one step, and what is erased stays erased.  The ledger only grows, and  *)
(* each promise is made under a version the customer's clock has reached.  *)
(***************************************************************************)
EXTENDS Naturals

CONSTANTS Customers, MemoryIds, Nobody

VARIABLES
  state,   \* where each memory is in its life
  owner,   \* the customer each memory is promised to, Nobody before
  clock    \* each customer's version

lifecycle == <<state, owner, clock>>

States == {"unborn", "promised", "active", "retired", "erased"}

LifecycleTypeOK ==
  /\ state \in [MemoryIds -> States]
  /\ owner \in [MemoryIds -> Customers \cup {Nobody}]
  /\ clock \in [Customers -> Nat]

Init ==
  /\ state = [m \in MemoryIds |-> "unborn"]
  /\ owner = [m \in MemoryIds |-> Nobody]
  /\ clock = [c \in Customers |-> 0]

In(stage) == {m \in MemoryIds : state[m] = stage}

Tick(c) ==
  /\ clock' = [clock EXCEPT ![c] = @ + 1]
  /\ UNCHANGED <<state, owner>>

\* One ledger entry promises the memories of one write.
Promise(c, S) ==
  /\ S # {} /\ clock[c] > 0
  /\ S \subseteq In("unborn")
  /\ state' = [m \in MemoryIds |-> IF m \in S THEN "promised" ELSE state[m]]
  /\ owner' = [m \in MemoryIds |-> IF m \in S THEN c ELSE owner[m]]
  /\ UNCHANGED clock

Store(m) ==
  /\ state[m] = "promised"
  /\ state' = [state EXCEPT ![m] = "active"]
  /\ UNCHANGED <<owner, clock>>

\* One at a time when superseded or expired, several in a pass of compaction.
Retire(S) ==
  /\ S # {}
  /\ S \subseteq In("active")
  /\ state' = [m \in MemoryIds |-> IF m \in S THEN "retired" ELSE state[m]]
  /\ UNCHANGED <<owner, clock>>

Stored(c) == {m \in MemoryIds : owner[m] = c /\ state[m] \in {"active", "retired"}}

Forget(c) ==
  /\ state' = [m \in MemoryIds |-> IF m \in Stored(c) THEN "erased" ELSE state[m]]
  /\ UNCHANGED <<owner, clock>>

Next ==
  \/ \E c \in Customers : Tick(c) \/ Forget(c)
  \/ \E c \in Customers, S \in SUBSET In("unborn") : Promise(c, S)
  \/ \E S \in SUBSET In("active") : Retire(S)
  \/ \E m \in MemoryIds : Store(m)

Spec == Init /\ [][Next]_lifecycle
==============================================================================
