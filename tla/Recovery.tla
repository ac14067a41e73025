------------------------------ MODULE Recovery ------------------------------
(***************************************************************************)
(* The memory service of MemoryManager when its process crashes and is     *)
(* started again, and when Redis loses what it holds.                      *)
(***************************************************************************)
EXTENDS MemoryManager

\* A store in process memory is empty when the process starts again.
Survives(remote, store, empty) == IF remote THEN store ELSE empty

NoRows == [m \in MemoryIds |-> Nil]

\* The requests in flight die with the process.  The ledger is a list in its
\* memory, and so is every store that is not remote; what Redis published
\* while nobody subscribed is not sent again.
Crash ==
  /\ pc' = [r \in Requests |-> IF pc[r] \in Returned \cup {"idle"} THEN pc[r] ELSE "failed"]
  /\ loop' = Nil
  /\ ledger' = <<>>
  /\ bus' = {}
  /\ customers' = Survives(Postgres, customers, {})
  /\ memories' = Survives(Postgres, memories, NoRows)
  /\ points' = Survives(Qdrant, points, NoRows)
  /\ hot' = Survives(Redis, hot, [c \in Customers |-> Nil])
  /\ versions' = Survives(Redis, versions, [c \in Customers |-> 0])
  /\ UNCHANGED locals

\* A Redis without persistence restarts: the cache is cold, and the clock of
\* every customer starts from 0.
LoseRedis ==
  /\ Redis /\ loop = Nil
  /\ hot' = [c \in Customers |-> Nil]
  /\ versions' = [c \in Customers |-> 0]
  /\ bus' = {}
  /\ UNCHANGED <<customers, memories, points, ledger, loop, pc, locals>>

RecoverySpec == Init /\ [][Next \/ Crash \/ LoseRedis]_vars

\* The point of a memory is stored before its row, so that every row can be found
\* by a search, whatever the crash of a write cut short; a forget, which removes
\* rows first, removes none on Postgres.
RowsAreSearchable ==
  Postgres /\ Qdrant =>
    \A m \in MemoryIds : memories[m] # Nil => points[m] = memories[m].customer
=============================================================================
