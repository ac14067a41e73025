----------------------------- MODULE Compaction -----------------------------
(***************************************************************************)
(* The compaction worker (workers/compaction.py) beside the memory service *)
(* of MemoryManager.  It finds the customers in the private dictionary of  *)
(* the in-memory store, so that it does nothing on Postgres; there is no   *)
(* await in its pass that suspends, which makes a pass one step.           *)
(***************************************************************************)
EXTENDS MemoryManager

CONSTANTS
  Faded,   \* facts of salience below 0.3
  Near     \* pairs of facts whose words overlap by more than 0.95

ASSUME CompactionAssumption ==
  /\ Near \subseteq Facts \X Facts
  /\ \A f \in Facts : <<f, f>> \in Near
  /\ \A p \in Near : <<p[2], p[1]>> \in Near
  /\ \A f \in Faded, g \in Facts \ Faded : Salience[f] < Salience[g]

\* Mutant: the pass lists the least salient first.
ListedBeforeReversed(m, n, old) ==
  \/ Salience[Text(m)] < Salience[Text(n)]
  \/ Salience[Text(m)] = Salience[Text(n)] /\ (n[1] \in old => m[1] \in old)

\* list_memories: by salience, and the newest first among equals; old are the
\* writes of more than 30 days ago.
ListedBefore(m, n, old) ==
  \/ Salience[Text(m)] > Salience[Text(n)]
  \/ Salience[Text(m)] = Salience[Text(n)] /\ (m[1] \in old => n[1] \in old)

\* The rows of every customer; the list's limit, 500, is never met here.
Listed == UNION {Active(c, Nil) : c \in customers}

\* Each customer's list is gone through by itself.
Duplicate(m, n) ==
  memories[m].customer = memories[n].customer /\ <<Text(m), Text(n)>> \in Near

\* What the loops leave in `seen`, in some order of the lists: no two duplicates,
\* and before every other row one that it duplicates.
Seens(old) ==
  {seen \in SUBSET Listed :
     /\ \A m, n \in seen : Duplicate(m, n) => m = n
     /\ \A m \in Listed \ seen :
          \E n \in seen : Duplicate(m, n) /\ ListedBefore(n, m, old)}

\* Rows that decay are not taken off the list in which duplicates are looked for.
RunOnce ==
  /\ ~Postgres
  /\ loop = Nil
  /\ \E old \in SUBSET {m[1] : m \in Listed} : \E seen \in Seens(old) :
       LET decayed == {m \in Listed : m[1] \in old /\ Text(m) \in Faded}
           retired == decayed \cup (Listed \ seen)
       IN  memories' = [m \in MemoryIds |-> IF m \in retired THEN Superseded(m, m)[m]
                                                             ELSE memories[m]]
  /\ UNCHANGED <<customers, points, hot, versions, ledger, bus, loop, pc, locals>>

CompactingSpec == Init /\ [][Next \/ RunOnce]_vars

\* A pass retires a duplicate of another row or what has faded, and never the last
\* of what the customer said: a fact that has not faded keeps an active row that
\* says as much.  (Of two faded rows the worker may retire both, the old one for its
\* age and the other as a duplicate of it.)
CompactionKeepsFacts ==
  [][UNCHANGED <<pc, locals>> =>
       \A m \in MemoryIds :
         /\ memories[m] # Nil /\ memories[m].active /\ ~memories'[m].active
         /\ Text(m) \notin Faded
         => \E n \in MemoryIds :
              /\ memories'[n] # Nil /\ memories'[n].active
              /\ Duplicate(m, n)]_vars
=============================================================================
