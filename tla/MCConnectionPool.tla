-------------------------- MODULE MCConnectionPool --------------------------
(* Small instances of ConnectionPool.  The calls are alike, but a symmetry of *)
(* them would not be sound for the liveness property that is checked.        *)
EXTENDS ConnectionPool
=============================================================================
