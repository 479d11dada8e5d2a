---------------------------- MODULE MCDocStore -----------------------------
(* Values for the constants of DocStore: two or three requests on two API  *)
(* instances, and compaction, snapshots and the jobs scaled down so that a *)
(* handful of writes reaches them.                                         *)
EXTENDS DocStore, TLC

CONSTANTS u1, u2, u3, p1, p2, p3, i1, i2

\* One request per instance; the third shares the first one's.
MCHome == [p \in Proc |-> IF p = p2 THEN i2 ELSE i1]

UpdatesAlike == Permutations(Update)

AllOps    == OpNames
WriteOps  == {"write"}
JobOps    == {"write", "job"}
LiveOps   == {"write", "read", "rollback", "retain", "crash"}
=============================================================================
