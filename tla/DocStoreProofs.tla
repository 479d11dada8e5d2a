--------------------------- MODULE DocStoreProofs --------------------------
(***************************************************************************)
(* Theorems about DocStore, for every set of updates, requests and         *)
(* instances, every threshold and every bound.                             *)
(***************************************************************************)
EXTENDS DocStore, FiniteSetTheorems, TLAPS

(* The local state of a request is a decoded one except in a manual        *)
(* snapshot, which copies the row as it is.                                *)
LocalsDecoded == \A p \in Proc : st[p] = Bad => pc[p] \in {"mver", "msave"}

TypeInv == TypeOK /\ LocalsDecoded

LEMMA TypeInit == Init => TypeInv
BY DocAssumption DEF Init, TypeInv, TypeOK, LocalsDecoded, State, Points

LEMMA TypeWrite ==
  ASSUME TypeInv, NEW p \in Proc,
         \/ \E d \in State : Submit(p, d)
         \/ ReadMerge(p) \/ Acquire(p) \/ Commit(p) \/ Compact(p) \/ Release(p)
         \/ FailLocked(p)
  PROVE  TypeInv'
<1> USE DocAssumption DEF TypeInv, TypeOK, LocalsDecoded, State, Entry, Snap, Points,
        At, Goto, End, Spend, dbVars, caches, ghosts, locals
<1>1. ASSUME NEW d \in State, Submit(p, d) PROVE TypeInv'
  BY <1>1 DEF Submit
<1>2. CASE ReadMerge(p)
  BY <1>2 DEF ReadMerge, Decoded
<1>3. CASE Acquire(p)
  BY <1>3 DEF Acquire
<1>4. CASE Commit(p)
  <2>1. st[p] \in SUBSET Update /\ delta[p] \in SUBSET Update
    BY <1>4 DEF Commit
  <2>2. version' \in Nat /\ log' \in SUBSET Entry /\ snaps' \in SUBSET Snap
    BY <1>4, <2>1 DEF Commit
  <2>3. content' \in State /\ stored' \in SUBSET State
    BY <1>4, <2>1 DEF Commit, SetContent, Decoded
  <2>4. pc' \in [Proc -> Points] /\ seq' \in [Proc -> Nat]
    BY <1>4 DEF Commit
  <2>5. LocalsDecoded'
    BY <1>4, <2>1 DEF Commit
  <2>6. UNCHANGED <<lock, mem, redis, delta, st, quota, expired>>
    BY <1>4 DEF Commit
  <2> QED BY <2>2, <2>3, <2>4, <2>5, <2>6
<1>5. CASE Compact(p)
  BY <1>5 DEF Compact, Pruned, Without
<1>6. CASE Release(p)
  BY <1>6 DEF Release, ReleaseKey
<1>7. CASE FailLocked(p)
  BY <1>7 DEF FailLocked, ReleaseKey
<1> QED BY <1>1, <1>2, <1>3, <1>4, <1>5, <1>6, <1>7

LEMMA TypeCache ==
  ASSUME TypeInv, NEW p \in Proc,
         \/ DropMem(p) \/ DropRedis(p) \/ SetRedis(p) \/ AskRedis(p)
         \/ FillFromRedis(p) \/ FetchRow(p) \/ KeepRow(p) \/ CallFails(p)
  PROVE  TypeInv'
<1> USE DocAssumption DEF TypeInv, TypeOK, LocalsDecoded, State, Entry, Snap, Points,
        At, Goto, End, SetMem, dbVars, caches, ghosts, locals
<1>1. CASE DropMem(p)
  BY <1>1 DEF DropMem
<1>2. CASE DropRedis(p)
  BY <1>2 DEF DropRedis
<1>3. CASE SetRedis(p)
  BY <1>3 DEF SetRedis
<1>4. CASE AskRedis(p)
  BY <1>4 DEF AskRedis
<1>5. CASE FillFromRedis(p)
  BY <1>5 DEF FillFromRedis
<1>6. CASE FetchRow(p)
  BY <1>6 DEF FetchRow, Decoded
<1>7. CASE KeepRow(p)
  BY <1>7 DEF KeepRow
<1>8. CASE CallFails(p)
  BY SMTT(30), <1>8 DEF CallFails
<1> QED BY <1>1, <1>2, <1>3, <1>4, <1>5, <1>6, <1>7, <1>8

LEMMA TypeSnapshots ==
  ASSUME TypeInv, NEW p \in Proc,
         \/ \E s \in snaps : Rollback(p, s)
         \/ RollbackDropMem(p) \/ RollbackDropRedis(p)
         \/ ManualRead(p) \/ ManualVersion(p) \/ ManualSave(p)
  PROVE  TypeInv'
<1> USE DocAssumption DEF TypeInv, TypeOK, LocalsDecoded, State, Entry, Snap, Points,
        At, Goto, End, SetMem, Spend, dbVars, caches, ghosts, locals
<1>1. ASSUME NEW s \in snaps, Rollback(p, s) PROVE TypeInv'
  BY <1>1 DEF Rollback, SetContent, Decoded
<1>2. CASE RollbackDropMem(p)
  BY <1>2 DEF RollbackDropMem
<1>3. CASE RollbackDropRedis(p)
  BY <1>3 DEF RollbackDropRedis
<1>4. CASE ManualRead(p)
  BY <1>4 DEF ManualRead
<1>5. CASE ManualVersion(p)
  BY <1>5 DEF ManualVersion
<1>6. CASE ManualSave(p)
  <2>1. [seq |-> seq[p], state |-> st[p]] \in Snap
    BY DEF Snap
  <2>2. snaps' \in SUBSET Snap
    <3> HIDE DEF Snap
    <3> QED BY <1>6, <2>1 DEF ManualSave, Snap
  <2> QED BY ZenonT(60), <1>6, <2>2 DEF ManualSave
<1> QED BY <1>1, <1>2, <1>3, <1>4, <1>5, <1>6

LEMMA TypeRebuild ==
  ASSUME TypeInv, NEW p \in Proc,
         \/ JobStart(p) \/ RepairStart(p) \/ RebuildRead(p) \/ JobWrite(p)
         \/ RepairWrite(p) \/ RepairWarm(p) \/ CompactJobRead(p) \/ CompactJobDelete(p)
  PROVE  TypeInv'
<1> USE DocAssumption DEF TypeInv, TypeOK, LocalsDecoded, State, Entry, Snap, Points,
        At, Goto, End, SetMem, Spend, dbVars, caches, ghosts, locals
<1>1. CASE JobStart(p)
  BY <1>1 DEF JobStart
<1>2. CASE RepairStart(p)
  BY <1>2 DEF RepairStart
<1>3. CASE RebuildRead(p)
  <2> DEFINE b == Batch(seq[p])
             joined == st[p] \cup UNION {e.delta : e \in b}
  <2>1. b \subseteq log
    BY DEF Batch
  <2>2. st[p] \in SUBSET Update
    BY <1>3 DEF RebuildRead
  <2>3. joined \in SUBSET Update
    BY <2>1, <2>2
  <2>4. st' = [st EXCEPT ![p] = joined]
    BY <1>3 DEF RebuildRead
  <2>5. st' \in [Proc -> {Bad} \cup State]
    BY <2>3, <2>4
  <2>6. \E n \in 0..version : seq' = [seq EXCEPT ![p] = n]
    BY <1>3 DEF RebuildRead
  <2>7. seq' \in [Proc -> Nat]
    BY <2>6
  <2>8. pc' \in [Proc -> Points] /\ (pc' = pc \/ pc' = [pc EXCEPT ![p] = pc'[p]])
    BY <1>3 DEF RebuildRead
  <2>9. LocalsDecoded'
    <3> HIDE DEF joined
    <3> QED BY ZenonT(60), <2>3, <2>4, <2>8
  <2>10. UNCHANGED <<dbVars, caches, lock, delta, quota, ghosts>>
    BY <1>3 DEF RebuildRead
  <2> HIDE DEF joined
  <2> QED BY <2>5, <2>7, <2>8, <2>9, <2>10
<1>4. CASE JobWrite(p)
  BY <1>4 DEF JobWrite, SetContent, Decoded
<1>5. CASE RepairWrite(p)
  BY <1>5 DEF RepairWrite, SetContent, Decoded
<1>6. CASE RepairWarm(p)
  BY <1>6 DEF RepairWarm
<1>7. CASE CompactJobRead(p)
  BY <1>7 DEF CompactJobRead
<1>8. CASE CompactJobDelete(p)
  BY ZenonT(60), <1>8 DEF CompactJobDelete, Pruned, Without
<1> QED BY <1>1, <1>2, <1>3, <1>4, <1>5, <1>6, <1>7, <1>8

LEMMA TypeEnvironment ==
  ASSUME TypeInv,
         \/ LockExpires \/ RedisExpires \/ Corrupt \/ Retain
         \/ \E i \in Instance : MemExpires(i) \/ Crash(i)
  PROVE  TypeInv'
<1> USE DocAssumption DEF TypeInv, TypeOK, LocalsDecoded, State, Entry, Snap, Points,
        Spend, dbVars, caches, ghosts, locals
<1>1. CASE LockExpires
  BY <1>1 DEF LockExpires
<1>2. CASE RedisExpires
  BY <1>2 DEF RedisExpires
<1>3. CASE Corrupt
  BY <1>3 DEF Corrupt
<1>4. ASSUME NEW i \in Instance, MemExpires(i) PROVE TypeInv'
  BY <1>4 DEF MemExpires
<1>5. ASSUME NEW i \in Instance, Crash(i) PROVE TypeInv'
  BY <1>5 DEF Crash
<1>6. CASE Retain
  <2>1. snaps' \subseteq snaps
    BY <1>6 DEF Retain
  <2> QED BY <1>6, <2>1 DEF Retain
<1> QED BY <1>1, <1>2, <1>3, <1>4, <1>5, <1>6

LEMMA TypeStep == TypeInv /\ [Next]_vars => TypeInv'
<1> SUFFICES ASSUME TypeInv, [Next]_vars PROVE TypeInv'
  OBVIOUS
<1>1. ASSUME NEW p \in Proc, Start(p) PROVE TypeInv'
  <2>1. \A u \in Update : {u} \in State
    BY DEF State
  <2>2. mem[Home[p]] # None => mem[Home[p]] \in State
    BY DocAssumption DEF TypeInv, TypeOK
  <2> QED BY <1>1, <2>1, <2>2, TypeWrite, TypeCache, TypeSnapshots, TypeRebuild DEF Start
<1>2. ASSUME NEW p \in Proc, Continue(p) PROVE TypeInv'
  BY <1>2, TypeWrite, TypeCache, TypeSnapshots, TypeRebuild DEF Continue
<1>3. ASSUME NEW p \in Proc, FailLocked(p) \/ CallFails(p) PROVE TypeInv'
  BY <1>3, TypeWrite, TypeCache
<1>4. CASE UNCHANGED vars
  BY <1>4 DEF TypeInv, TypeOK, LocalsDecoded, vars, dbVars, caches, locals, ghosts
<1> QED BY <1>1, <1>2, <1>3, <1>4, TypeEnvironment DEF Next

(* Every variable keeps its type, and no state but a manual snapshot's     *)
(* local copy can hold undecoded bytes.                                    *)
THEOREM TypeCorrect == Spec => []TypeInv
BY TypeInit, TypeStep, PTL DEF Spec
-----------------------------------------------------------------------------
(* Requests that are not in the critical section of applyYUpdate, and stay *)
(* out of it, change neither the lock nor the record of lapsed locks.      *)
Outside(p) ==
  /\ ~InLock(p) /\ ~InLock(p)'
  /\ \E point \in Points : pc' = [pc EXCEPT ![p] = point]
  /\ UNCHANGED <<lock, expired>>

LEMMA OutsideSteps ==
  ASSUME TypeInv, NEW p \in Proc,
         \/ Start(p) \/ ReadMerge(p)
         \/ DropMem(p) \/ DropRedis(p) \/ SetRedis(p) \/ FillFromRedis(p)
         \/ FetchRow(p) \/ KeepRow(p) \/ CallFails(p)
         \/ RollbackDropMem(p) \/ RollbackDropRedis(p) \/ ManualVersion(p)
         \/ ManualSave(p) \/ RebuildRead(p) \/ JobWrite(p) \/ RepairWrite(p)
         \/ RepairWarm(p) \/ CompactJobDelete(p)
  PROVE  Outside(p)
<1> USE DEF TypeInv, TypeOK, Outside, InLock, Points, At, Goto, End, ghosts, caches
<1>1. CASE Start(p)
  BY <1>1 DEF Start, Submit, AskRedis, ManualRead, JobStart, RepairStart,
              CompactJobRead, Rollback
<1>2. CASE ReadMerge(p) \/ DropMem(p) \/ DropRedis(p) \/ SetRedis(p) \/ FillFromRedis(p)
  BY <1>2 DEF ReadMerge, DropMem, DropRedis, SetRedis, FillFromRedis
<1>3. CASE FetchRow(p) \/ KeepRow(p) \/ CallFails(p) \/ RollbackDropMem(p)
           \/ RollbackDropRedis(p)
  BY <1>3 DEF FetchRow, KeepRow, CallFails, RollbackDropMem, RollbackDropRedis
<1>4. CASE ManualVersion(p) \/ ManualSave(p) \/ RebuildRead(p) \/ JobWrite(p)
  BY <1>4 DEF ManualVersion, ManualSave, RebuildRead, JobWrite
<1>5. CASE RepairWrite(p) \/ RepairWarm(p) \/ CompactJobDelete(p)
  BY <1>5 DEF RepairWrite, RepairWarm, CompactJobDelete
<1> QED BY <1>1, <1>2, <1>3, <1>4, <1>5

LEMMA LockStep == TypeInv /\ LockHeldInside /\ [Next]_vars => LockHeldInside'
<1> SUFFICES ASSUME TypeInv, LockHeldInside, [Next]_vars PROVE LockHeldInside'
  OBVIOUS
<1> USE DocAssumption DEF LockHeldInside, InLock, TypeInv, TypeOK, At, Goto, End
<1>1. ASSUME NEW p \in Proc, Outside(p) PROVE LockHeldInside'
  BY <1>1 DEF Outside
<1>2. ASSUME NEW p \in Proc, Acquire(p) PROVE LockHeldInside'
  BY <1>2 DEF Acquire, ghosts
<1>3. ASSUME NEW p \in Proc, Commit(p) \/ Compact(p) PROVE LockHeldInside'
  BY <1>3 DEF Commit, Compact, ghosts
<1>4. ASSUME NEW p \in Proc, Release(p) \/ FailLocked(p) PROVE LockHeldInside'
  BY <1>4 DEF Release, FailLocked, ReleaseKey
<1>5. CASE LockExpires
  BY <1>5 DEF LockExpires, locals
<1>6. CASE RedisExpires \/ Corrupt \/ Retain \/ \E i \in Instance : MemExpires(i)
  BY <1>6 DEF RedisExpires, Corrupt, Retain, MemExpires, locals, ghosts
<1>7. ASSUME NEW i \in Instance, Crash(i) PROVE LockHeldInside'
  BY <1>7 DEF Crash
<1>8. CASE UNCHANGED vars
  BY <1>8 DEF vars, locals, ghosts
<1>9. ASSUME NEW p \in Proc, Start(p) \/ Continue(p) \/ FailLocked(p) \/ CallFails(p)
      PROVE  LockHeldInside'
  BY <1>9, <1>1, <1>2, <1>3, <1>4, OutsideSteps DEF Continue
<1> QED BY <1>5, <1>6, <1>7, <1>8, <1>9 DEF Next

(* Mutual exclusion of the write path up to lapsed TTLs: the lock of a     *)
(* request inside is its own unless it expired, whoever else released.     *)
THEOREM LockSafe == Spec => []LockHeldInside
<1>1. Init => LockHeldInside
  BY DEF Init, LockHeldInside, InLock
<1> QED BY <1>1, LockStep, TypeCorrect, PTL DEF Spec
-----------------------------------------------------------------------------
(* The strengthening of ServedWasStored: what a request is about to put    *)
(* into a cache or a snapshot has been the content, and what it is about   *)
(* to commit contains its own update.                                      *)
StateInv ==
  /\ ServedWasStored
  /\ {} \in stored
  /\ content \in {None, Bad} \cup stored
  /\ \A p \in Proc :
       /\ pc[p] \in {"compact", "release", "drop", "del", "set", "fill", "keep", "pwarm"}
            => st[p] \in stored
       /\ pc[p] \in {"mver", "msave"} => st[p] = Bad \/ st[p] \in stored
       /\ pc[p] \in {"lock", "commit"} => delta[p] \subseteq st[p]

LEMMA StateStep == TypeInv /\ StateInv /\ [Next]_vars => StateInv'
<1> SUFFICES ASSUME TypeInv, StateInv, [Next]_vars PROVE StateInv'
  OBVIOUS
<1> USE DocAssumption DEF StateInv, ServedWasStored, TypeInv, TypeOK, LocalsDecoded, State,
        Snap, At, Goto, End, SetMem, SetContent, Decoded, dbVars, caches, ghosts
<1>1. ASSUME NEW p \in Proc, NEW d \in State, Submit(p, d) PROVE StateInv'
  BY <1>1 DEF Submit
<1>2. ASSUME NEW p \in Proc, ReadMerge(p) PROVE StateInv'
  BY <1>2 DEF ReadMerge
<1>3. ASSUME NEW p \in Proc, Acquire(p) PROVE StateInv'
  BY <1>3 DEF Acquire
<1>4. ASSUME NEW p \in Proc, Commit(p) PROVE StateInv'
  BY <1>4 DEF Commit
<1>5. ASSUME NEW p \in Proc, Compact(p) \/ Release(p) \/ FailLocked(p) PROVE StateInv'
  BY <1>5 DEF Compact, Release, FailLocked
<1>6. ASSUME NEW p \in Proc, DropMem(p) \/ DropRedis(p) \/ SetRedis(p) PROVE StateInv'
  BY <1>6 DEF DropMem, DropRedis, SetRedis
<1>7. ASSUME NEW p \in Proc, AskRedis(p) \/ FillFromRedis(p) PROVE StateInv'
  BY <1>7 DEF AskRedis, FillFromRedis
<1>8. ASSUME NEW p \in Proc, FetchRow(p) \/ KeepRow(p) \/ CallFails(p) PROVE StateInv'
  <2>1. CASE FetchRow(p)
    <3>1. content # Bad => Decoded(content) \in stored
      OBVIOUS
    <3>2. CASE content = Bad
      BY <2>1, <3>2 DEF FetchRow
    <3>3. CASE content # Bad
      <4>1. /\ pc' = [pc EXCEPT ![p] = "keep"]
            /\ st' = [st EXCEPT ![p] = Decoded(content)]
            /\ UNCHANGED <<delta, content, snaps, mem, redis, stored>>
        BY <2>1, <3>3 DEF FetchRow
      <4> HIDE DEF Decoded
      <4> QED BY <3>1, <3>3, <4>1
    <3> QED BY <3>2, <3>3
  <2>2. CASE KeepRow(p)
    BY <2>2 DEF KeepRow
  <2>3. CASE CallFails(p)
    BY <2>3 DEF CallFails
  <2> QED BY <1>8, <2>1, <2>2, <2>3
<1>9. ASSUME NEW p \in Proc, NEW s \in snaps, Rollback(p, s) PROVE StateInv'
  BY <1>9 DEF Rollback
<1>10. ASSUME NEW p \in Proc, RollbackDropMem(p) \/ RollbackDropRedis(p) PROVE StateInv'
  BY <1>10 DEF RollbackDropMem, RollbackDropRedis
<1>11. ASSUME NEW p \in Proc, ManualRead(p) \/ ManualVersion(p) PROVE StateInv'
  BY <1>11 DEF ManualRead, ManualVersion
<1>12. ASSUME NEW p \in Proc, ManualSave(p) PROVE StateInv'
  BY <1>12 DEF ManualSave
<1>13. ASSUME NEW p \in Proc, JobStart(p) \/ RepairStart(p) \/ RebuildRead(p) PROVE StateInv'
  <2>1. \A q \in Proc : q # p => pc'[q] = pc[q] /\ st'[q] = st[q] /\ delta'[q] = delta[q]
    BY <1>13 DEF JobStart, RepairStart, RebuildRead
  <2>2. pc'[p] \in {"jread", "pread", "jwrite", "pwrite"}
    BY <1>13 DEF JobStart, RepairStart, RebuildRead
  <2>3. UNCHANGED <<content, snaps, mem, redis, stored>>
    BY <1>13 DEF JobStart, RepairStart, RebuildRead
  <2> QED BY <2>1, <2>2, <2>3
<1>14. ASSUME NEW p \in Proc, JobWrite(p) \/ RepairWrite(p) \/ RepairWarm(p) PROVE StateInv'
  BY <1>14 DEF JobWrite, RepairWrite, RepairWarm
<1>15. ASSUME NEW p \in Proc, CompactJobRead(p) \/ CompactJobDelete(p) PROVE StateInv'
  BY <1>15 DEF CompactJobRead, CompactJobDelete
<1>16. CASE LockExpires \/ RedisExpires \/ Corrupt \/ Retain
  <2>1. CASE Retain
    <3>1. snaps' \subseteq snaps
      BY <2>1 DEF Retain
    <3> QED BY <2>1, <3>1 DEF Retain, locals
  <2> QED BY <1>16, <2>1 DEF LockExpires, RedisExpires, Corrupt, locals
<1>17. ASSUME NEW i \in Instance, MemExpires(i) \/ Crash(i) PROVE StateInv'
  BY <1>17 DEF MemExpires, Crash, locals
<1>18. CASE UNCHANGED vars
  BY <1>18 DEF vars, locals
<1>19. ASSUME NEW p \in Proc, Start(p) PROVE StateInv'
  <2>1. \A u \in Update : {u} \in State
    OBVIOUS
  <2>2. mem[Home[p]] # None => mem[Home[p]] \in State
    OBVIOUS
  <2> HIDE DEF StateInv, TypeInv
  <2> QED BY <1>19, <2>1, <2>2, <1>1, <1>7, <1>9, <1>11, <1>13, <1>15 DEF Start
<1>20. ASSUME NEW p \in Proc, Continue(p) PROVE StateInv'
  <2> HIDE DEF StateInv, TypeInv
  <2> QED BY <1>20, <1>2, <1>3, <1>4, <1>5, <1>6, <1>7, <1>8, <1>10, <1>11, <1>12, <1>13,
             <1>14, <1>15 DEF Continue
<1> HIDE DEF StateInv, TypeInv
<1> QED BY <1>5, <1>8, <1>16, <1>17, <1>18, <1>19, <1>20 DEF Next

(* Neither a cache nor a snapshot ever holds a state the document did not  *)
(* have, whatever aborts, crashes, damage and lapsed locks do.             *)
THEOREM ServedSafe == Spec => []ServedWasStored
<1>1. Init => StateInv
  BY DEF Init, StateInv, ServedWasStored
<1>2. StateInv => ServedWasStored
  BY DEF StateInv
<1> QED BY <1>1, <1>2, StateStep, TypeCorrect, PTL DEF Spec
-----------------------------------------------------------------------------
(* The strengthening of VersionsAssignedOnce: a manual snapshot in flight  *)
(* owns the number it took, and the numbers compaction works from are not  *)
(* ahead of the document's.                                                *)
NumbersInFlight ==
  /\ \A p \in Proc : pc[p] \in {"compact", "cdel"} => seq[p] <= version
  /\ \A p \in Proc : pc[p] = "msave" =>
        /\ seq[p] \in 1..version
        /\ \A e \in log : e.seq # seq[p]
        /\ \A s \in snaps : s.seq # seq[p]
  /\ \A p, q \in Proc : pc[p] = "msave" /\ pc[q] = "msave" /\ seq[p] = seq[q] => p = q

VersionInv == VersionsAssignedOnce /\ NumbersInFlight

(* Steps of a request that take no number and log nothing.                 *)
Unnumbered(p) ==
  /\ UNCHANGED <<version, log, snaps>>
  /\ \E point \in Points \ {"compact", "cdel", "msave"} : pc' = [pc EXCEPT ![p] = point]
  /\ \E n \in Nat : seq' = [seq EXCEPT ![p] = n]

LEMMA UnnumberedSteps ==
  ASSUME TypeInv, NEW p \in Proc,
         \/ \E d \in State : Submit(p, d)
         \/ ReadMerge(p) \/ Acquire(p) \/ Release(p) \/ FailLocked(p)
         \/ DropMem(p) \/ DropRedis(p) \/ SetRedis(p) \/ AskRedis(p) \/ FillFromRedis(p)
         \/ FetchRow(p) \/ KeepRow(p) \/ CallFails(p)
         \/ (\E s \in snaps : Rollback(p, s)) \/ RollbackDropMem(p) \/ RollbackDropRedis(p)
         \/ ManualRead(p) \/ JobStart(p) \/ RepairStart(p) \/ JobWrite(p)
         \/ RepairWrite(p) \/ RepairWarm(p) \/ RebuildRead(p)
  PROVE  Unnumbered(p)
<1> USE DEF TypeInv, TypeOK, Unnumbered, Points, At, Goto, End, dbVars
<1>1. ASSUME NEW d \in State, Submit(p, d) PROVE Unnumbered(p)
  BY ZenonT(60), <1>1 DEF Submit
<1>2. CASE ReadMerge(p) \/ Acquire(p) \/ Release(p) \/ FailLocked(p)
  BY <1>2 DEF ReadMerge, Acquire, Release, FailLocked
<1>3. CASE DropMem(p) \/ DropRedis(p) \/ SetRedis(p) \/ AskRedis(p) \/ FillFromRedis(p)
  BY <1>3 DEF DropMem, DropRedis, SetRedis, AskRedis, FillFromRedis
<1>4. CASE FetchRow(p) \/ KeepRow(p) \/ CallFails(p)
  BY <1>4 DEF FetchRow, KeepRow, CallFails
<1>5. ASSUME NEW s \in snaps, Rollback(p, s) PROVE Unnumbered(p)
  BY <1>5 DEF Rollback
<1>6. CASE RollbackDropMem(p) \/ RollbackDropRedis(p) \/ ManualRead(p)
  BY <1>6 DEF RollbackDropMem, RollbackDropRedis, ManualRead
<1>7. CASE JobStart(p) \/ RepairStart(p) \/ JobWrite(p) \/ RepairWrite(p) \/ RepairWarm(p)
  BY <1>7 DEF JobStart, RepairStart, JobWrite, RepairWrite, RepairWarm
<1>8. CASE RebuildRead(p)
  <2>1. \E n \in 0..version : seq' = [seq EXCEPT ![p] = n]
    BY <1>8 DEF RebuildRead
  <2>2. \E point \in {"jread", "pread", "jwrite", "pwrite"} : pc' = [pc EXCEPT ![p] = point]
    BY <1>8 DEF RebuildRead
  <2>3. UNCHANGED <<version, log, snaps>>
    BY <1>8 DEF RebuildRead
  <2>4. \E n \in Nat : seq' = [seq EXCEPT ![p] = n]
    <3>1. PICK n \in 0..version : seq' = [seq EXCEPT ![p] = n]
      BY <2>1
    <3>2. n \in Nat
      OBVIOUS
    <3> QED BY <3>1, <3>2, Zenon
  <2>5. \E point \in Points \ {"compact", "cdel", "msave"} : pc' = [pc EXCEPT ![p] = point]
    <3>1. PICK point \in {"jread", "pread", "jwrite", "pwrite"} : pc' = [pc EXCEPT ![p] = point]
      BY <2>2
    <3>2. point \in Points \ {"compact", "cdel", "msave"}
      OBVIOUS
    <3> QED BY <3>1, <3>2
  <2> QED BY <2>3, <2>4, <2>5
<1> QED BY <1>1, <1>2, <1>3, <1>4, <1>5, <1>6, <1>7, <1>8

LEMMA VersionStep == TypeInv /\ StateInv /\ VersionInv /\ [Next]_vars => VersionInv'
<1> SUFFICES ASSUME TypeInv, StateInv, VersionInv, [Next]_vars PROVE VersionInv'
  OBVIOUS
<1> USE DocAssumption DEF VersionInv, VersionsAssignedOnce, NumbersInFlight, TypeInv,
        TypeOK, Entry, Snap, At, Goto, End
<1>1. ASSUME NEW p \in Proc, Unnumbered(p) PROVE VersionInv'
  BY <1>1 DEF Unnumbered
<1>2. ASSUME NEW p \in Proc, Commit(p) PROVE VersionInv'
  <2>1. st[p] \in State
    BY <1>2 DEF Commit, LocalsDecoded
  <2>2. delta[p] \subseteq st[p] /\ st[p] # Bad
    BY <1>2, <2>1 DEF Commit, StateInv, State
  <2> QED BY <1>2, <2>1, <2>2 DEF Commit
<1>3. ASSUME NEW p \in Proc, Compact(p) PROVE VersionInv'
  BY <1>3 DEF Compact, Pruned, Without
<1>4. ASSUME NEW p \in Proc, ManualVersion(p) PROVE VersionInv'
  BY <1>4 DEF ManualVersion
<1>5. ASSUME NEW p \in Proc, ManualSave(p) PROVE VersionInv'
  BY <1>5 DEF ManualSave
<1>6. ASSUME NEW p \in Proc, CompactJobRead(p) PROVE VersionInv'
  BY <1>6 DEF CompactJobRead, dbVars
<1>7. ASSUME NEW p \in Proc, CompactJobDelete(p) PROVE VersionInv'
  BY <1>7 DEF CompactJobDelete, Pruned, Without
<1>8. CASE LockExpires \/ RedisExpires \/ Corrupt \/ \E i \in Instance : MemExpires(i)
  BY <1>8 DEF LockExpires, RedisExpires, Corrupt, MemExpires, dbVars, locals
<1>9. ASSUME NEW i \in Instance, Crash(i) PROVE VersionInv'
  BY <1>9 DEF Crash, dbVars
<1>10. CASE UNCHANGED vars
  BY <1>10 DEF vars, dbVars, locals
<1>11. ASSUME NEW p \in Proc, Start(p) \/ Continue(p) \/ FailLocked(p) \/ CallFails(p)
       PROVE  VersionInv'
  <2>1. \A u \in Update : {u} \in State
    BY DEF State
  <2>2. mem[Home[p]] # None => mem[Home[p]] \in State
    OBVIOUS
  <2> HIDE DEF VersionInv, TypeInv
  <2> QED BY <1>11, <2>1, <2>2, <1>1, <1>2, <1>3, <1>4, <1>5, <1>6, <1>7, UnnumberedSteps
          DEF Start, Continue
<1>12. CASE Retain
  <2>1. snaps' \subseteq snaps
    BY <1>12 DEF Retain
  <2> QED BY <1>12, <2>1 DEF Retain, locals
<1> HIDE DEF VersionInv, TypeInv
<1> QED BY <1>8, <1>9, <1>10, <1>11, <1>12 DEF Next

(* Versions are handed out once: see VersionsAssignedOnce.                 *)
THEOREM VersionsSafe == Spec => []VersionsAssignedOnce
<1>1. Init => StateInv /\ VersionInv
  BY DEF Init, StateInv, ServedWasStored, VersionInv, VersionsAssignedOnce, NumbersInFlight
<1>2. VersionInv => VersionsAssignedOnce
  BY DEF VersionInv
<1> QED BY <1>1, <1>2, StateStep, VersionStep, TypeCorrect, PTL DEF Spec
-----------------------------------------------------------------------------
LEMMA PrunedIsPrune ==
  ASSUME TypeInv, NEW n \in Nat, n <= version, log' = Pruned(n), UNCHANGED version
  PROVE  [History!LogNext]_<<version, log>>
<1>1. CASE n > Keep
  <2>1. n - Keep \in 0..version /\ (n - Keep) + Keep <= version
    BY <1>1, DocAssumption DEF TypeInv, TypeOK
  <2>2. History!Prune(n - Keep)
    BY <1>1, <2>1 DEF Pruned, Without, History!Prune
  <2> QED BY <2>1, <2>2 DEF History!LogNext
<1>2. CASE ~(n > Keep)
  BY <1>2 DEF Pruned
<1> QED BY <1>1, <1>2

LEMMA HistoryStep ==
  TypeInv /\ VersionInv /\ [Next]_vars => [History!LogNext]_<<version, log>>
<1> SUFFICES ASSUME TypeInv, VersionInv, [Next]_vars
             PROVE  [History!LogNext]_<<version, log>>
  OBVIOUS
<1>1. ASSUME NEW p \in Proc, Unnumbered(p) PROVE UNCHANGED <<version, log>>
  BY <1>1 DEF Unnumbered
<1>2. ASSUME NEW p \in Proc, Commit(p) PROVE [History!LogNext]_<<version, log>>
  <2>1. delta[p] \in SUBSET Update
    BY DEF TypeInv, TypeOK, State
  <2>2. History!Append(delta[p])
    BY <1>2 DEF Commit, History!Append
  <2> QED BY <2>1, <2>2 DEF History!LogNext
<1>3. ASSUME NEW p \in Proc, Compact(p) \/ CompactJobDelete(p)
      PROVE  [History!LogNext]_<<version, log>>
  <2>1. seq[p] \in Nat /\ seq[p] <= version
    BY <1>3 DEF Compact, CompactJobDelete, At, TypeInv, TypeOK, VersionInv, NumbersInFlight
  <2>2. log' = Pruned(seq[p]) /\ UNCHANGED version
    BY <1>3 DEF Compact, CompactJobDelete
  <2> QED BY <2>1, <2>2, PrunedIsPrune
<1>4. ASSUME NEW p \in Proc, ManualVersion(p) PROVE [History!LogNext]_<<version, log>>
  BY <1>4 DEF ManualVersion, History!LogNext, History!Skip
<1>5. ASSUME NEW p \in Proc, ManualSave(p) \/ CompactJobRead(p) PROVE UNCHANGED <<version, log>>
  BY <1>5 DEF ManualSave, CompactJobRead, dbVars
<1>6. CASE LockExpires \/ RedisExpires \/ Corrupt \/ Retain \/ UNCHANGED vars
  BY <1>6 DEF LockExpires, RedisExpires, Corrupt, Retain, dbVars, vars
<1>7. ASSUME NEW i \in Instance, MemExpires(i) \/ Crash(i) PROVE UNCHANGED <<version, log>>
  BY <1>7 DEF MemExpires, Crash, dbVars
<1>8. ASSUME NEW p \in Proc, Start(p) \/ Continue(p) \/ FailLocked(p) \/ CallFails(p)
      PROVE  [History!LogNext]_<<version, log>>
  <2>1. \A u \in Update : {u} \in State
    BY DEF State
  <2>2. mem[Home[p]] # None => mem[Home[p]] \in State
    BY DocAssumption DEF TypeInv, TypeOK
  <2> QED BY <1>8, <2>1, <2>2, <1>1, <1>2, <1>3, <1>4, <1>5, UnnumberedSteps
          DEF Start, Continue
<1> QED BY <1>6, <1>7, <1>8 DEF Next

(* The detailed store implements the abstract history UpdateLog.           *)
THEOREM HistoryRefined == Spec => HistoryKept
<1>1. Init => StateInv /\ VersionInv
  BY DEF Init, StateInv, ServedWasStored, VersionInv, VersionsAssignedOnce, NumbersInFlight
<1>2. Init => History!LogInit
  BY DEF Init, History!LogInit
<1> QED BY <1>1, <1>2, StateStep, VersionStep, HistoryStep, TypeCorrect, PTL
        DEF Spec, HistoryKept, History!LogSpec
-----------------------------------------------------------------------------
(* The strengthening of RebuildMissesNothing: what a rebuild has gathered  *)
(* holds every update still logged up to its cursor, and the cursor is not *)
(* ahead of the document.                                                  *)
Rebuilding(p) == pc[p] \in {"jread", "pread", "jwrite", "pwrite"}
Gathered(p)   == /\ seq[p] <= version
                 /\ \A e \in log : e.seq <= seq[p] => e.delta \subseteq st[p]

RebuildInv ==
  /\ IsFiniteSet(log)
  /\ \A p \in Proc : pc[p] = "idle" => seq[p] = 0
  /\ \A p \in Proc : Rebuilding(p) => Gathered(p)

(* Steps of a request that is not rebuilding and logs nothing.             *)
Elsewhere(p) ==
  /\ version <= version' /\ log' \subseteq log
  /\ ~Rebuilding(p)' /\ (pc'[p] = "idle" => seq'[p] = 0)
  /\ \A q \in Proc \ {p} : pc'[q] = pc[q] /\ seq'[q] = seq[q] /\ st'[q] = st[q]

LEMMA ElsewhereSteps ==
  ASSUME TypeInv, NEW p \in Proc, RebuildInv,
         \/ \E d \in State : Submit(p, d)
         \/ ReadMerge(p) \/ Acquire(p) \/ Compact(p) \/ Release(p) \/ FailLocked(p)
         \/ DropMem(p) \/ DropRedis(p) \/ SetRedis(p) \/ AskRedis(p) \/ FillFromRedis(p)
         \/ FetchRow(p) \/ KeepRow(p) \/ CallFails(p)
         \/ (\E s \in snaps : Rollback(p, s)) \/ RollbackDropMem(p) \/ RollbackDropRedis(p)
         \/ ManualRead(p) \/ ManualVersion(p) \/ ManualSave(p) \/ JobWrite(p)
         \/ RepairWrite(p) \/ RepairWarm(p) \/ CompactJobRead(p) \/ CompactJobDelete(p)
  PROVE  Elsewhere(p)
<1> USE DEF TypeInv, TypeOK, Elsewhere, Rebuilding, Points, At, Goto, End, dbVars
<1>1. ASSUME NEW d \in State, Submit(p, d) PROVE Elsewhere(p)
  BY <1>1 DEF Submit
<1>2. CASE ReadMerge(p) \/ Acquire(p) \/ Release(p) \/ FailLocked(p)
  BY <1>2 DEF ReadMerge, Acquire, Release, FailLocked
<1>3. CASE DropMem(p) \/ DropRedis(p) \/ SetRedis(p) \/ AskRedis(p) \/ FillFromRedis(p)
  BY <1>3 DEF DropMem, DropRedis, SetRedis, AskRedis, FillFromRedis
<1>4. CASE FetchRow(p) \/ KeepRow(p) \/ CallFails(p)
  BY <1>4 DEF FetchRow, KeepRow, CallFails
<1>5. ASSUME NEW s \in snaps, Rollback(p, s) PROVE Elsewhere(p)
  BY <1>5 DEF Rollback
<1>6. CASE RollbackDropMem(p) \/ RollbackDropRedis(p) \/ ManualRead(p)
  BY <1>6 DEF RollbackDropMem, RollbackDropRedis, ManualRead
<1>7. CASE ManualVersion(p) \/ ManualSave(p)
  BY <1>7 DEF ManualVersion, ManualSave
<1>8. CASE JobWrite(p) \/ RepairWrite(p) \/ RepairWarm(p)
  BY <1>8 DEF JobWrite, RepairWrite, RepairWarm
<1>9. CASE Compact(p) \/ CompactJobDelete(p)
  BY <1>9 DEF Compact, CompactJobDelete, Pruned, Without
<1>10. CASE CompactJobRead(p)
  BY <1>10 DEF CompactJobRead
<1> QED BY <1>1, <1>2, <1>3, <1>4, <1>5, <1>6, <1>7, <1>8, <1>9, <1>10

(* A batch leaves out no row between the cursor and its last one.          *)
LEMMA BatchIsPrefix ==
  ASSUME TypeInv, IsFiniteSet(log), NEW c \in Nat, NEW n \in Nat,
         Latest(n, Batch(c), c), NEW e \in log, c < e.seq, e.seq <= n
  PROVE  e \in Batch(c)
<1> DEFINE UpTo(m) == {f \in log : f.seq \in c + 1 .. m}
<1>1. PICK g \in Batch(c) : g.seq = n
  BY DEF Latest, TypeInv, TypeOK, Entry
<1>2. IsFiniteSet(UpTo(n)) /\ UpTo(e.seq) \subseteq UpTo(n)
  BY FS_Subset DEF TypeInv, TypeOK, Entry
<1>3. /\ Cardinality(UpTo(e.seq)) <= Cardinality(UpTo(n))
      /\ Cardinality(UpTo(e.seq)) \in Nat /\ Cardinality(UpTo(n)) \in Nat
  <2>1. IsFiniteSet(UpTo(e.seq)) /\ Cardinality(UpTo(e.seq)) <= Cardinality(UpTo(n))
    BY <1>2, FS_Subset
  <2> QED BY <1>2, <2>1, FS_CardinalityType
<1>4. Cardinality(UpTo(n)) <= BatchSize
  BY <1>1 DEF Batch
<1>5. Cardinality(UpTo(e.seq)) <= BatchSize
  BY <1>3, <1>4, DocAssumption
<1> QED BY <1>5 DEF Batch

LEMMA ReadGathers ==
  ASSUME TypeInv, RebuildInv, NEW p \in Proc, RebuildRead(p)
  PROVE  RebuildInv'
<1> USE DEF TypeInv, TypeOK, RebuildInv, Rebuilding
<1> DEFINE b == Batch(seq[p])
<1>1. PICK n \in 0..version : Latest(n, b, seq[p]) /\ seq' = [seq EXCEPT ![p] = n]
  BY DEF RebuildRead
<1>2. /\ st' = [st EXCEPT ![p] = st[p] \cup UNION {e.delta : e \in b}]
      /\ UNCHANGED <<version, log>> /\ Rebuilding(p)
  BY DEF RebuildRead, dbVars
<1>3. pc'[p] # "idle" /\ \A q \in Proc : q # p => pc'[q] = pc[q]
  BY DEF RebuildRead, Goto
<1>4. ASSUME NEW e \in log, e.seq <= n PROVE e.delta \subseteq st'[p]
  <2>1. CASE e.seq <= seq[p]
    BY <1>2, <2>1 DEF Gathered
  <2>2. CASE ~(e.seq <= seq[p])
    <3>1. e.seq \in Nat /\ seq[p] \in Nat /\ n \in Nat
      BY <1>1 DEF Entry
    <3>2. e \in b
      BY <1>1, <1>4, <2>2, <3>1, BatchIsPrefix
    <3> QED BY <1>2, <3>2
  <2> QED BY <2>1, <2>2
<1>5. Gathered(p)'
  BY <1>1, <1>2, <1>4 DEF Gathered
<1>6. \A q \in Proc : q # p => (Gathered(q) => Gathered(q)')
  BY <1>1, <1>2 DEF Gathered
<1> QED BY <1>1, <1>2, <1>3, <1>5, <1>6

LEMMA RebuildStep == TypeInv /\ VersionInv /\ RebuildInv /\ [Next]_vars => RebuildInv'
<1> SUFFICES ASSUME TypeInv, VersionInv, RebuildInv, [Next]_vars PROVE RebuildInv'
  OBVIOUS
<1>1. ASSUME NEW p \in Proc, Elsewhere(p) PROVE RebuildInv'
  <2>1. IsFiniteSet(log')
    BY <1>1, FS_Subset DEF Elsewhere, RebuildInv
  <2>2. version \in Nat /\ version' \in Nat /\ \A q \in Proc : seq[q] \in Nat
    BY TypeStep DEF TypeInv, TypeOK
  <2>3. \A q \in Proc \ {p} : Gathered(q) => Gathered(q)'
    BY <1>1, <2>2 DEF Elsewhere, Gathered
  <2> QED BY <1>1, <2>1, <2>3 DEF Elsewhere, RebuildInv, Rebuilding
<1>2. ASSUME NEW p \in Proc, Commit(p) PROVE RebuildInv'
  <2>1. IsFiniteSet(log')
    BY <1>2, FS_AddElement DEF Commit, RebuildInv
  <2>2. pc' = [pc EXCEPT ![p] = "compact"] /\ seq' = [seq EXCEPT ![p] = version + 1]
        /\ st' = st /\ version' = version + 1
        /\ log' = log \cup {[seq |-> version + 1, delta |-> delta[p]]}
    BY <1>2 DEF Commit, Goto
  <2>3. version \in Nat /\ \A q \in Proc : seq[q] \in Nat
    BY DEF TypeInv, TypeOK
  <2>4. \A q \in Proc \ {p} : Gathered(q) => Gathered(q)'
    BY <2>2, <2>3 DEF Gathered, TypeInv, TypeOK
  <2> QED BY <2>1, <2>2, <2>4 DEF RebuildInv, Rebuilding, TypeInv, TypeOK
<1>3. ASSUME NEW p \in Proc, JobStart(p) \/ RepairStart(p) PROVE RebuildInv'
  <2>1. pc[p] = "idle" /\ seq[p] = 0 /\ UNCHANGED <<version, log, st, seq>>
    BY <1>3 DEF JobStart, RepairStart, At, dbVars, RebuildInv
  <2>2. \E point \in {"jread", "pread"} : pc' = [pc EXCEPT ![p] = point]
    BY <1>3 DEF JobStart, RepairStart, Goto
  <2>3. Gathered(p) /\ \A q \in Proc : Gathered(q)' = Gathered(q)
    BY <2>1 DEF Gathered, VersionInv, VersionsAssignedOnce, TypeInv, TypeOK, Entry
  <2> QED BY <2>1, <2>2, <2>3 DEF RebuildInv, Rebuilding, TypeInv, TypeOK
<1>4. CASE LockExpires \/ RedisExpires \/ Corrupt \/ Retain \/ UNCHANGED vars
  BY <1>4 DEF LockExpires, RedisExpires, Corrupt, Retain, vars, dbVars, locals,
              RebuildInv, Rebuilding, Gathered
<1>5. ASSUME NEW i \in Instance, MemExpires(i) PROVE RebuildInv'
  BY <1>5 DEF MemExpires, dbVars, locals, RebuildInv, Rebuilding, Gathered
<1>6. ASSUME NEW i \in Instance, Crash(i) PROVE RebuildInv'
  BY <1>6 DEF Crash, dbVars, RebuildInv, Rebuilding, Gathered
<1>7. ASSUME NEW p \in Proc, Start(p) \/ Continue(p) \/ FailLocked(p) \/ CallFails(p)
      PROVE  RebuildInv'
  <2>1. \A u \in Update : {u} \in State
    BY DEF State
  <2>2. mem[Home[p]] # None => mem[Home[p]] \in State
    BY DocAssumption DEF TypeInv, TypeOK
  <2> QED BY <1>7, <2>1, <2>2, <1>1, <1>2, <1>3, ElsewhereSteps, ReadGathers
          DEF Start, Continue
<1> QED BY <1>4, <1>5, <1>6, <1>7 DEF Next

(* No logged update falls between two batches of a rebuild: see            *)
(* RebuildMissesNothing.                                                   *)
THEOREM RebuildsWhole == Spec => RebuildMissesNothing
<1>1. Init => StateInv /\ VersionInv /\ RebuildInv
  BY FS_EmptySet DEF Init, StateInv, ServedWasStored, VersionInv, VersionsAssignedOnce,
     NumbersInFlight, RebuildInv, Rebuilding
<1>2. RebuildInv => \A p \in Proc : JobWrite(p) \/ RepairWrite(p) =>
                      \A e \in log : e.seq <= seq[p] => e.delta \subseteq content'
  BY DEF RebuildInv, Rebuilding, Gathered, JobWrite, RepairWrite, At, SetContent
<1> QED BY <1>1, <1>2, StateStep, VersionStep, RebuildStep, TypeCorrect, PTL
        DEF Spec, RebuildMissesNothing
=============================================================================
