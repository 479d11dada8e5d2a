----------------------------- MODULE DocStore ------------------------------
(***************************************************************************)
(* The stored state of one document and every operation of the API that    *)
(* touches it: the write path (DocumentsService.applyYUpdate), the cached  *)
(* read (getYState), rollback, manual snapshot, repair, and the background *)
(* compaction and snapshot jobs, run by concurrent requests on several     *)
(* API instances against one MongoDB and one Redis.                        *)
(*                                                                         *)
(* A Yjs state is the set of updates merged into it: merging is union, so  *)
(* the model keeps the join semilattice Yjs guarantees and nothing else.   *)
(* Each await of the code ends a step.  A request keeps its local          *)
(* variables in delta, st and seq; pc names the await it is suspended at.  *)
(***************************************************************************)
EXTENDS Naturals, FiniteSets

CONSTANTS
  Update,      \* the CRDT operations clients can produce
  Instance,    \* API processes, each with its own memory cache
  Proc,        \* requests and jobs that can be in flight at once
  Home,        \* Home[p]: the instance that runs p
  Keep,        \* DOC_UPDATE_KEEP
  SnapEvery,   \* DOC_SNAPSHOT_EVERY
  Hot,         \* DOC_COMPACT_THRESHOLD
  SnapKeep,    \* SNAPSHOT_KEEP_LAST
  BatchSize,   \* rows one listAsc call returns (1000 in the code)
  Ops,         \* the operations this instance of the model exercises
  Quota,       \* bound: operations that write, over a whole behaviour
  None,        \* absent: no lock holder, no cache entry, no content row
  Bad          \* stored bytes that no longer decompress

OpNames == {"write", "read", "rollback", "manual", "repair", "job", "compact",
            "retain", "expire", "fail", "corrupt", "crash"}

ASSUME DocAssumption ==
  /\ Home \in [Proc -> Instance]
  /\ Keep \in Nat /\ SnapKeep \in Nat /\ Hot \in Nat /\ Quota \in Nat
  /\ SnapEvery \in Nat \ {0} /\ BatchSize \in Nat \ {0}
  /\ Ops \subseteq OpNames
  /\ \A s \in SUBSET Update : s # None /\ s # Bad
  /\ None # Bad  /\ None \notin Proc

VARIABLES
  version,   \* documents.version
  log,       \* docupdates: {[seq, delta]}
  content,   \* doccontents: None, Bad or a state
  snaps,     \* docsnapshots: {[seq, state]}
  lock,      \* Redis lock:doc:<id>: None or the request whose token it holds
  mem,       \* mem[i]: entry doc:y:<id> of instance i's MemoryCacheService
  redis,     \* Redis doc:y:<id>
  pc, delta, st, seq,   \* per request: control point and local variables
  quota,     \* operations left (bound)
  expired,   \* history: requests whose lock lapsed while they relied on it
  stored     \* history: every decoded state the content row has had

dbVars == <<version, log, content, snaps>>
caches == <<mem, redis>>
locals == <<pc, delta, st, seq>>
ghosts == <<expired, stored>>
vars   == <<dbVars, caches, lock, locals, quota, ghosts>>

State == SUBSET Update
Entry == [seq : Nat, delta : State]
Snap  == [seq : Nat, state : {Bad} \cup State]

Points == {"idle", "read", "lock", "commit", "compact", "release", "drop",
           "del", "set", "fill", "fetch", "keep", "rdrop", "rdel", "mver",
           "msave", "jread", "jwrite", "pread", "pwrite", "pwarm", "cdel"}

TypeOK ==
  /\ version \in Nat /\ log \in SUBSET Entry /\ snaps \in SUBSET Snap
  /\ content \in {None, Bad} \cup State
  /\ lock \in Proc \cup {None}
  /\ mem \in [Instance -> {None} \cup State] /\ redis \in {None} \cup State
  /\ pc \in [Proc -> Points] /\ seq \in [Proc -> Nat]
  /\ delta \in [Proc -> State] /\ st \in [Proc -> {Bad} \cup State]
  /\ quota \in Nat /\ expired \in SUBSET Proc /\ stored \in SUBSET State

Init ==
  /\ version = 0 /\ log = {} /\ content = None /\ snaps = {}
  /\ lock = None /\ mem = [i \in Instance |-> None] /\ redis = None
  /\ pc = [p \in Proc |-> "idle"] /\ seq = [p \in Proc |-> 0]
  /\ delta = [p \in Proc |-> {}] /\ st = [p \in Proc |-> {}]
  /\ quota = Quota /\ expired = {} /\ stored = {{}}

-----------------------------------------------------------------------------
(* What a row decompresses to; a missing or unreadable one reads as empty. *)
Decoded(row) == IF row \in {None, Bad} THEN {} ELSE row

At(p, point) == pc[p] = point
Goto(p, point) == pc' = [pc EXCEPT ![p] = point]

(* The request ends and its local variables are gone.                      *)
End(p) ==
  /\ pc' = [pc EXCEPT ![p] = "idle"] /\ seq' = [seq EXCEPT ![p] = 0]
  /\ delta' = [delta EXCEPT ![p] = {}] /\ st' = [st EXCEPT ![p] = {}]

(* An operation that writes starts, within the bound of the model.         *)
Spend(op) == op \in Ops /\ quota > 0 /\ quota' = quota - 1

SetContent(row) == content' = row /\ stored' = stored \cup {Decoded(row)}
SetMem(p, c)    == mem' = [mem EXCEPT ![Home[p]] = c]
Without(upTo)   == {e \in log : e.seq > upTo}

(* What deleteMany(seq <= n - keep) leaves; n is the version compacted for. *)
PrunedTooFar(n) == IF n > Keep THEN Without(n - Keep + 1) ELSE log  \* mutant: off by one
Pruned(n)       == IF n > Keep THEN Without(n - Keep) ELSE log
-----------------------------------------------------------------------------
(* applyYUpdate                                                            *)

(* POST /y or a gateway flush brings one new update; POST /snapshots sends *)
(* back the whole state getYState answered (the memory cache holds it).    *)
Submit(p, d) ==
  /\ At(p, "idle") /\ Spend("write")
  /\ delta' = [delta EXCEPT ![p] = d] /\ Goto(p, "read")
  /\ UNCHANGED <<dbVars, caches, lock, st, seq, ghosts>>

(* Read the row and merge: before the lock, and an unreadable row is       *)
(* swallowed by the empty catch.                                           *)
ReadMerge(p) ==
  /\ At(p, "read")
  /\ st' = [st EXCEPT ![p] = Decoded(content) \cup delta[p]] /\ Goto(p, "lock")
  /\ UNCHANGED <<dbVars, caches, lock, delta, seq, quota, ghosts>>

(* SET NX PX: no waiting; when taken the request fails with Conflict.      *)
Acquire(p) ==
  /\ At(p, "lock")
  /\ \/ lock = None /\ lock' = p /\ Goto(p, "commit") /\ UNCHANGED <<delta, st, seq>>
     \/ lock # None /\ End(p) /\ UNCHANGED lock
  /\ UNCHANGED <<dbVars, caches, quota, ghosts>>

(* The transaction: version, log entry, content and periodic snapshot.     *)
Commit(p) ==
  /\ At(p, "commit")
  /\ version' = version + 1
  /\ log' = log \cup {[seq |-> version + 1, delta |-> delta[p]]}
  /\ SetContent(st[p])
  /\ snaps' = IF (version + 1) % SnapEvery = 0
              THEN snaps \cup {[seq |-> version + 1, state |-> st[p]]} ELSE snaps
  /\ seq' = [seq EXCEPT ![p] = version + 1] /\ Goto(p, "compact")
  /\ UNCHANGED <<caches, lock, delta, st, quota, expired>>

Compact(p) ==
  /\ At(p, "compact")
  /\ log' = Pruned(seq[p]) /\ Goto(p, "release")
  /\ UNCHANGED <<version, content, snaps, caches, lock, delta, st, seq, quota, ghosts>>

(* LockService.release: the token is compared; a failed eval is swallowed  *)
(* and leaves the key to its TTL.                                          *)
ReleaseAny(p) == lock' = None   \* mutant: DEL without comparing the token
ReleaseKey(p) == \/ lock' = IF lock = p THEN None ELSE lock
                 \/ "fail" \in Ops /\ UNCHANGED lock

Release(p) ==
  /\ At(p, "release")
  /\ ReleaseKey(p)
  /\ Goto(p, "drop") /\ expired' = expired \ {p}
  /\ UNCHANGED <<dbVars, caches, delta, st, seq, quota, stored>>

(* The transaction or the compaction throws: finally releases, the request *)
(* fails and the caches are not touched.                                   *)
FailWarm(p) ==   \* mutant: the caches are warmed although the write failed
  /\ "fail" \in Ops /\ pc[p] \in {"commit", "compact"}
  /\ ReleaseKey(p) /\ Goto(p, "drop") /\ expired' = expired \ {p}
  /\ UNCHANGED <<dbVars, caches, delta, st, seq, quota, stored>>

FailLocked(p) ==
  /\ "fail" \in Ops /\ pc[p] \in {"commit", "compact"}
  /\ ReleaseKey(p)
  /\ End(p) /\ expired' = expired \ {p}
  /\ UNCHANGED <<dbVars, caches, quota, stored>>

DropMem(p) ==
  /\ At(p, "drop") /\ SetMem(p, None) /\ Goto(p, "del")
  /\ UNCHANGED <<dbVars, redis, lock, delta, st, seq, quota, ghosts>>

(* cache.del has answered; the memory cache is warmed with its own merge.  *)
DropRedis(p) ==
  /\ At(p, "del") /\ redis' = None /\ SetMem(p, st[p]) /\ Goto(p, "set")
  /\ UNCHANGED <<dbVars, lock, delta, st, seq, quota, ghosts>>

SetRedis(p) ==
  /\ At(p, "set") /\ redis' = st[p] /\ End(p)
  /\ UNCHANGED <<dbVars, mem, lock, quota, ghosts>>
-----------------------------------------------------------------------------
(* getYState                                                               *)

(* A memory hit changes nothing.  On a miss Redis is asked.                *)
AskRedis(p) ==
  /\ "read" \in Ops /\ At(p, "idle") /\ mem[Home[p]] = None
  /\ IF redis = None THEN Goto(p, "fetch") /\ UNCHANGED st
     ELSE Goto(p, "fill") /\ st' = [st EXCEPT ![p] = redis]
  /\ UNCHANGED <<dbVars, caches, lock, delta, seq, quota, ghosts>>

FillFromRedis(p) ==
  /\ At(p, "fill") /\ SetMem(p, st[p]) /\ End(p)
  /\ UNCHANGED <<dbVars, redis, lock, quota, ghosts>>

(* A missing row is served as an empty document; a bad one throws.         *)
FetchRow(p) ==
  /\ At(p, "fetch")
  /\ IF content = Bad THEN End(p)
     ELSE /\ st' = [st EXCEPT ![p] = Decoded(content)] /\ Goto(p, "keep")
          /\ UNCHANGED <<delta, seq>>
  /\ UNCHANGED <<dbVars, caches, lock, quota, ghosts>>

KeepRow(p) ==
  /\ At(p, "keep") /\ SetMem(p, st[p]) /\ Goto(p, "set")
  /\ UNCHANGED <<dbVars, redis, lock, delta, st, seq, quota, ghosts>>
-----------------------------------------------------------------------------
(* rollbackToSnapshot: the row is replaced, no lock, no new version.       *)
Rollback(p, s) ==
  /\ At(p, "idle") /\ Spend("rollback") /\ SetContent(s.state) /\ Goto(p, "rdrop")
  /\ UNCHANGED <<version, log, snaps, caches, lock, delta, st, seq, expired>>

RollbackDropMem(p) ==
  /\ At(p, "rdrop") /\ SetMem(p, None) /\ Goto(p, "rdel")
  /\ UNCHANGED <<dbVars, redis, lock, delta, st, seq, quota, ghosts>>

RollbackDropRedis(p) ==
  /\ At(p, "rdel") /\ redis' = None /\ End(p)
  /\ UNCHANGED <<dbVars, mem, lock, quota, ghosts>>

(* createManualSnapshot: the row read first, the version taken afterwards. *)
ManualRead(p) ==
  /\ At(p, "idle") /\ content # None /\ Spend("manual")
  /\ st' = [st EXCEPT ![p] = content] /\ Goto(p, "mver")
  /\ UNCHANGED <<dbVars, caches, lock, delta, seq, ghosts>>

ManualVersionRead(p) ==   \* mutant: the next number is computed, not taken
  /\ At(p, "mver") /\ seq' = [seq EXCEPT ![p] = version + 1] /\ Goto(p, "msave")
  /\ UNCHANGED <<dbVars, caches, lock, delta, st, quota, ghosts>>

ManualVersion(p) ==
  /\ At(p, "mver") /\ version' = version + 1
  /\ seq' = [seq EXCEPT ![p] = version + 1] /\ Goto(p, "msave")
  /\ UNCHANGED <<log, content, snaps, caches, lock, delta, st, quota, ghosts>>

ManualSave(p) ==
  /\ At(p, "msave")
  /\ snaps' = snaps \cup {[seq |-> seq[p], state |-> st[p]]} /\ End(p)
  /\ UNCHANGED <<version, log, content, caches, lock, quota, ghosts>>
-----------------------------------------------------------------------------
(* Rebuilding the row from the log: the snapshot job and the repair.       *)

IsHot == \E e \in log : e.seq > Hot
\* mutant: the newest rows first
BatchNewest(cursor) == {e \in log : /\ e.seq > cursor
                                    /\ Cardinality({f \in log : f.seq >= e.seq}) <= BatchSize}
Batch(cursor) == {e \in log : /\ e.seq > cursor
                              /\ Cardinality({f \in log : f.seq \in cursor + 1 .. e.seq})
                                   <= BatchSize}
(* n is the highest seq of entries, or none where there are none.          *)
Latest(n, entries, none) ==
  IF entries = {} THEN n = none
  ELSE (\E e \in entries : e.seq = n) /\ (\A e \in entries : e.seq <= n)

JobStart(p) ==
  /\ At(p, "idle") /\ IsHot /\ Spend("job") /\ Goto(p, "jread")
  /\ UNCHANGED <<dbVars, caches, lock, delta, st, seq, ghosts>>

(* The checksum of the row does not match its bytes.                       *)
RepairStart(p) ==
  /\ At(p, "idle") /\ content = Bad /\ Spend("repair") /\ Goto(p, "pread")
  /\ UNCHANGED <<dbVars, caches, lock, delta, st, seq, ghosts>>

(* One listAsc batch; a short one is the last.                             *)
RebuildRead(p) ==
  /\ pc[p] \in {"jread", "pread"}
  /\ LET b == Batch(seq[p]) IN
     /\ st' = [st EXCEPT ![p] = @ \cup UNION {e.delta : e \in b}]
     /\ \E n \in 0..version : Latest(n, b, seq[p]) /\ seq' = [seq EXCEPT ![p] = n]
     /\ IF Cardinality(b) = BatchSize THEN UNCHANGED pc
        ELSE Goto(p, IF pc[p] = "jread" THEN "jwrite" ELSE "pwrite")
  /\ UNCHANGED <<dbVars, caches, lock, delta, quota, ghosts>>

JobWrite(p) ==
  /\ At(p, "jwrite") /\ SetContent(st[p]) /\ End(p)
  /\ UNCHANGED <<version, log, snaps, caches, lock, quota, expired>>

RepairWrite(p) ==
  /\ At(p, "pwrite") /\ SetContent(st[p]) /\ Goto(p, "pwarm")
  /\ UNCHANGED <<version, log, snaps, caches, lock, delta, st, seq, quota, expired>>

RepairWarm(p) ==
  /\ At(p, "pwarm") /\ SetMem(p, st[p]) /\ Goto(p, "set")
  /\ UNCHANGED <<dbVars, redis, lock, delta, st, seq, quota, ghosts>>

(* The compaction job: latestSeq, then deleteMany.                         *)
CompactJobRead(p) ==
  /\ At(p, "idle") /\ IsHot /\ Spend("compact")
  /\ \E n \in 0..version : Latest(n, log, 0) /\ seq' = [seq EXCEPT ![p] = n]
  /\ Goto(p, "cdel")
  /\ UNCHANGED <<dbVars, caches, lock, delta, st, ghosts>>

CompactJobDelete(p) ==
  /\ At(p, "cdel")
  /\ log' = Pruned(seq[p]) /\ End(p)
  /\ UNCHANGED <<version, content, snaps, caches, lock, quota, ghosts>>

(* snapshotRetention: of what lies behind the SnapKeep newest snapshots,   *)
(* those that are old and no milestone go, whichever they are.             *)
Behind == {s \in snaps : Cardinality({t \in snaps : t.seq > s.seq}) >= SnapKeep}

Retain ==
  /\ Spend("retain")
  /\ \E old \in SUBSET Behind \ {{}} : snaps' = snaps \ old
  /\ UNCHANGED <<version, log, content, caches, lock, locals, ghosts>>
-----------------------------------------------------------------------------
(* The environment: TTLs, failed cache calls, crashes, damaged bytes.      *)

InLock(p) == pc[p] \in {"commit", "compact", "release"}

LockForever == FALSE /\ UNCHANGED vars    \* mutant: SET NX without PX
LockExpires ==
  /\ lock # None
  /\ "expire" \in Ops \/ ~InLock(lock)
  /\ lock' = None
  /\ expired' = IF InLock(lock) THEN expired \cup {lock} ELSE expired
  /\ UNCHANGED <<dbVars, caches, locals, quota, stored>>

MemExpires(i) ==
  /\ mem[i] # None /\ mem' = [mem EXCEPT ![i] = None]
  /\ UNCHANGED <<dbVars, redis, lock, locals, quota, ghosts>>

RedisForever == FALSE /\ UNCHANGED vars   \* mutant: setJson without EX
RedisExpires ==
  /\ redis # None /\ redis' = None
  /\ UNCHANGED <<dbVars, mem, lock, locals, quota, ghosts>>

(* A call to MongoDB or Redis throws and the request ends where it is; the *)
(* failures inside the lock are FailLocked's.                              *)
CallFails(p) ==
  /\ "fail" \in Ops
  /\ pc[p] \in Points \ {"idle", "fill", "rdrop", "commit", "compact", "release"}
  /\ End(p)
  /\ UNCHANGED <<dbVars, caches, lock, quota, ghosts>>

Corrupt ==
  /\ content \notin {None, Bad} /\ Spend("corrupt") /\ content' = Bad
  /\ UNCHANGED <<version, log, snaps, caches, lock, locals, ghosts>>

(* The process dies: its requests and memory cache go, its lock stays.     *)
Crash(i) ==
  LET dead == {p \in Proc : Home[p] = i} IN
  /\ Spend("crash") /\ mem' = [mem EXCEPT ![i] = None]
  /\ pc' = [p \in Proc |-> IF p \in dead THEN "idle" ELSE pc[p]]
  /\ seq' = [p \in Proc |-> IF p \in dead THEN 0 ELSE seq[p]]
  /\ delta' = [p \in Proc |-> IF p \in dead THEN {} ELSE delta[p]]
  /\ st' = [p \in Proc |-> IF p \in dead THEN {} ELSE st[p]]
  /\ expired' = expired \ dead
  /\ UNCHANGED <<dbVars, redis, lock, stored>>
-----------------------------------------------------------------------------
Start(p) ==
  \/ \E u \in Update : Submit(p, {u})
  \/ mem[Home[p]] # None /\ Submit(p, mem[Home[p]])
  \/ AskRedis(p) \/ ManualRead(p) \/ JobStart(p) \/ RepairStart(p) \/ CompactJobRead(p)
  \/ \E s \in snaps : Rollback(p, s)

(* What a request in flight does next, once begun.                         *)
Continue(p) ==
  \/ ReadMerge(p) \/ Acquire(p) \/ Commit(p) \/ Compact(p) \/ Release(p)
  \/ DropMem(p) \/ DropRedis(p) \/ SetRedis(p)
  \/ FillFromRedis(p) \/ FetchRow(p) \/ KeepRow(p)
  \/ RollbackDropMem(p) \/ RollbackDropRedis(p) \/ ManualVersion(p) \/ ManualSave(p)
  \/ RebuildRead(p) \/ JobWrite(p) \/ RepairWrite(p) \/ RepairWarm(p)
  \/ CompactJobDelete(p)

Next ==
  \/ \E p \in Proc : Start(p) \/ Continue(p) \/ FailLocked(p) \/ CallFails(p)
  \/ LockExpires \/ RedisExpires \/ Corrupt \/ Retain
  \/ \E i \in Instance : MemExpires(i) \/ Crash(i)

Spec == Init /\ [][Next]_vars

(* A request whose process lives runs to its end, and Redis and the memory *)
(* cache honour their TTLs.  Nothing is assumed about new requests.        *)
Fairness ==
  /\ \A p \in Proc : WF_vars(Continue(p))
  /\ WF_vars(LockExpires) /\ WF_vars(RedisExpires)
  /\ \A i \in Instance : WF_vars(MemExpires(i))

FairSpec == Spec /\ Fairness
-----------------------------------------------------------------------------
(* A version number names one event: two log entries never share a seq     *)
(* (the unique index of docupdates would make the write fail), two         *)
(* snapshots never do, no number is ahead of documents.version, and a      *)
(* snapshot numbered like a logged write is that write's own and contains  *)
(* it.  At stake: incVersion is shared by writes and manual snapshots.     *)
VersionsAssignedOnce ==
  /\ \A e \in log : e.seq \in 1..version
  /\ \A s \in snaps : s.seq \in 1..version
  /\ \A e, f \in log : e.seq = f.seq => e = f
  /\ \A s, t \in snaps : s.seq = t.seq => s = t
  /\ \A e \in log, s \in snaps : e.seq = s.seq => s.state # Bad /\ e.delta \subseteq s.state

(* No reader is ever served, and no snapshot ever keeps, a state the       *)
(* document did not have: what the caches and docsnapshots hold was        *)
(* committed content at some time, even when a write loses its lock or     *)
(* its transaction aborts after it has merged.                             *)
ServedWasStored ==
  /\ \A i \in Instance : mem[i] # None => mem[i] \in stored
  /\ redis # None => redis \in stored
  /\ \A s \in snaps : s.state = Bad \/ s.state \in stored

(* A request inside the critical section of applyYUpdate holds the lock    *)
(* unless its TTL lapsed under it: a late release, of a request whose key  *)
(* expired, never frees the lock of the request that took it over.         *)
LockHeldInside ==
  \A p \in Proc : InLock(p) /\ p \notin expired => lock = p

(* The document's history, whatever rollbacks, repairs, jobs, lapsed locks *)
(* and crashes do: versions one by one, the log append-only, compaction    *)
(* by prefix and never into the last Keep versions.                        *)
History == INSTANCE UpdateLog WITH Update <- Update, Keep <- Keep,
                                   version <- version, log <- log
HistoryKept == History!LogSpec

(* A lock left behind by a crash or a failed release is free again         *)
(* eventually: no document stays busy.                                     *)
LockFreed == lock # None ~> lock = None

(* Stale cache entries die out: whatever interleaving of writers, readers, *)
(* rollbacks and failed invalidations left behind, once the document stops *)
(* changing every instance serves what is stored, or nothing.              *)
Fresh(c) == c = None \/ (content # Bad /\ c = Decoded(content))
CachesConverge == <>[](Fresh(redis) /\ \A i \in Instance : Fresh(mem[i]))

(* "Acquire a short lock to serialize concurrent writers on same document" *)
(* (documents.service.ts:182): with writers serialised, every update in    *)
(* the log is in the stored content.                                       *)
LoggedIsStored == \A e \in log : e.delta \subseteq Decoded(content)

(* The snapshot job and the repair read the log in batches while writes    *)
(* add to it and compaction cuts it: what they write holds every update    *)
(* still logged up to the last version they read, so none falls between    *)
(* two batches.                                                            *)
RebuildMissesNothing ==
  [][\A p \in Proc : JobWrite(p) \/ RepairWrite(p) =>
       \A e \in log : e.seq <= seq[p] => e.delta \subseteq content']_vars
=============================================================================
