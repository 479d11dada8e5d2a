---------------------------- MODULE UpdateRelay ----------------------------
(***************************************************************************)
(* How the WebSocket gateways carry Yjs updates of one document from the   *)
(* socket that sends them to the stored history, to every socket in the    *)
(* room and to the queues of absent users: deduplication and the sequence  *)
(* check in Redis, one batch with a timer per instance, the write under    *)
(* the document's lock, the emit to the local room and the fanout over     *)
(* Redis pub/sub.                                                          *)
(*                                                                         *)
(* Each await ends a step.  A handler is one arrival of a message; the     *)
(* same message may arrive twice (a client that retries).  Every message   *)
(* has a msgId and a seq, as the web client's always do.  What a write     *)
(* does to the row and its caches is DocStore's; here it takes the lock or *)
(* is refused, and appends a version to the history.                       *)
(***************************************************************************)
EXTENDS Naturals, Sequences, FiniteSets

CONSTANTS
  Msg,       \* msgIds
  Handler,   \* calls of onYUpdate
  Carries,   \* Carries[h]: the message that arrives
  From,      \* From[h]: the socket it arrives on
  Seqno,     \* Seqno[m]: the sender's sequence number
  Socket,
  User,      \* the owner, collaborators and workspace members of the document
  UserOf,    \* UserOf[c]: the user signed in on socket c
  Instance,  \* API processes
  On,        \* On[c]: the instance socket c is connected to
  Flusher,   \* calls of flushDoc that can be in flight
  Runs,      \* Runs[f]: the instance f runs on
  QueueCap,  \* events kept per absent user (1000 in the code)
  Faults,    \* the faults this instance of the model exercises
  Quota,     \* bound: how often something goes wrong in a behaviour (a fault of Faults)
  None       \* absent: no lock holder

ASSUME RelayAssumption ==
  /\ Carries \in [Handler -> Msg] /\ From \in [Handler -> Socket]
  /\ Seqno \in [Msg -> Nat] /\ UserOf \in [Socket -> User]
  /\ On \in [Socket -> Instance] /\ Runs \in [Flusher -> Instance]
  /\ QueueCap \in Nat \ {0} /\ Quota \in Nat
  /\ Faults \subseteq {"refuse", "fail", "lose", "lapse", "crash", "stale"}
  /\ None \notin Flusher /\ IsFiniteSet(Flusher)

VARIABLES
  pc,        \* per handler: the await it is suspended at, or its answer
  ids,       \* Redis ws:dedup:<doc>
  lastseq,   \* Redis ws:lastseq:<doc>:<user>
  pending,   \* per instance: the updates of the batch entry
  timer,     \* per instance: is the entry's timer armed
  fpc, fupd, fver, \* per flush: the await, the updates taken, their version
  away,      \* per flush: the absent users it has yet to push to
  whom,      \* per flush: the user whose queue it is about to trim
  lock,      \* Redis lock:doc:<id>: the flush that holds it
  log,       \* the stored history: version v is the batch log[v]
  wire,      \* published messages a subscriber has not handled yet
  got,       \* per socket: the y-update events emitted to it
  queue,     \* per user: Redis ws:queue:<doc>:<user>, newest first
  room,      \* sockets in the Socket.IO room doc:<id>
  joined,    \* sockets whose joinedDocs has the document
  subs,      \* instances subscribed to ws:room:<id>
  online,    \* Redis ws:online:doc:<id>
  quota,     \* faults left (bound)
  lapsed,    \* history: messages whose dedup entry has lapsed
  again,     \* history: sockets an event was emitted to a second time
  overfull   \* history: users whose queue was pushed to and not trimmed since

ingest  == <<pc, ids, lastseq>>
batches == <<pending, timer>>
flushes == <<fpc, fupd, fver, away, whom>>
members == <<room, joined, subs, online>>
ghosts  == <<lapsed, again, overfull>>
vars == <<ingest, batches, flushes, lock, log, wire, got, queue, members, quota, ghosts>>

Event == [ver : Nat, upd : SUBSET Msg]
Answers == {"ok", "duplicate", "out_of_order", "refused"}
InWrite == {"commit", "compact"}   \* where a flush holds the lock

TypeOK ==
  /\ pc \in [Handler -> {"new", "dedup", "read", "write", "accept"} \cup Answers]
  /\ ids \in SUBSET Msg /\ lastseq \in [User -> Nat]
  /\ pending \in [Instance -> SUBSET Msg] /\ timer \in [Instance -> BOOLEAN]
  /\ fpc \in [Flusher -> {"idle", "lock", "emit", "absent", "push", "trim", "publish"} \cup InWrite]
  /\ fupd \in [Flusher -> SUBSET Msg] /\ fver \in [Flusher -> Nat]
  /\ away \in [Flusher -> SUBSET User] /\ whom \in [Flusher -> User \cup {None}]
  /\ \A f \in Flusher : fpc[f] = "trim" => whom[f] \in User
  /\ lock \in Flusher \cup {None} /\ log \in Seq(SUBSET Msg)
  /\ wire \in SUBSET [to : Instance, origin : Instance, event : Event]
  /\ got \in [Socket -> SUBSET Event] /\ queue \in [User -> Seq(Event)]
  /\ room \in SUBSET Socket /\ joined \in SUBSET Socket /\ subs \in SUBSET Instance
  /\ online \in SUBSET User
  /\ quota \in Nat /\ lapsed \in SUBSET Msg /\ again \in SUBSET Socket
  /\ overfull \in SUBSET User

(* Some sockets have joined; their instances are subscribed and their      *)
(* users online.                                                           *)
Joined(s) ==
  /\ room = s /\ joined = s /\ subs = {On[c] : c \in s} /\ online = {UserOf[c] : c \in s}

Start(s) ==
  /\ pc = [h \in Handler |-> "new"] /\ ids = {} /\ lastseq = [u \in User |-> 0]
  /\ pending = [i \in Instance |-> {}] /\ timer = [i \in Instance |-> FALSE]
  /\ fpc = [f \in Flusher |-> "idle"] /\ fupd = [f \in Flusher |-> {}]
  /\ fver = [f \in Flusher |-> 0] /\ away = [f \in Flusher |-> {}]
  /\ whom = [f \in Flusher |-> None]
  /\ lock = None /\ log = <<>> /\ wire = {}
  /\ got = [c \in Socket |-> {}] /\ queue = [u \in User |-> <<>>]
  /\ Joined(s) /\ quota = Quota /\ lapsed = {} /\ again = {}
  /\ overfull = {}

Init == Start({From[h] : h \in Handler})

Spend == quota > 0 /\ quota' = quota - 1   \* something goes wrong once more
-----------------------------------------------------------------------------
(* onYUpdate                                                               *)

Sender(h) == UserOf[From[h]]
Answer(h, a) == pc' = [pc EXCEPT ![h] = a]

(* allowWsMessage has let it through and the socket is in joinedDocs.      *)
Arrive(h) ==
  /\ pc[h] = "new" /\ From[h] \in joined /\ Answer(h, "dedup")
  /\ UNCHANGED <<ids, lastseq, batches, flushes, lock, log, wire, got, queue, members, quota, ghosts>>

(* SADD of the msgId; EXPIRE restarts its minute.                          *)
DedupLookup(h) ==   \* mutant: SISMEMBER, the id is never stored
  /\ pc[h] = "dedup"
  /\ Answer(h, IF Carries[h] \in ids THEN "duplicate" ELSE "read")
  /\ UNCHANGED <<ids, lastseq, batches, flushes, lock, log, wire, got, queue, members, quota, ghosts>>

Dedup(h) ==
  /\ pc[h] = "dedup"
  /\ Answer(h, IF Carries[h] \in ids THEN "duplicate" ELSE "read")
  /\ ids' = ids \cup {Carries[h]}
  /\ UNCHANGED <<lastseq, batches, flushes, lock, log, wire, got, queue, members, quota, ghosts>>

(* GET, and in a later step SET: another handler may pass in between.      *)
ReadSeq(h) ==
  /\ pc[h] = "read"
  /\ Answer(h, IF Seqno[Carries[h]] <= lastseq[Sender(h)] THEN "out_of_order" ELSE "write")
  /\ UNCHANGED <<ids, lastseq, batches, flushes, lock, log, wire, got, queue, members, quota, ghosts>>

WriteSeq(h) ==
  /\ pc[h] = "write" /\ Answer(h, "accept")
  /\ lastseq' = [lastseq EXCEPT ![Sender(h)] = Seqno[Carries[h]]]
  /\ UNCHANGED <<ids, batches, flushes, lock, log, wire, got, queue, members, quota, ghosts>>

(* enqueueUpdate arms the timer unless it is armed; then the ack.          *)
AcceptUnarmed(h) ==   \* mutant: an entry whose flush is under way counts as armed
  LET i == On[From[h]] IN
  /\ pc[h] = "accept" /\ Answer(h, "ok")
  /\ pending' = [pending EXCEPT ![i] = @ \cup {Carries[h]}]
  /\ timer' = [timer EXCEPT ![i] = @ \/ \A f \in Flusher : Runs[f] = i => fpc[f] = "idle"]
  /\ UNCHANGED <<ids, lastseq, flushes, lock, log, wire, got, queue, members, quota, ghosts>>

Accept(h) ==
  /\ pc[h] = "accept" /\ Answer(h, "ok")
  /\ pending' = [pending EXCEPT ![On[From[h]]] = @ \cup {Carries[h]}]
  /\ timer' = [timer EXCEPT ![On[From[h]]] = TRUE]
  /\ UNCHANGED <<ids, lastseq, flushes, lock, log, wire, got, queue, members, quota, ghosts>>

(* Over the rate limit, not in the room, too large, not a Yjs update, or a *)
(* Redis call failed: an exception instead of an ack.                      *)
Refuse(h) ==
  /\ "refuse" \in Faults /\ Spend /\ pc[h] \notin Answers /\ Answer(h, "refused")
  /\ UNCHANGED <<ids, lastseq, batches, flushes, lock, log, wire, got, queue, members, ghosts>>
-----------------------------------------------------------------------------
(* flushDoc                                                                *)

(* A call throws; one that goes on either way is tried.                    *)
Fails == "fail" \in Faults /\ Spend
Try(ok) == IF ok THEN UNCHANGED quota ELSE Fails

Ev(f) == [ver |-> fver[f], upd |-> fupd[f]]
Goto(f, point) == fpc' = [fpc EXCEPT ![f] = point]
EndFlush(f) ==
  /\ Goto(f, "idle") /\ fupd' = [fupd EXCEPT ![f] = {}]
  /\ fver' = [fver EXCEPT ![f] = 0] /\ away' = [away EXCEPT ![f] = {}]
  /\ whom' = [whom EXCEPT ![f] = None]

(* server.to(room).emit: every socket of instance i in the room gets it.   *)
Emit(i, e) ==
  LET hit == {c \in room : On[c] = i} IN
  /\ got' = [c \in Socket |-> IF c \in hit THEN got[c] \cup {e} ELSE got[c]]
  /\ again' = again \cup {c \in hit : e \in got[c]}

(* The timer fires and the batch is taken.                                 *)
TakeAndEmit(f) ==   \* mutant: the room hears of the batch before it is stored
  /\ fpc[f] = "idle" /\ timer[Runs[f]]
  /\ fupd' = [fupd EXCEPT ![f] = pending[Runs[f]]] /\ Goto(f, "lock")
  /\ pending' = [pending EXCEPT ![Runs[f]] = {}]
  /\ timer' = [timer EXCEPT ![Runs[f]] = FALSE]
  /\ Emit(Runs[f], [ver |-> Len(log) + 1, upd |-> pending[Runs[f]]])
  /\ UNCHANGED <<ingest, fver, away, whom, lock, log, wire, queue, members, quota, lapsed, overfull>>

TakeBatch(f) ==
  /\ fpc[f] = "idle" /\ timer[Runs[f]]
  /\ fupd' = [fupd EXCEPT ![f] = pending[Runs[f]]] /\ Goto(f, "lock")
  /\ pending' = [pending EXCEPT ![Runs[f]] = {}]
  /\ timer' = [timer EXCEPT ![Runs[f]] = FALSE]
  /\ UNCHANGED <<ingest, fver, away, whom, lock, log, wire, got, queue, members, quota, ghosts>>

(* applyYUpdate: a taken lock is a Conflict, and the catch of flushDoc     *)
(* logs it: the batch is gone.                                             *)
AskLock(f) ==
  /\ fpc[f] = "lock"
  /\ \/ lock = None /\ lock' = f /\ Goto(f, "commit") /\ UNCHANGED <<fupd, fver, away, whom>>
     \/ lock # None /\ EndFlush(f) /\ UNCHANGED lock
  /\ UNCHANGED <<ingest, batches, log, wire, got, queue, members, quota, ghosts>>

Commit(f) ==
  /\ fpc[f] = "commit"
  /\ log' = Append(log, fupd[f]) /\ fver' = [fver EXCEPT ![f] = Len(log) + 1]
  /\ Goto(f, "compact")
  /\ UNCHANGED <<ingest, batches, fupd, away, whom, lock, wire, got, queue, members, quota, ghosts>>

(* Compaction done, lock released.                                         *)
Applied(f) ==
  /\ fpc[f] = "compact" /\ lock' = None /\ Goto(f, "emit")
  /\ UNCHANGED <<ingest, batches, fupd, fver, away, whom, log, wire, got, queue, members, quota, ghosts>>

(* The transaction or the compaction throws: finally releases, flushDoc    *)
(* logs; a version already committed is never announced.                   *)
WriteFails(f) ==
  /\ Fails /\ fpc[f] \in InWrite /\ lock' = None /\ EndFlush(f)
  /\ UNCHANGED <<ingest, batches, log, wire, got, queue, members, ghosts>>

EmitLocal(f) ==
  /\ fpc[f] = "emit" /\ Emit(Runs[f], Ev(f)) /\ Goto(f, "absent")
  /\ UNCHANGED <<ingest, batches, fupd, fver, away, whom, lock, log, wire, queue, members, quota, lapsed, overfull>>

(* queueForOffline: who is absent is read first - everybody if the online  *)
(* set cannot be read, nobody if the members cannot - and pushed to one    *)
(* after the other.                                                        *)
FindAbsent(f) ==
  /\ fpc[f] = "absent"
  /\ \E absent \in {User \ online, User, {}} :
       /\ Try(absent = User \ online) /\ away' = [away EXCEPT ![f] = absent]
       /\ Goto(f, IF absent = {} THEN "publish" ELSE "push")
  /\ UNCHANGED <<ingest, batches, fupd, fver, whom, lock, log, wire, got, queue, members, ghosts>>

PushAbsent(f) ==
  /\ fpc[f] = "push" /\ Goto(f, "trim")
  /\ \E u \in away[f] :
       /\ queue' = [queue EXCEPT ![u] = <<Ev(f)>> \o @]
       /\ whom' = [whom EXCEPT ![f] = u] /\ away' = [away EXCEPT ![f] = @ \ {u}]
  /\ UNCHANGED <<ingest, batches, fupd, fver, lock, log, wire, got, members, quota, ghosts>>

Kept(q, n) == IF Len(q) <= n THEN q ELSE SubSeq(q, 1, n)
TrimmedLess(q) == Kept(q, QueueCap + 1)   \* mutant: LTRIM 0 1000
Trimmed(q) == Kept(q, QueueCap)

(* LTRIM, then EXPIRE, whose failure skips the rest.                       *)
TrimQueue(f) ==
  /\ fpc[f] = "trim"
  /\ queue' = [queue EXCEPT ![whom[f]] = Trimmed(@)] /\ overfull' = overfull \ {whom[f]}
  /\ \E ok \in BOOLEAN : LET rest == IF ok THEN away[f] ELSE {} IN
       /\ Try(ok) /\ away' = [away EXCEPT ![f] = rest] /\ Goto(f, IF rest = {} THEN "publish" ELSE "push")
  /\ whom' = [whom EXCEPT ![f] = None]
  /\ UNCHANGED <<ingest, batches, fupd, fver, lock, log, wire, got, members, lapsed, again>>

(* LPUSH or LTRIM throws; swallowed, the rest is skipped.                  *)
PushFails(f) ==
  /\ Fails /\ fpc[f] \in {"push", "trim"} /\ Goto(f, "publish")
  /\ overfull' = IF fpc[f] = "trim" THEN overfull \cup {whom[f]} ELSE overfull
  /\ away' = [away EXCEPT ![f] = {}] /\ whom' = [whom EXCEPT ![f] = None]
  /\ UNCHANGED <<ingest, batches, fupd, fver, lock, log, wire, got, queue, members, lapsed, again>>

(* publishFanout to every subscriber, the publisher's own included; an     *)
(* error is swallowed.                                                     *)
Published(f) == {[to |-> j, origin |-> Runs[f], event |-> Ev(f)] : j \in subs}
Publish(f) ==
  /\ fpc[f] = "publish" /\ EndFlush(f)
  /\ \E ok \in BOOLEAN : /\ Try(ok)
                         /\ wire' = IF ok THEN wire \cup Published(f) ELSE wire
  /\ UNCHANGED <<ingest, batches, lock, log, got, queue, members, ghosts>>

(* bindPubSubEvents: an instance ignores what it published itself.         *)
ReceiveAll(w) ==   \* mutant: the origin is not compared
  /\ wire' = wire \ {w} /\ Emit(w.to, w.event)
  /\ UNCHANGED <<ingest, batches, flushes, lock, log, queue, members, quota, lapsed, overfull>>

ReceiveOwn(w) ==   \* mutant: the comparison is inverted
  /\ wire' = wire \ {w}
  /\ IF w.origin # w.to THEN UNCHANGED <<got, again>> ELSE Emit(w.to, w.event)
  /\ UNCHANGED <<ingest, batches, flushes, lock, log, queue, members, quota, lapsed, overfull>>

Receive(w) ==
  /\ wire' = wire \ {w}
  /\ IF w.origin = w.to THEN UNCHANGED <<got, again>> ELSE Emit(w.to, w.event)
  /\ UNCHANGED <<ingest, batches, flushes, lock, log, queue, members, quota, lapsed, overfull>>
-----------------------------------------------------------------------------
(* The environment                                                         *)

(* Redis pub/sub delivers at most once: a subscriber whose connection is   *)
(* down misses the message.                                                *)
Lose(w) ==
  /\ "lose" \in Faults /\ Spend /\ wire' = wire \ {w}
  /\ UNCHANGED <<ingest, batches, flushes, lock, log, got, queue, members, ghosts>>

(* A quiet minute: the dedup set of the document is gone.                  *)
DedupLapses ==
  /\ "lapse" \in Faults /\ Spend /\ ids # {} /\ ids' = {} /\ lapsed' = lapsed \cup ids
  /\ UNCHANGED <<pc, lastseq, batches, flushes, lock, log, wire, got, queue, members, again, overfull>>

SeqLapses(u) ==
  /\ "lapse" \in Faults /\ Spend /\ lastseq[u] # 0 /\ lastseq' = [lastseq EXCEPT ![u] = 0]
  /\ UNCHANGED <<pc, ids, batches, flushes, lock, log, wire, got, queue, members, ghosts>>

(* The key of a flush that died with its process.                          *)
LockLapses ==
  /\ lock # None /\ fpc[lock] \notin InWrite /\ lock' = None
  /\ UNCHANGED <<ingest, batches, flushes, log, wire, got, queue, members, quota, ghosts>>

(* The process dies: handlers, batch, flushes, sockets and subscription.   *)
Dying(i) == {f \in Flusher : Runs[f] = i}
Crash(i) ==
  /\ "crash" \in Faults /\ Spend
  /\ pc' = [h \in Handler |-> IF On[From[h]] = i /\ pc[h] \notin Answers THEN "refused" ELSE pc[h]]
  /\ pending' = [pending EXCEPT ![i] = {}] /\ timer' = [timer EXCEPT ![i] = FALSE]
  /\ fpc'  = [f \in Flusher |-> IF Runs[f] = i THEN "idle" ELSE fpc[f]]
  /\ fupd' = [f \in Flusher |-> IF Runs[f] = i THEN {} ELSE fupd[f]]
  /\ fver' = [f \in Flusher |-> IF Runs[f] = i THEN 0 ELSE fver[f]]
  /\ away' = [f \in Flusher |-> IF Runs[f] = i THEN {} ELSE away[f]]
  /\ whom' = [f \in Flusher |-> IF Runs[f] = i THEN None ELSE whom[f]]
  /\ overfull' = overfull \cup {whom[f] : f \in {g \in Dying(i) : fpc[g] = "trim"}}
  /\ wire' = {w \in wire : w.to # i}
  /\ room' = {c \in room : On[c] # i} /\ joined' = {c \in joined : On[c] # i}
  /\ subs' = subs \ {i}
  /\ UNCHANGED <<ids, lastseq, lock, log, got, queue, online, lapsed, again>>
-----------------------------------------------------------------------------
HandlerStep(h) == Dedup(h) \/ ReadSeq(h) \/ WriteSeq(h) \/ Accept(h)
Unpublished(f) ==
  \/ TakeBatch(f) \/ AskLock(f) \/ Commit(f) \/ Applied(f)
  \/ EmitLocal(f) \/ FindAbsent(f) \/ PushAbsent(f) \/ TrimQueue(f)
FlushStep(f) == Unpublished(f) \/ Publish(f)

(* The steps that cannot keep a version from an instance, and all.         *)
Harmless ==
  \/ \E h \in Handler : HandlerStep(h) \/ Refuse(h)
  \/ \E f \in Flusher : Unpublished(f) \/ PushFails(f)
  \/ \E w \in wire : Receive(w)
  \/ DedupLapses \/ LockLapses
  \/ \E u \in User : SeqLapses(u)
Relay ==
  \/ Harmless
  \/ \E f \in Flusher : Publish(f) \/ WriteFails(f)
  \/ \E w \in wire : Lose(w)

Next == Relay \/ (\E h \in Handler : Arrive(h)) \/ (\E i \in Instance : Crash(i))

Spec == Init /\ [][Next]_vars

(* Handlers and flushes of a live process run on, timers fire, and a       *)
(* subscriber handles what it was sent.  Nothing makes a client send.      *)
Fairness ==
  /\ \A h \in Handler : WF_vars(HandlerStep(h))
  /\ \A f \in Flusher : WF_vars(FlushStep(f))
  /\ WF_vars(\E w \in wire : Receive(w))

FairSpec == Spec /\ Fairness
-----------------------------------------------------------------------------
(* What a socket was ever sent and what an absent user's queue holds is a  *)
(* version of the stored history, with exactly that version's updates:     *)
(* nobody is shown an edit that a refused write then forgets.              *)
IsVersion(e) == e.ver \in 1..Len(log) /\ e.upd = log[e.ver]
SeenIsStored ==
  /\ \A c \in Socket : \A e \in got[c] : IsVersion(e)
  /\ \A u \in User : \A k \in 1..Len(queue[u]) : IsVersion(queue[u][k])

(* The local emit and the fanout never both reach a socket: no version is  *)
(* emitted to it twice.                                                    *)
DeliveredOnce == again = {}

(* A message that arrives twice, on whichever instances, enters the        *)
(* history once while its dedup entry lives.                               *)
StoredOnce ==
  \A j, k \in 1..Len(log) : j # k => log[j] \cap log[k] \subseteq lapsed

(* No batch is stranded: updates wait exactly while a timer is armed, also *)
(* when they arrive while the previous batch is still being written.       *)
BatchHasTimer == \A i \in Instance : timer[i] <=> pending[i] # {}

(* However the pushes of several instances meet, an absent user's queue is *)
(* over its cap by no more than the trims still to come, unless a trim was *)
(* given up since the last one; and it never holds an event twice.         *)
Trimming(u) == {f \in Flusher : fpc[f] = "trim" /\ whom[f] = u}
QueueBounded ==
  \A u \in User : /\ Len(queue[u]) <= QueueCap + Cardinality(Trimming(u)) \/ u \in overfull
                  /\ \A j, k \in 1..Len(queue[u]) : j # k => queue[u][j] # queue[u][k]

(* Without faults every stored update reaches every socket in the room.    *)
Seen(c, m) == \E e \in got[c] : m \in e.upd
StoredIsSeen ==
  \A m \in Msg, c \in Socket :
    ((\E k \in 1..Len(log) : m \in log[k]) /\ c \in room) ~> (Seen(c, m) \/ c \notin room)
=============================================================================
