------------------------- MODULE UpdateRelayProofs -------------------------
(***************************************************************************)
(* Theorems about UpdateRelay, for every set of messages, sockets, users   *)
(* and instances, any number of concurrent handlers and flushes, and every *)
(* fault.                                                                  *)
(***************************************************************************)
EXTENDS UpdateRelay, SequenceTheorems, FiniteSetTheorems, TLAPS

(* What LPUSH and LTRIM make of a queue.                                   *)
LEMMA PushedElements ==
  ASSUME NEW S, NEW q \in Seq(S), NEW e \in S
  PROVE  /\ <<e>> \o q \in Seq(S) /\ Len(<<e>> \o q) = Len(q) + 1
         /\ \A k \in 1..Len(q) + 1 : (<<e>> \o q)[k] = IF k = 1 THEN e ELSE q[k - 1]
<1>1. <<e>> \in Seq(S) /\ Len(<<e>>) = 1 /\ <<e>>[1] = e
  OBVIOUS
<1> QED BY <1>1, ConcatProperties

LEMMA TrimmedElements ==
  ASSUME NEW S, NEW q \in Seq(S)
  PROVE  /\ Trimmed(q) \in Seq(S) /\ Len(Trimmed(q)) <= QueueCap
         /\ Len(Trimmed(q)) <= Len(q)
         /\ \A k \in 1..Len(Trimmed(q)) : Trimmed(q)[k] = q[k]
<1>0. QueueCap \in Nat \ {0} /\ Len(q) \in Nat
  BY RelayAssumption
<1>1. CASE Len(q) <= QueueCap
  BY <1>0, <1>1 DEF Trimmed, Kept
<1>2. CASE ~(Len(q) <= QueueCap)
  <2>1. Trimmed(q) = SubSeq(q, 1, QueueCap)
    BY <1>2 DEF Trimmed, Kept
  <2>2. \A k \in 1..QueueCap : q[k] \in S
    BY <1>0, <1>2
  <2>3. /\ SubSeq(q, 1, QueueCap) \in Seq(S) /\ Len(SubSeq(q, 1, QueueCap)) = QueueCap
        /\ \A k \in 1..QueueCap : SubSeq(q, 1, QueueCap)[k] = q[k]
    BY <1>0, <2>2, SubSeqProperties
  <2> QED BY <1>0, <1>2, <2>1, <2>3
<1> QED BY <1>1, <1>2

FlushMove(f) == FlushStep(f) \/ WriteFails(f) \/ PushFails(f)
-----------------------------------------------------------------------------
LEMMA TypeInit == Init => TypeOK
BY RelayAssumption DEF Init, Start, TypeOK, Joined, Answers, InWrite

LEMMA TypeIngest ==
  ASSUME TypeOK, NEW h \in Handler, Arrive(h) \/ HandlerStep(h) \/ Refuse(h)
  PROVE  TypeOK'
<1> USE RelayAssumption DEF TypeOK, Answer, Answers, Sender, Spend
<1> USE DEF ingest, batches, flushes, members, ghosts
<1>1. CASE Arrive(h)
  BY <1>1 DEF Arrive
<1>2. CASE Dedup(h)
  BY <1>2 DEF Dedup
<1>3. CASE ReadSeq(h)
  BY <1>3 DEF ReadSeq
<1>4. CASE WriteSeq(h)
  BY <1>4 DEF WriteSeq
<1>5. CASE Accept(h)
  BY <1>5 DEF Accept
<1>6. CASE Refuse(h)
  BY <1>6 DEF Refuse
<1> QED BY <1>1, <1>2, <1>3, <1>4, <1>5, <1>6 DEF HandlerStep

LEMMA EmitType ==
  ASSUME TypeOK, NEW i \in Instance, NEW e \in Event, Emit(i, e)
  PROVE  got' \in [Socket -> SUBSET Event] /\ again' \in SUBSET Socket
BY DEF Emit, TypeOK

LEMMA TypeFlush ==
  ASSUME TypeOK, NEW f \in Flusher, FlushMove(f)
  PROVE  TypeOK'
<1> USE RelayAssumption DEF TypeOK, Goto, EndFlush, InWrite, Try, Fails, Spend
<1> USE DEF ingest, batches, flushes, members, ghosts
<1>0. Ev(f) \in Event /\ Runs[f] \in Instance
  BY DEF Ev, Event
<1>1. CASE TakeBatch(f)
  BY <1>1 DEF TakeBatch
<1>2. CASE AskLock(f)
  <2>1. CASE lock = None /\ lock' = f /\ Goto(f, "commit") /\ UNCHANGED <<fupd, fver, away, whom>>
    BY <1>2, <2>1 DEF AskLock
  <2>2. CASE lock # None /\ EndFlush(f) /\ UNCHANGED lock
    BY <1>2, <2>2 DEF AskLock
  <2> QED BY <1>2, <2>1, <2>2 DEF AskLock
<1>3. CASE Commit(f)
  <2>1. Append(log, fupd[f]) \in Seq(SUBSET Msg) /\ Len(log) + 1 \in Nat
    BY AppendProperties
  <2> QED BY <1>3, <2>1 DEF Commit
<1>4. CASE Applied(f)
  BY <1>4 DEF Applied
<1>5. CASE WriteFails(f)
  BY <1>5 DEF WriteFails
<1>6. CASE EmitLocal(f)
  BY <1>0, <1>6, EmitType DEF EmitLocal
<1>7. CASE FindAbsent(f)
  BY <1>7 DEF FindAbsent
<1>8. CASE PushAbsent(f)
  <2>1. queue' \in [User -> Seq(Event)]
    BY <1>0, <1>8, PushedElements DEF PushAbsent
  <2> QED BY <1>8, <2>1 DEF PushAbsent
<1>9. CASE Publish(f)
  BY <1>0, <1>9 DEF Publish, Published
<1>10. CASE TrimQueue(f)
  <2>1. queue' \in [User -> Seq(Event)]
    BY <1>10, TrimmedElements DEF TrimQueue
  <2> QED BY <1>10, <2>1 DEF TrimQueue
<1>11. CASE PushFails(f)
  BY <1>11 DEF PushFails
<1> QED BY <1>1, <1>2, <1>3, <1>4, <1>5, <1>6, <1>7, <1>8, <1>9, <1>10, <1>11 DEF FlushMove, FlushStep, Unpublished

LEMMA TypeEnvironment ==
  ASSUME TypeOK,
         \/ \E w \in wire : Receive(w) \/ Lose(w)
         \/ DedupLapses \/ LockLapses \/ UNCHANGED vars
         \/ \E u \in User : SeqLapses(u)
         \/ \E i \in Instance : Crash(i)
  PROVE  TypeOK'
<1> USE RelayAssumption DEF TypeOK, Spend
<1> USE DEF ingest, batches, flushes, members, ghosts
<1>1. ASSUME NEW w \in wire, Receive(w) PROVE TypeOK'
  <2>1. w.to \in Instance /\ w.event \in Event
    OBVIOUS
  <2> QED BY <1>1, <2>1, EmitType DEF Receive
<1>2. ASSUME NEW w \in wire, Lose(w) PROVE TypeOK'
  BY <1>2 DEF Lose
<1>3. CASE DedupLapses
  BY <1>3 DEF DedupLapses
<1>4. CASE LockLapses
  BY <1>4 DEF LockLapses
<1>5. CASE UNCHANGED vars
  BY <1>5 DEF vars
<1>6. ASSUME NEW u \in User, SeqLapses(u) PROVE TypeOK'
  BY <1>6 DEF SeqLapses
<1>7. ASSUME NEW i \in Instance, Crash(i) PROVE TypeOK'
  <2>1. overfull' \in SUBSET User
    BY <1>7 DEF Crash, Dying
  <2> QED BY <1>7, <2>1 DEF Crash, Answers
<1> QED BY <1>1, <1>2, <1>3, <1>4, <1>5, <1>6, <1>7

LEMMA TypeStep == TypeOK /\ [Next]_vars => TypeOK'
BY TypeIngest, TypeFlush, TypeEnvironment DEF Next, Relay, Harmless, FlushMove, FlushStep

(* Every variable keeps its type.                                          *)
THEOREM RelayTypeCorrect == Spec => []TypeOK
BY TypeInit, TypeStep, PTL DEF Spec
-----------------------------------------------------------------------------
(* Batches: only Accept, TakeBatch and Crash touch an entry.               *)

LEMMA TimerStep == TypeOK /\ BatchHasTimer /\ [Next]_vars => BatchHasTimer'
<1> SUFFICES ASSUME TypeOK, BatchHasTimer, [Next]_vars PROVE BatchHasTimer'
  OBVIOUS
<1> USE RelayAssumption DEF batches
<1>1. ASSUME NEW h \in Handler, Accept(h) PROVE BatchHasTimer'
  BY <1>1 DEF Accept, TypeOK, BatchHasTimer
<1>2. ASSUME NEW f \in Flusher, TakeBatch(f) PROVE BatchHasTimer'
  BY <1>2 DEF TakeBatch, TypeOK, BatchHasTimer
<1>3. ASSUME NEW i \in Instance, Crash(i) PROVE BatchHasTimer'
  BY <1>3 DEF Crash, TypeOK, BatchHasTimer
<1>4. ASSUME UNCHANGED batches PROVE BatchHasTimer'
  BY <1>4 DEF BatchHasTimer
<1>5. ASSUME NEW h \in Handler, Arrive(h) \/ Dedup(h) \/ ReadSeq(h) \/ WriteSeq(h) \/ Refuse(h)
      PROVE  UNCHANGED batches
  BY <1>5 DEF Arrive, Dedup, ReadSeq, WriteSeq, Refuse
<1>6. ASSUME NEW f \in Flusher, ~TakeBatch(f), FlushMove(f)
      PROVE  UNCHANGED batches
  BY <1>6 DEF FlushMove, FlushStep, Unpublished, AskLock, Commit, Applied, EmitLocal, FindAbsent,
              PushAbsent, TrimQueue, PushFails, Publish, WriteFails
<1>7. ASSUME NEW w \in wire, Receive(w) \/ Lose(w) PROVE UNCHANGED batches
  BY <1>7 DEF Receive, Lose
<1>8. CASE DedupLapses \/ LockLapses \/ UNCHANGED vars \/ \E u \in User : SeqLapses(u)
  BY <1>4, <1>8 DEF DedupLapses, LockLapses, SeqLapses, vars
<1> QED BY <1>1, <1>2, <1>3, <1>4, <1>5, <1>6, <1>7, <1>8 DEF Next, Relay, Harmless, FlushMove, FlushStep, HandlerStep

(* No batch waits without a timer, whatever arrives while another batch is *)
(* being written.                                                          *)
THEOREM BatchesTimed == Spec => []BatchHasTimer
<1>1. Init => BatchHasTimer
  BY DEF Init, Start, BatchHasTimer
<1> QED BY <1>1, TimerStep, RelayTypeCorrect, PTL DEF Spec
-----------------------------------------------------------------------------
(* Versions: what is on its way is a version of the history, and a socket  *)
(* that can still be sent one does not have it.                            *)

Committed(f) == fpc[f] \in {"compact", "emit", "absent", "push", "trim", "publish"}
Unsent(f)    == fpc[f] \in {"compact", "emit"}

EventInv ==
  /\ SeenIsStored
  /\ \A f \in Flusher : Committed(f) => IsVersion(Ev(f))
  /\ \A w \in wire : IsVersion(w.event)

(* IsVersion is stable: the history only grows.                            *)
LEMMA Grows ==
  ASSUME TypeOK, log' = log \/ \E b \in SUBSET Msg : log' = Append(log, b)
  PROVE  /\ Len(log) <= Len(log') /\ Len(log') \in Nat
         /\ \A k \in 1..Len(log) : log'[k] = log[k]
<1>1. CASE log' = log
  BY <1>1 DEF TypeOK
<1>2. ASSUME NEW b \in SUBSET Msg, log' = Append(log, b)
      PROVE  /\ Len(log) <= Len(log') /\ Len(log') \in Nat
             /\ \A k \in 1..Len(log) : log'[k] = log[k]
  BY <1>2, AppendProperties DEF TypeOK
<1> QED BY <1>1, <1>2

LEMMA EventFlush ==
  ASSUME TypeOK, EventInv, NEW f \in Flusher, FlushMove(f)
  PROVE  EventInv'
<1> USE DEF EventInv, SeenIsStored, Committed, Ev, IsVersion
<1> USE DEF ingest, batches, flushes, members, ghosts
<1>1. CASE TakeBatch(f)
  BY <1>1 DEF TakeBatch, TypeOK, Goto
<1>2. CASE AskLock(f)
  BY <1>2 DEF AskLock, TypeOK, Goto, EndFlush
<1>3. CASE Commit(f)
  <2>1. log' = Append(log, fupd[f]) /\ fupd[f] \in SUBSET Msg /\ log \in Seq(SUBSET Msg)
    BY <1>3 DEF Commit, TypeOK
  <2>2. /\ Len(log) <= Len(log') /\ Len(log') \in Nat
        /\ \A k \in 1..Len(log) : log'[k] = log[k]
    BY <2>1, Grows
  <2>3. Len(log') = Len(log) + 1 /\ log'[Len(log) + 1] = fupd[f] /\ Len(log) \in Nat
    BY <2>1, AppendProperties
  <2> QED BY <1>3, <2>2, <2>3 DEF Commit, TypeOK, Goto
<1>4. CASE Applied(f)
  BY <1>4 DEF Applied, TypeOK, Goto
<1>5. CASE WriteFails(f)
  BY <1>5 DEF WriteFails, TypeOK, Goto, EndFlush
<1>6. CASE EmitLocal(f)
  BY <1>6 DEF EmitLocal, Emit, TypeOK, Goto
<1>7. CASE FindAbsent(f)
  BY <1>7 DEF FindAbsent, TypeOK, Goto
<1>8. CASE PushAbsent(f)
  <2>1. Ev(f) \in Event /\ IsVersion(Ev(f)) /\ queue \in [User -> Seq(Event)]
    BY <1>8 DEF PushAbsent, TypeOK, Event
  <2>2. ASSUME NEW u \in User, NEW k \in 1..Len(queue'[u]) PROVE IsVersion(queue'[u][k])
    <3>1. CASE queue'[u] = queue[u]
      BY <3>1
    <3>2. CASE queue'[u] = <<Ev(f)>> \o queue[u]
      <4>1. /\ k \in 1..Len(queue[u]) + 1 /\ Len(queue[u]) \in Nat
            /\ queue'[u][k] = IF k = 1 THEN Ev(f) ELSE queue[u][k - 1]
        BY <2>1, <3>2, PushedElements
      <4>2. CASE k = 1
        BY <2>1, <4>1, <4>2
      <4>3. CASE k # 1
        <5>1. k - 1 \in 1..Len(queue[u]) /\ queue'[u][k] = queue[u][k - 1]
          BY <4>1, <4>3
        <5> QED BY <5>1
      <4> QED BY <4>2, <4>3
    <3> QED BY <1>8, <2>1, <3>1, <3>2 DEF PushAbsent
  <2>3. log' = log
    BY <1>8 DEF PushAbsent
  <2> QED BY <1>8, <2>2, <2>3 DEF PushAbsent, TypeOK, Goto
<1>9. CASE Publish(f)
  BY <1>9 DEF Publish, Published, TypeOK, Goto, EndFlush
<1>10. CASE TrimQueue(f)
  <2>1. ASSUME NEW u \in User, NEW k \in 1..Len(queue'[u]) PROVE IsVersion(queue'[u][k])
    <3>0. queue \in [User -> Seq(Event)]
      BY DEF TypeOK
    <3>1. CASE queue'[u] = queue[u]
      BY <3>1
    <3>2. CASE queue'[u] = Trimmed(queue[u])
      <4>1. /\ Len(queue'[u]) <= Len(queue[u]) /\ Len(queue[u]) \in Nat /\ queue'[u] \in Seq(Event)
            /\ queue'[u][k] = queue[u][k]
        BY <3>0, <3>2, TrimmedElements
      <4>2. k \in 1..Len(queue[u])
        BY <4>1
      <4> QED BY <4>1, <4>2
    <3> QED BY <1>10, <3>0, <3>1, <3>2 DEF TrimQueue
  <2>2. UNCHANGED <<log, got, wire, fupd, fver>>
    BY <1>10 DEF TrimQueue
  <2>3. \A g \in Flusher : Committed(g)' => Committed(g)
    BY <1>10 DEF TrimQueue, TypeOK, Goto
  <2> QED BY <2>1, <2>2, <2>3
<1>11. CASE PushFails(f)
  BY <1>11 DEF PushFails, TypeOK, Goto
<1> QED BY <1>1, <1>2, <1>3, <1>4, <1>5, <1>6, <1>7, <1>8, <1>9, <1>10, <1>11 DEF FlushMove, FlushStep, Unpublished

LEMMA EventStep == TypeOK /\ EventInv /\ [Next]_vars => EventInv'
<1> SUFFICES ASSUME TypeOK, EventInv, [Next]_vars PROVE EventInv'
  OBVIOUS
<1> USE DEF EventInv, SeenIsStored, Committed, Ev, IsVersion
<1> USE DEF ingest, batches, flushes, members, ghosts
<1>1. ASSUME NEW h \in Handler, Arrive(h) \/ HandlerStep(h) \/ Refuse(h) PROVE EventInv'
  BY <1>1 DEF HandlerStep, Arrive, Dedup, ReadSeq, WriteSeq, Accept, Refuse
<1>2. ASSUME NEW w \in wire, Receive(w) PROVE EventInv'
  <2>1. log' = log /\ queue' = queue /\ wire' \subseteq wire /\ UNCHANGED flushes
    BY <1>2 DEF Receive
  <2>2. \A c \in Socket : got'[c] \subseteq got[c] \cup {w.event}
    BY <1>2 DEF Receive, Emit
  <2> QED BY <2>1, <2>2
<1>3. ASSUME NEW w \in wire, Lose(w) PROVE EventInv'
  BY <1>3 DEF Lose
<1>4. CASE DedupLapses \/ LockLapses \/ UNCHANGED vars \/ \E u \in User : SeqLapses(u)
  BY <1>4 DEF DedupLapses, LockLapses, SeqLapses, vars
<1>5. ASSUME NEW i \in Instance, Crash(i) PROVE EventInv'
  <2>1. log' = log /\ got' = got /\ queue' = queue /\ wire' \subseteq wire
    BY <1>5 DEF Crash
  <2>2. \A f \in Flusher : Committed(f)' => fpc'[f] = fpc[f] /\ fupd'[f] = fupd[f] /\ fver'[f] = fver[f]
    BY <1>5 DEF Crash, TypeOK
  <2> QED BY <2>1, <2>2
<1> QED BY <1>1, <1>2, <1>3, <1>4, <1>5, EventFlush DEF Next, Relay, Harmless, FlushMove, FlushStep

(* Sockets and offline queues only ever hold stored versions.              *)
THEOREM SeenSafe == Spec => []SeenIsStored
<1>1. Init => EventInv
  BY DEF Init, Start, EventInv, SeenIsStored, Committed
<1>2. EventInv => SeenIsStored
  BY DEF EventInv
<1> QED BY <1>1, <1>2, EventStep, RelayTypeCorrect, PTL DEF Spec
-----------------------------------------------------------------------------
(* Delivery: who can have a version that is still being announced.         *)

FreshInv ==
  /\ DeliveredOnce
  /\ \A f, g \in Flusher : f # g /\ Committed(f) /\ Committed(g) => fver[f] # fver[g]
  /\ \A f \in Flusher, c \in Socket : \A e \in got[c] :
       Committed(f) /\ e.ver = fver[f] => ~Unsent(f) /\ On[c] = Runs[f]
  /\ \A f \in Flusher, w \in wire : Committed(f) => w.event.ver # fver[f]
  /\ \A w, x \in wire : w.event.ver = x.event.ver => w.origin = x.origin
  /\ \A w \in wire, c \in Socket : \A e \in got[c] :
       e.ver = w.event.ver /\ On[c] = w.to => w.origin = w.to

(* A flush that goes on or ends without a new version, an event or a       *)
(* message on the wire disturbs nothing.                                   *)
LEMMA FreshQuiet ==
  ASSUME FreshInv, UNCHANGED <<got, again>>, wire' \subseteq wire,
         \A f \in Flusher : Committed(f)' => Committed(f) /\ fver'[f] = fver[f],
         \A f \in Flusher : Unsent(f)' => Unsent(f)
  PROVE  FreshInv'
<1> USE DEF FreshInv
<1>1. DeliveredOnce'
  BY DEF DeliveredOnce
<1>2. (\A f, g \in Flusher : f # g /\ Committed(f) /\ Committed(g) => fver[f] # fver[g])'
  OBVIOUS
<1>3. (\A f \in Flusher, c \in Socket : \A e \in got[c] :
        Committed(f) /\ e.ver = fver[f] => ~Unsent(f) /\ On[c] = Runs[f])'
  OBVIOUS
<1>4. (\A f \in Flusher, w \in wire : Committed(f) => w.event.ver # fver[f])'
  OBVIOUS
<1> QED BY <1>1, <1>2, <1>3, <1>4

LEMMA FreshFlush ==
  ASSUME TypeOK, EventInv, FreshInv, NEW f \in Flusher, FlushMove(f)
  PROVE  FreshInv'
<1> USE RelayAssumption
<1>1. ASSUME TakeBatch(f) \/ AskLock(f) \/ Applied(f) \/ WriteFails(f) \/ FindAbsent(f)
             \/ PushAbsent(f) \/ TrimQueue(f) \/ PushFails(f)
      PROVE  FreshInv'
  <2>1. UNCHANGED <<got, again>> /\ wire' = wire
    BY <1>1 DEF TakeBatch, AskLock, Applied, WriteFails, FindAbsent, PushAbsent, TrimQueue,
                PushFails, ghosts
  <2>2. \A g \in Flusher : /\ Committed(g)' => Committed(g) /\ fver'[g] = fver[g]
                           /\ Unsent(g)' => Unsent(g)
    <3> USE DEF Committed, Unsent, TypeOK, Goto, EndFlush
    <3>1. CASE TakeBatch(f)
      BY <3>1 DEF TakeBatch
    <3>2. CASE AskLock(f)
      BY <3>2 DEF AskLock
    <3>3. CASE Applied(f)
      BY <3>3 DEF Applied
    <3>4. CASE WriteFails(f)
      BY <3>4 DEF WriteFails
    <3>5. CASE FindAbsent(f)
      BY <3>5 DEF FindAbsent
    <3>6. CASE PushAbsent(f)
      BY <3>6 DEF PushAbsent
    <3>7. CASE TrimQueue(f)
      BY <3>7 DEF TrimQueue
    <3>8. CASE PushFails(f)
      BY <3>8 DEF PushFails
    <3> QED BY <1>1, <3>1, <3>2, <3>3, <3>4, <3>5, <3>6, <3>7, <3>8
  <2> QED BY <2>1, <2>2, FreshQuiet
<1>2. ASSUME Commit(f) PROVE FreshInv'
  <2>1. /\ UNCHANGED <<got, wire, again>> /\ fver' = [fver EXCEPT ![f] = Len(log) + 1]
        /\ Committed(f)' /\ Unsent(f)' /\ fver'[f] = Len(log) + 1
    BY <1>2 DEF Commit, ghosts, Committed, Unsent, Goto, TypeOK
  <2>2. /\ \A g \in Flusher : g # f /\ Committed(g)' => Committed(g)
        /\ \A g \in Flusher : g # f /\ Unsent(g)' => Unsent(g)
        /\ \A g \in Flusher : g # f => fver'[g] = fver[g]
    BY <1>2 DEF Commit, Committed, Unsent, Goto, TypeOK
  <2>3. /\ Len(log) \in Nat
        /\ \A g \in Flusher : Committed(g) => fver[g] \in 1..Len(log)
        /\ \A c \in Socket : \A e \in got[c] : e.ver \in 1..Len(log)
        /\ \A w \in wire : w.event.ver \in 1..Len(log)
    BY DEF TypeOK, EventInv, SeenIsStored, IsVersion, Ev
  <2>7. /\ \A g \in Flusher : Committed(g) => fver[g] # Len(log) + 1
        /\ \A c \in Socket : \A e \in got[c] : e.ver # Len(log) + 1
        /\ \A w \in wire : w.event.ver # Len(log) + 1
    BY <2>3
  <2>4. (\A g, h \in Flusher : g # h /\ Committed(g) /\ Committed(h) => fver[g] # fver[h])'
    <3> SUFFICES ASSUME NEW g \in Flusher, NEW h \in Flusher,
                        g # h, Committed(g)', Committed(h)'
                   PROVE  fver'[g] # fver'[h]
      OBVIOUS
    <3>2. CASE g # f /\ h # f
      BY <2>2, <3>2, Zenon DEF FreshInv
    <3>3. CASE g = f \/ h = f
      BY <2>1, <2>2, <2>7, <3>3
    <3> QED BY <3>2, <3>3
  <2>5. (\A g \in Flusher, c \in Socket : \A e \in got[c] :
          Committed(g) /\ e.ver = fver[g] => ~Unsent(g) /\ On[c] = Runs[g])'
    <3> SUFFICES ASSUME NEW g \in Flusher, NEW c \in Socket, NEW e \in got[c],
                          Committed(g)', e.ver = fver'[g]
                   PROVE  ~Unsent(g)' /\ On[c] = Runs[g]
      BY <2>1
    <3>2. g # f
      BY <2>1, <2>7
    <3> QED BY <2>2, <3>2 DEF FreshInv
  <2>6. (\A g \in Flusher, w \in wire : Committed(g) => w.event.ver # fver[g])'
    <3> SUFFICES ASSUME NEW g \in Flusher, NEW w \in wire, Committed(g)'
                   PROVE  w.event.ver # fver'[g]
      BY <2>1
    <3> QED BY <2>1, <2>2, <2>7 DEF FreshInv
  <2> QED BY <2>1, <2>4, <2>5, <2>6 DEF FreshInv, DeliveredOnce
<1>3. ASSUME EmitLocal(f) PROVE FreshInv'
  <2>1. /\ Committed(f) /\ Unsent(f) /\ ~Unsent(f)' /\ Runs[f] \in Instance
        /\ wire' = wire /\ fver' = fver
    BY <1>3 DEF EmitLocal, Committed, Unsent, Goto, TypeOK
  <2>2. \A g \in Flusher : /\ Committed(g)' <=> Committed(g)
                           /\ g # f => (Unsent(g)' <=> Unsent(g))
    BY <1>3 DEF EmitLocal, Committed, Unsent, Goto, TypeOK
  <2>3. \A c \in Socket : \A e \in got'[c] :
          e \in got[c] \/ (e.ver = fver[f] /\ On[c] = Runs[f])
    BY <1>3 DEF EmitLocal, Emit, Ev, TypeOK
  <2>4. DeliveredOnce'
    BY <1>3, <2>1 DEF EmitLocal, Emit, Ev, FreshInv, DeliveredOnce, TypeOK
  <2>5. (\A g \in Flusher, c \in Socket : \A e \in got[c] :
          Committed(g) /\ e.ver = fver[g] => ~Unsent(g) /\ On[c] = Runs[g])'
    BY <2>1, <2>2, <2>3 DEF FreshInv
  <2>6. (\A w \in wire, c \in Socket : \A e \in got[c] :
          e.ver = w.event.ver /\ On[c] = w.to => w.origin = w.to)'
    BY <2>1, <2>3 DEF FreshInv
  <2> QED BY <2>1, <2>2, <2>4, <2>5, <2>6 DEF FreshInv
<1>4. ASSUME Publish(f) PROVE FreshInv'
  <2>1. /\ Committed(f) /\ ~Committed(f)' /\ UNCHANGED <<got, again>>
        /\ \A g \in Flusher : g # f => /\ Committed(g)' <=> Committed(g)
                                       /\ Unsent(g)' <=> Unsent(g)
                                       /\ fver'[g] = fver[g]
    BY <1>4 DEF Publish, ghosts, Committed, Unsent, EndFlush, Goto, TypeOK
  <2>2. \A w \in wire' : w \in wire \/ (w.event.ver = fver[f] /\ w.origin = Runs[f])
    BY <1>4 DEF Publish, Published, Ev
  <2>3. (\A g \in Flusher, w \in wire : Committed(g) => w.event.ver # fver[g])'
    BY <2>1, <2>2 DEF FreshInv
  <2>4. (\A w, x \in wire : w.event.ver = x.event.ver => w.origin = x.origin)'
    BY <2>1, <2>2 DEF FreshInv
  <2>5. (\A w \in wire, c \in Socket : \A e \in got[c] :
          e.ver = w.event.ver /\ On[c] = w.to => w.origin = w.to)'
    BY <2>1, <2>2 DEF FreshInv
  <2>6. (\A g, h \in Flusher : g # h /\ Committed(g) /\ Committed(h) => fver[g] # fver[h])'
    BY <2>1 DEF FreshInv
  <2>7. (\A g \in Flusher, c \in Socket : \A e \in got[c] :
          Committed(g) /\ e.ver = fver[g] => ~Unsent(g) /\ On[c] = Runs[g])'
    BY <2>1 DEF FreshInv
  <2> QED BY <2>1, <2>3, <2>4, <2>5, <2>6, <2>7 DEF FreshInv, DeliveredOnce
<1> QED BY <1>1, <1>2, <1>3, <1>4 DEF FlushMove, FlushStep, Unpublished

LEMMA FreshReceive ==
  ASSUME TypeOK, EventInv, FreshInv, NEW w \in wire, Receive(w), w.origin # w.to
  PROVE  FreshInv'
<1>1. /\ UNCHANGED flushes /\ wire' = wire \ {w} /\ Emit(w.to, w.event)
      /\ w.event \in Event /\ IsVersion(w.event)
  BY DEF Receive, TypeOK, EventInv
<1>2. \A f \in Flusher : /\ Committed(f)' <=> Committed(f)
                         /\ Unsent(f)' <=> Unsent(f)
                         /\ fver'[f] = fver[f]
  BY <1>1 DEF flushes, Committed, Unsent
<1>3. \A c \in Socket : \A e \in got'[c] : e \in got[c] \/ (e = w.event /\ On[c] = w.to)
  BY <1>1 DEF Emit
<1>4. DeliveredOnce'
  BY <1>1 DEF Emit, FreshInv, DeliveredOnce, TypeOK
<1>5. ASSUME NEW x \in wire', x.event.ver = w.event.ver, x.to = w.to PROVE x.origin = x.to
  <2>1. x \in wire /\ x # w /\ x.origin = w.origin
    BY <1>1, <1>5 DEF FreshInv
  <2>2. x.event.upd = w.event.upd
    BY <1>1, <1>5, <2>1 DEF EventInv, IsVersion
  <2>3. x.event = w.event
    <3>1. x.event \in Event /\ w.event \in Event /\ x.event.ver = w.event.ver
      BY <1>5, <2>1 DEF TypeOK
    <3> QED BY ONLY <2>2, <3>1 DEF Event
  <2>4. x \in [to : Instance, origin : Instance, event : Event]
        /\ w \in [to : Instance, origin : Instance, event : Event]
    BY <2>1 DEF TypeOK
  <2>5. x = w
    BY <1>5, <2>1, <2>3, <2>4
  <2> QED BY <2>1, <2>5
<1>6. (\A f \in Flusher, c \in Socket : \A e \in got[c] :
        Committed(f) /\ e.ver = fver[f] => ~Unsent(f) /\ On[c] = Runs[f])'
  BY <1>1, <1>2, <1>3 DEF FreshInv
<1>7. (\A x \in wire, c \in Socket : \A e \in got[c] :
        e.ver = x.event.ver /\ On[c] = x.to => x.origin = x.to)'
  BY <1>1, <1>3, <1>5 DEF FreshInv
<1> QED BY <1>1, <1>2, <1>4, <1>6, <1>7 DEF FreshInv

LEMMA FreshStep == TypeOK /\ EventInv /\ FreshInv /\ [Next]_vars => FreshInv'
<1> SUFFICES ASSUME TypeOK, EventInv, FreshInv, [Next]_vars PROVE FreshInv'
  OBVIOUS
<1> DEFINE Quiet == /\ UNCHANGED <<got, again>> /\ wire' \subseteq wire
                    /\ \A f \in Flusher : Committed(f)' => Committed(f) /\ fver'[f] = fver[f]
                    /\ \A f \in Flusher : Unsent(f)' => Unsent(f)
<1>1. Quiet => FreshInv'
  BY FreshQuiet
<1>2. UNCHANGED <<flushes, got, again, wire>> => Quiet
  BY DEF flushes, Committed, Unsent
<1>3. ASSUME NEW h \in Handler, Arrive(h) \/ HandlerStep(h) \/ Refuse(h) PROVE FreshInv'
  <2>1. UNCHANGED <<flushes, got, again, wire>>
    BY <1>3 DEF HandlerStep, Arrive, Dedup, ReadSeq, WriteSeq, Accept, Refuse, ghosts
  <2> QED BY <1>1, <1>2, <2>1
<1>4. ASSUME NEW w \in wire, Receive(w) \/ Lose(w) PROVE FreshInv'
  <2>1. CASE Receive(w) /\ w.origin # w.to
    BY <2>1, FreshReceive
  <2>2. CASE Lose(w) \/ (Receive(w) /\ w.origin = w.to)
    <3>1. Quiet
      BY <2>2 DEF Receive, Lose, flushes, ghosts, Committed, Unsent
    <3> QED BY <1>1, <3>1
  <2> QED BY <1>4, <2>1, <2>2
<1>5. CASE DedupLapses \/ LockLapses \/ UNCHANGED vars \/ \E u \in User : SeqLapses(u)
  <2>1. UNCHANGED <<flushes, got, again, wire>>
    BY <1>5 DEF DedupLapses, LockLapses, SeqLapses, vars, flushes, ghosts
  <2> QED BY <1>1, <1>2, <2>1
<1>6. ASSUME NEW i \in Instance, Crash(i) PROVE FreshInv'
  <2>1. Quiet
    BY <1>6 DEF Crash, ghosts, Committed, Unsent, TypeOK
  <2> QED BY <1>1, <2>1
<1> QED BY <1>3, <1>4, <1>5, <1>6, FreshFlush DEF Next, Relay, Harmless, FlushMove, FlushStep

(* No socket is sent a version twice: not by the local emit and the fanout *)
(* of one flush, nor by two flushes of one instance.                       *)
THEOREM DeliverySafe == Spec => []DeliveredOnce
<1>1. Init => EventInv /\ FreshInv
  BY DEF Init, Start, EventInv, SeenIsStored, FreshInv, DeliveredOnce, Committed
<1>2. FreshInv => DeliveredOnce
  BY DEF FreshInv
<1> QED BY <1>1, <1>2, EventStep, FreshStep, RelayTypeCorrect, PTL DEF Spec
-----------------------------------------------------------------------------
(* Deduplication: a message whose dedup entry lives is in one place, with  *)
(* one handler past the check, in one batch, in one flush before its       *)
(* commit, or in one version.                                              *)

InHandler(h, m) == pc[h] \in {"read", "write", "accept"} /\ Carries[h] = m
InBatch(i, m)   == m \in pending[i]
InFlush(f, m)   == fpc[f] \in {"lock", "commit"} /\ m \in fupd[f]
InVersion(k, m) == k \in 1..Len(log) /\ m \in log[k]

Nowhere(m) ==
  /\ \A h \in Handler : ~InHandler(h, m)
  /\ \A i \in Instance : ~InBatch(i, m)
  /\ \A f \in Flusher : ~InFlush(f, m)
  /\ \A k \in Nat : ~InVersion(k, m)

OnePlace(m) ==
  /\ m \notin ids => Nowhere(m)
  /\ \A h, k \in Handler : InHandler(h, m) /\ InHandler(k, m) => h = k
  /\ \A i, j \in Instance : InBatch(i, m) /\ InBatch(j, m) => i = j
  /\ \A f, g \in Flusher : InFlush(f, m) /\ InFlush(g, m) => f = g
  /\ \A k, l \in Nat : InVersion(k, m) /\ InVersion(l, m) => k = l
  /\ \A h \in Handler, i \in Instance : ~(InHandler(h, m) /\ InBatch(i, m))
  /\ \A h \in Handler, f \in Flusher : ~(InHandler(h, m) /\ InFlush(f, m))
  /\ \A h \in Handler, k \in Nat : ~(InHandler(h, m) /\ InVersion(k, m))
  /\ \A i \in Instance, f \in Flusher : ~(InBatch(i, m) /\ InFlush(f, m))
  /\ \A i \in Instance, k \in Nat : ~(InBatch(i, m) /\ InVersion(k, m))
  /\ \A f \in Flusher, k \in Nat : ~(InFlush(f, m) /\ InVersion(k, m))

OnceInv == \A m \in Msg \ lapsed : OnePlace(m)

(* A step that takes the message to no new place keeps it in one.          *)
LEMMA StaysPut ==
  ASSUME NEW m, OnePlace(m), m \in ids => m \in ids',
         \A h \in Handler : InHandler(h, m)' => InHandler(h, m),
         \A i \in Instance : InBatch(i, m)' => InBatch(i, m),
         \A f \in Flusher : InFlush(f, m)' => InFlush(f, m),
         \A k \in Nat : InVersion(k, m)' => InVersion(k, m)
  PROVE  OnePlace(m)'
BY Zenon DEF OnePlace, Nowhere

LEMMA OnceIngest ==
  ASSUME TypeOK, NEW m \in Msg, OnePlace(m), NEW h \in Handler,
         Arrive(h) \/ HandlerStep(h) \/ Refuse(h)
  PROVE  OnePlace(m)'
<1> USE RelayAssumption DEF ingest, batches, flushes, members, ghosts
<1>1. ASSUME Arrive(h) \/ ReadSeq(h) \/ WriteSeq(h) \/ Refuse(h) PROVE OnePlace(m)'
  <2>1. /\ UNCHANGED <<ids, pending, fpc, fupd, log>>
        /\ \A k \in Handler : InHandler(k, m)' => InHandler(k, m)
    BY <1>1 DEF Arrive, ReadSeq, WriteSeq, Refuse, Answer, Answers, InHandler, TypeOK
  <2> QED BY <2>1, StaysPut DEF InBatch, InFlush, InVersion
<1>2. ASSUME Dedup(h) PROVE OnePlace(m)'
  <2>1. UNCHANGED <<pending, fpc, fupd, log>> /\ ids' = ids \cup {Carries[h]}
    BY <1>2 DEF Dedup
  <2>2. CASE Carries[h] # m \/ m \in ids
    <3>1. \A k \in Handler : InHandler(k, m)' => InHandler(k, m)
      BY <1>2, <2>2 DEF Dedup, Answer, InHandler, TypeOK
    <3> QED BY <2>1, <3>1, StaysPut DEF InBatch, InFlush, InVersion
  <2>3. CASE Carries[h] = m /\ m \notin ids
    <3>1. Nowhere(m)
      BY <2>3 DEF OnePlace
    <3>2. \A k \in Handler : InHandler(k, m)' => k = h
      BY <1>2, <3>1 DEF Dedup, Answer, InHandler, Nowhere, TypeOK
    <3>3. /\ \A i \in Instance : ~InBatch(i, m)'
          /\ \A f \in Flusher : ~InFlush(f, m)'
          /\ \A k \in Nat : ~InVersion(k, m)'
      BY <2>1, <3>1 DEF InBatch, InFlush, InVersion, Nowhere
    <3>4. m \in ids'
      BY <2>1, <2>3
    <3> QED BY <3>2, <3>3, <3>4, Zenon DEF OnePlace
  <2> QED BY <2>2, <2>3
<1>3. ASSUME Accept(h) PROVE OnePlace(m)'
  <2>1. /\ UNCHANGED <<ids, fpc, fupd, log>>
        /\ \A k \in Handler : InHandler(k, m)' => InHandler(k, m) /\ k # h
    BY <1>3 DEF Accept, Answer, InHandler, TypeOK
  <2>2. /\ \A f \in Flusher : InFlush(f, m)' => InFlush(f, m)
        /\ \A k \in Nat : InVersion(k, m)' => InVersion(k, m)
    BY <2>1 DEF InFlush, InVersion
  <2>3. CASE Carries[h] # m
    <3>1. \A i \in Instance : InBatch(i, m)' => InBatch(i, m)
      BY <1>3, <2>3 DEF Accept, InBatch, TypeOK
    <3> QED BY <2>1, <2>2, <3>1, StaysPut
  <2>4. CASE Carries[h] = m
    <3>1. InHandler(h, m)
      BY <1>3, <2>4 DEF Accept, InHandler
    <3>2. \A i \in Instance : InBatch(i, m)' => i = On[From[h]]
      BY <1>3, <3>1 DEF Accept, OnePlace, InBatch, TypeOK
    <3>3. /\ \A k \in Handler : ~InHandler(k, m)'
          /\ \A f \in Flusher : ~InFlush(f, m)'
          /\ \A k \in Nat : ~InVersion(k, m)'
      BY <2>1, <2>2, <3>1, Zenon DEF OnePlace
    <3>4. m \in ids'
      BY <2>1, <3>1 DEF OnePlace, Nowhere
    <3> QED BY <3>2, <3>3, <3>4, Zenon DEF OnePlace
  <2> QED BY <2>3, <2>4
<1> QED BY <1>1, <1>2, <1>3 DEF HandlerStep

LEMMA OnceFlush ==
  ASSUME TypeOK, NEW m \in Msg, OnePlace(m), NEW f \in Flusher,
         FlushMove(f)
  PROVE  OnePlace(m)'
<1> USE RelayAssumption DEF ingest, batches, flushes, members, ghosts
<1>1. CASE TakeBatch(f)
  <2>1. /\ UNCHANGED <<ids, pc, log>>
        /\ \A i \in Instance : InBatch(i, m)' => InBatch(i, m) /\ i # Runs[f]
        /\ \A g \in Flusher : g # f /\ InFlush(g, m)' => InFlush(g, m)
        /\ InFlush(f, m)' => InBatch(Runs[f], m)
    BY <1>1 DEF TakeBatch, InBatch, InFlush, Goto, TypeOK
  <2>2. /\ \A h \in Handler : InHandler(h, m)' => InHandler(h, m)
        /\ \A k \in Nat : InVersion(k, m)' => InVersion(k, m)
    BY <2>1 DEF InHandler, InVersion
  <2>3. CASE ~InBatch(Runs[f], m)
    <3>1. \A g \in Flusher : InFlush(g, m)' => InFlush(g, m)
      BY <2>1, <2>3
    <3> QED BY <2>1, <2>2, <3>1, StaysPut
  <2>4. CASE InBatch(Runs[f], m)
    <3>1. Runs[f] \in Instance
      OBVIOUS
    <3>2. /\ \A h \in Handler : ~InHandler(h, m)'
          /\ \A i \in Instance : ~InBatch(i, m)'
          /\ \A k \in Nat : ~InVersion(k, m)'
          /\ \A g \in Flusher : InFlush(g, m)' => g = f
      BY <2>1, <2>2, <2>4, <3>1, Zenon DEF OnePlace
    <3>3. m \in ids'
      BY <2>1, <2>4, <3>1 DEF OnePlace, Nowhere
    <3> QED BY <3>2, <3>3, Zenon DEF OnePlace
  <2> QED BY <2>3, <2>4
<1>2. CASE Commit(f)
  <2>1. /\ UNCHANGED <<ids, pc, pending, fupd>> /\ fpc[f] = "commit"
        /\ \A g \in Flusher : InFlush(g, m)' => InFlush(g, m) /\ g # f
    BY <1>2 DEF Commit, InFlush, Goto, TypeOK
  <2>2. /\ \A h \in Handler : InHandler(h, m)' => InHandler(h, m)
        /\ \A i \in Instance : InBatch(i, m)' => InBatch(i, m)
    BY <2>1 DEF InHandler, InBatch
  <2>3. /\ log \in Seq(SUBSET Msg) /\ fupd[f] \in SUBSET Msg /\ log' = Append(log, fupd[f])
    BY <1>2 DEF Commit, TypeOK
  <2>4. \A k \in Nat : InVersion(k, m)' =>
          InVersion(k, m) \/ (k = Len(log) + 1 /\ InFlush(f, m))
    <3>1. /\ Len(log') = Len(log) + 1 /\ Len(log) \in Nat
          /\ \A k \in 1..Len(log) : log'[k] = log[k]
          /\ log'[Len(log) + 1] = fupd[f]
      BY <2>3, AppendProperties
    <3> QED BY <2>1, <3>1 DEF InVersion, InFlush
  <2>5. CASE ~InFlush(f, m)
    <3>1. \A k \in Nat : InVersion(k, m)' => InVersion(k, m)
      BY <2>4, <2>5
    <3> QED BY <2>1, <2>2, <3>1, StaysPut
  <2>6. CASE InFlush(f, m)
    <3>1. /\ \A h \in Handler : ~InHandler(h, m)'
          /\ \A i \in Instance : ~InBatch(i, m)'
          /\ \A g \in Flusher : ~InFlush(g, m)'
      BY <2>1, <2>2, <2>6, Zenon DEF OnePlace
    <3>2. \A k \in Nat : InVersion(k, m)' => k = Len(log) + 1
      BY <2>4, <2>6 DEF OnePlace
    <3>3. m \in ids'
      BY <2>1, <2>6 DEF OnePlace, Nowhere
    <3> QED BY <3>1, <3>2, <3>3, Zenon DEF OnePlace
  <2> QED BY <2>5, <2>6
<1>3. ASSUME AskLock(f) \/ Applied(f) \/ WriteFails(f) \/ EmitLocal(f) \/ FindAbsent(f)
             \/ PushAbsent(f) \/ TrimQueue(f) \/ PushFails(f) \/ Publish(f)
      PROVE  OnePlace(m)'
  <2>1. UNCHANGED <<ids, pc, pending, log>>
    BY <1>3 DEF AskLock, Applied, WriteFails, EmitLocal, FindAbsent, PushAbsent, TrimQueue,
                PushFails, Publish
  <2>2. ASSUME NEW g \in Flusher, InFlush(g, m)' PROVE InFlush(g, m)
    <3> USE <2>2 DEF InFlush, Goto, EndFlush, InWrite, TypeOK
    <3>1. CASE AskLock(f)
      BY <3>1 DEF AskLock
    <3>2. CASE Applied(f) \/ WriteFails(f) \/ EmitLocal(f)
      BY <3>2 DEF Applied, WriteFails, EmitLocal
    <3>3. CASE FindAbsent(f) \/ PushAbsent(f) \/ Publish(f)
      BY <3>3 DEF FindAbsent, PushAbsent, Publish
    <3>4. CASE TrimQueue(f) \/ PushFails(f)
      BY <3>4 DEF TrimQueue, PushFails
    <3> QED BY <1>3, <3>1, <3>2, <3>3, <3>4
  <2> QED BY <2>1, <2>2, StaysPut DEF InHandler, InBatch, InVersion
<1> QED BY <1>1, <1>2, <1>3 DEF FlushMove, FlushStep, Unpublished

LEMMA OnceStep == TypeOK /\ OnceInv /\ [Next]_vars => OnceInv'
<1> SUFFICES ASSUME TypeOK, OnceInv, [Next]_vars, NEW m \in Msg, m \notin lapsed'
             PROVE  OnePlace(m)'
  BY DEF OnceInv
<1>1. lapsed \subseteq lapsed'
  <2>1. \A h \in Handler : Arrive(h) \/ HandlerStep(h) \/ Refuse(h) => UNCHANGED lapsed
    BY DEF HandlerStep, Arrive, Dedup, ReadSeq, WriteSeq, Accept, Refuse, ghosts
  <2>2. \A f \in Flusher : FlushMove(f) => UNCHANGED lapsed
    BY DEF FlushMove, FlushStep, Unpublished, TakeBatch, AskLock, Commit, Applied, EmitLocal,
           FindAbsent, PushAbsent, TrimQueue, PushFails, Publish, WriteFails, ghosts
  <2>3. \A w \in wire : Receive(w) \/ Lose(w) => UNCHANGED lapsed
    BY DEF Receive, Lose, ghosts
  <2>4. DedupLapses \/ LockLapses \/ UNCHANGED vars => lapsed \subseteq lapsed'
    BY DEF DedupLapses, LockLapses, vars, ghosts
  <2>5. (\E u \in User : SeqLapses(u)) \/ (\E i \in Instance : Crash(i)) => UNCHANGED lapsed
    BY DEF SeqLapses, Crash, ghosts
  <2> QED BY <2>1, <2>2, <2>3, <2>4, <2>5 DEF Next, Relay, Harmless, FlushMove, FlushStep
<1>2. OnePlace(m)
  BY <1>1 DEF OnceInv
<1>3. ASSUME NEW w \in wire, Receive(w) \/ Lose(w) PROVE OnePlace(m)'
  <2>1. UNCHANGED <<ids, pc, pending, fpc, fupd, log>>
    BY <1>3 DEF Receive, Lose, ingest, batches, flushes
  <2> QED BY <1>2, <2>1, StaysPut DEF InHandler, InBatch, InFlush, InVersion
<1>4. CASE DedupLapses
  <2>1. m \notin ids /\ UNCHANGED <<pc, pending, fpc, fupd, log>>
    BY <1>4 DEF DedupLapses, batches, flushes
  <2> QED BY <1>2, <2>1, StaysPut DEF InHandler, InBatch, InFlush, InVersion
<1>5. CASE LockLapses \/ UNCHANGED vars \/ \E u \in User : SeqLapses(u)
  <2>1. UNCHANGED <<ids, pc, pending, fpc, fupd, log>>
    BY <1>5 DEF LockLapses, SeqLapses, vars, ingest, batches, flushes
  <2> QED BY <1>2, <2>1, StaysPut DEF InHandler, InBatch, InFlush, InVersion
<1>6. ASSUME NEW i \in Instance, Crash(i) PROVE OnePlace(m)'
  <2>1. UNCHANGED <<ids, log>>
    BY <1>6 DEF Crash
  <2>2. /\ \A h \in Handler : InHandler(h, m)' => InHandler(h, m)
        /\ \A j \in Instance : InBatch(j, m)' => InBatch(j, m)
        /\ \A f \in Flusher : InFlush(f, m)' => InFlush(f, m)
    BY <1>6 DEF Crash, InHandler, InBatch, InFlush, TypeOK
  <2> QED BY <1>2, <2>1, <2>2, StaysPut DEF InVersion
<1> QED BY <1>2, <1>3, <1>4, <1>5, <1>6, OnceIngest, OnceFlush DEF Next, Relay, Harmless, FlushMove, FlushStep

(* A message whose dedup entry never lapsed is stored in one version at    *)
(* most, however often and wherever it arrives.                            *)
THEOREM DedupSafe == Spec => []StoredOnce
<1>1. Init => OnceInv
  BY DEF Init, Start, OnceInv, OnePlace, Nowhere, InHandler, InBatch, InFlush, InVersion
<1>2. TypeOK /\ OnceInv => StoredOnce
  <2> SUFFICES ASSUME TypeOK, OnceInv, NEW j \in 1..Len(log), NEW k \in 1..Len(log), j # k,
                      NEW m \in log[j], m \in log[k], m \notin lapsed
               PROVE  FALSE
    BY DEF StoredOnce
  <2>1. Len(log) \in Nat /\ j \in Nat /\ k \in Nat /\ m \in Msg
    BY DEF TypeOK
  <2>2. InVersion(j, m) /\ InVersion(k, m)
    BY DEF InVersion
  <2> QED BY <2>1, <2>2 DEF OnceInv, OnePlace
<1> QED BY <1>1, <1>2, OnceStep, RelayTypeCorrect, PTL DEF Spec
-----------------------------------------------------------------------------
(* Queues of absent users: a version not pushed yet is in none of them.    *)

ToPush(f, u) ==
  \/ fpc[f] \in {"compact", "emit", "absent"}
  \/ fpc[f] \in {"push", "trim"} /\ u \in away[f]

Within(u) == Len(queue[u]) <= QueueCap + Cardinality(Trimming(u)) \/ u \in overfull
Distinct(q) == \A j, k \in 1..Len(q) : j # k => q[j] # q[k]

QueueInv ==
  /\ \A u \in User : Within(u) /\ Distinct(queue[u])
  /\ \A f \in Flusher, u \in User : ToPush(f, u) =>
       \A k \in 1..Len(queue[u]) : queue[u][k].ver # fver[f]

LEMMA QueueQuiet ==
  ASSUME QueueInv, queue' = queue, overfull \subseteq overfull',
         \A u \in User \ overfull' : Trimming(u)' = Trimming(u),
         \A f \in Flusher, u \in User : ToPush(f, u)' => ToPush(f, u) /\ fver'[f] = fver[f]
  PROVE  QueueInv'
<1>1. ASSUME NEW u \in User PROVE Within(u)' /\ Distinct(queue[u])'
  BY DEF QueueInv, Within, Distinct
<1>2. ASSUME NEW f \in Flusher, NEW u \in User, ToPush(f, u)', NEW k \in 1..Len(queue'[u])
      PROVE  queue'[u][k].ver # fver'[f]
  BY <1>2 DEF QueueInv
<1> QED BY <1>1, <1>2 DEF QueueInv

(* One queue after the push of an event it does not hold.                  *)
LEMMA PushedDistinct ==
  ASSUME NEW q \in Seq(Event), NEW e \in Event,
         \A k \in 1..Len(q) : q[k] # e, Distinct(q)
  PROVE  Distinct(<<e>> \o q)
<1> DEFINE t == <<e>> \o q
<1>1. /\ Len(t) = Len(q) + 1 /\ Len(q) \in Nat
      /\ \A k \in 1..Len(q) + 1 : t[k] = IF k = 1 THEN e ELSE q[k - 1]
  BY PushedElements
<1> HIDE DEF t
<1>2. ASSUME NEW j \in 1..Len(t), NEW k \in 1..Len(t), j # k PROVE t[j] # t[k]
  <2>1. /\ t[j] = IF j = 1 THEN e ELSE q[j - 1]
        /\ t[k] = IF k = 1 THEN e ELSE q[k - 1]
    BY <1>1
  <2>2. CASE j = 1
    <3>1. k - 1 \in 1..Len(q)
      BY <1>1, <1>2, <2>2
    <3> QED BY <1>2, <2>1, <2>2, <3>1
  <2>3. CASE k = 1
    <3>1. j - 1 \in 1..Len(q)
      BY <1>1, <1>2, <2>3
    <3> QED BY <1>2, <2>1, <2>3, <3>1
  <2>4. CASE j # 1 /\ k # 1
    <3>1. j - 1 \in 1..Len(q) /\ k - 1 \in 1..Len(q) /\ j - 1 # k - 1
      BY <1>1, <1>2, <2>4
    <3> QED BY <2>1, <2>4, <3>1 DEF Distinct
  <2> QED BY <2>2, <2>3, <2>4
<1>3. Distinct(t)
  BY <1>2 DEF Distinct
<1> QED BY <1>3 DEF t

LEMMA TrimmingFinite ==
  ASSUME NEW u
  PROVE  IsFiniteSet(Trimming(u)) /\ Cardinality(Trimming(u)) \in Nat
<1>1. Trimming(u) \in SUBSET Flusher
  BY DEF Trimming
<1> QED BY <1>1, RelayAssumption, FS_Subset, FS_CardinalityType

LEMMA QueuePush ==
  ASSUME TypeOK, EventInv, FreshInv, QueueInv, NEW f \in Flusher, PushAbsent(f)
  PROVE  QueueInv'
<1>1. PICK u \in away[f] :
        /\ queue' = [queue EXCEPT ![u] = <<Ev(f)>> \o queue[u]]
        /\ whom' = [whom EXCEPT ![f] = u] /\ away' = [away EXCEPT ![f] = away[f] \ {u}]
        /\ fpc[f] = "push" /\ fpc' = [fpc EXCEPT ![f] = "trim"] /\ overfull' = overfull
        /\ fver' = fver
  BY DEF PushAbsent, Goto, ghosts
<1>2. /\ u \in User /\ queue \in [User -> Seq(Event)] /\ Ev(f) \in Event
      /\ Ev(f).ver = fver[f] /\ Committed(f) /\ ToPush(f, u)
      /\ fpc' = [fpc EXCEPT ![f] = "trim"] /\ fpc[f] = "push"
      /\ fpc \in [Flusher -> {"idle", "lock", "emit", "absent", "push", "trim", "publish"} \cup InWrite]
      /\ away \in [Flusher -> SUBSET User] /\ whom \in [Flusher -> User \cup {None}]
  BY <1>1 DEF TypeOK, Ev, Event, Committed, ToPush
<1>3. /\ Len(queue'[u]) = Len(queue[u]) + 1 /\ Len(queue[u]) \in Nat
      /\ \A k \in 1..Len(queue[u]) + 1 :
           queue'[u][k] = IF k = 1 THEN Ev(f) ELSE queue[u][k - 1]
      /\ \A v \in User \ {u} : queue'[v] = queue[v]
  <2>1. queue'[u] = <<Ev(f)>> \o queue[u] /\ \A v \in User \ {u} : queue'[v] = queue[v]
    BY <1>1, <1>2
  <2> QED BY <1>2, <2>1, PushedElements
<1>4. Distinct(queue'[u])
  <2>1. /\ queue'[u] = <<Ev(f)>> \o queue[u] /\ Distinct(queue[u])
        /\ \A k \in 1..Len(queue[u]) : queue[u][k] # Ev(f)
    BY <1>1, <1>2 DEF QueueInv
  <2>2. PICK q, e : q = queue[u] /\ e = Ev(f) /\ q \in Seq(Event) /\ e \in Event
    BY <1>2, Zenon
  <2> QED BY <2>1, <2>2, PushedDistinct
<1>5. Trimming(u)' = Trimming(u) \cup {f} /\ f \notin Trimming(u)
  BY <1>1, <1>2 DEF Trimming
<1>6. \A v \in User \ {u} : Trimming(v)' = Trimming(v)
  BY <1>1, <1>2 DEF Trimming
<1>7. Cardinality(Trimming(u)') = Cardinality(Trimming(u)) + 1
  BY <1>5, TrimmingFinite, FS_AddElement
<1>8. ASSUME NEW v \in User PROVE Within(v)' /\ Distinct(queue'[v])
  <2>1. CASE v = u
    <3>1. Within(u)'
      BY <1>1, <1>2, <1>3, <1>7, TrimmingFinite, RelayAssumption DEF QueueInv, Within
    <3> QED BY <1>4, <2>1, <3>1
  <2>2. CASE v # u
    BY <1>1, <1>3, <1>6, <2>2 DEF QueueInv, Within
  <2> QED BY <2>1, <2>2
<1>10. ASSUME NEW g \in Flusher, NEW v \in User, ToPush(g, v)', NEW k \in 1..Len(queue'[v])
       PROVE  queue'[v][k].ver # fver'[g]
  <2>1. ToPush(g, v) /\ Committed(g) /\ ~(g = f /\ v = u)
    BY <1>1, <1>2, <1>10 DEF ToPush, Committed
  <2>2. \A j \in 1..Len(queue[v]) : queue[v][j].ver # fver[g]
    BY <2>1 DEF QueueInv
  <2>3. CASE v # u
    BY <1>1, <1>3, <1>10, <2>2, <2>3
  <2>4. CASE v = u
    <3>1. fver[g] # fver[f]
      BY <1>2, <2>1, <2>4 DEF FreshInv
    <3>2. CASE k = 1
      BY <1>1, <1>2, <1>3, <2>4, <3>1, <3>2
    <3>3. CASE k # 1
      <4>1. k - 1 \in 1..Len(queue[u]) /\ queue'[u][k] = queue[u][k - 1]
        BY <1>3, <1>10, <2>4, <3>3
      <4> QED BY <1>1, <2>2, <2>4, <4>1
    <3> QED BY <3>2, <3>3
  <2> QED BY <2>3, <2>4
<1> QED BY <1>8, <1>10 DEF QueueInv

LEMMA QueueTrim ==
  ASSUME TypeOK, QueueInv, NEW f \in Flusher, TrimQueue(f)
  PROVE  QueueInv'
<1>0. PICK u \in User : whom[f] = u
  BY DEF TrimQueue, TypeOK
<1>1. /\ queue' = [queue EXCEPT ![u] = Trimmed(queue[u])] /\ overfull' = overfull \ {u}
      /\ fpc[f] = "trim" /\ fpc'[f] \in {"push", "publish"} /\ away'[f] \in {away[f], {}}
      /\ \A g \in Flusher \ {f} : fpc'[g] = fpc[g] /\ away'[g] = away[g] /\ whom'[g] = whom[g]
      /\ fver' = fver
  BY <1>0 DEF TrimQueue, Goto, TypeOK
<1>2. u \in User /\ queue \in [User -> Seq(Event)]
  BY DEF TypeOK
<1>3. /\ Len(queue'[u]) <= QueueCap /\ Len(queue'[u]) <= Len(queue[u])
      /\ Len(queue'[u]) \in Nat /\ Len(queue[u]) \in Nat
      /\ \A k \in 1..Len(queue'[u]) : queue'[u][k] = queue[u][k]
      /\ \A v \in User \ {u} : queue'[v] = queue[v]
  <2>1. queue'[u] = Trimmed(queue[u]) /\ \A v \in User \ {u} : queue'[v] = queue[v]
    BY <1>1, <1>2
  <2> QED BY <1>2, <2>1, TrimmedElements
<1>4. \A v \in User \ {u} : Trimming(v)' = Trimming(v)
  BY <1>0, <1>1 DEF Trimming
<1>5. ASSUME NEW v \in User PROVE Within(v)' /\ Distinct(queue'[v])
  <2>1. CASE v = u
    <3>1. Cardinality(Trimming(u)') \in Nat
      <4>1. Trimming(u)' \in SUBSET Flusher
        BY DEF Trimming
      <4> QED BY <4>1, RelayAssumption, FS_Subset, FS_CardinalityType
    <3>2. Len(queue'[u]) <= QueueCap + Cardinality(Trimming(u)')
      <4>1. QueueCap \in Nat
        BY RelayAssumption
      <4> QED BY <1>3, <3>1, <4>1
    <3>3. Within(v)'
      BY <2>1, <3>2 DEF Within
    <3>4. Distinct(queue'[u])
      BY <1>2, <1>3 DEF QueueInv, Distinct
    <3> QED BY <2>1, <3>3, <3>4
  <2>2. CASE v # u
    BY <1>1, <1>3, <1>4, <2>2 DEF QueueInv, Within
  <2> QED BY <2>1, <2>2
<1>7. ASSUME NEW g \in Flusher, NEW v \in User, ToPush(g, v)', NEW k \in 1..Len(queue'[v])
      PROVE  queue'[v][k].ver # fver'[g]
  <2>1. ToPush(g, v)
    BY <1>1, <1>7 DEF ToPush
  <2>2. \A j \in 1..Len(queue[v]) : queue[v][j].ver # fver[g]
    BY <2>1 DEF QueueInv
  <2>3. k \in 1..Len(queue[v]) /\ queue'[v][k] = queue[v][k]
    BY <1>3, <1>7
  <2> QED BY <1>1, <2>2, <2>3
<1> QED BY <1>5, <1>7 DEF QueueInv

LEMMA QueueFlush ==
  ASSUME TypeOK, EventInv, FreshInv, QueueInv, NEW f \in Flusher, FlushMove(f)
  PROVE  QueueInv'
<1> USE RelayAssumption DEF flushes
<1>1. CASE PushAbsent(f)
  BY <1>1, QueuePush
<1>2. CASE Commit(f)
  <2>1. /\ queue' = queue /\ fver'[f] = Len(log) + 1 /\ Len(log) \in Nat /\ overfull' = overfull
        /\ \A g \in Flusher \ {f}, u \in User : ToPush(g, u)' => ToPush(g, u) /\ fver'[g] = fver[g]
        /\ \A u \in User : Trimming(u)' = Trimming(u)
    BY <1>2 DEF Commit, Goto, ToPush, Trimming, TypeOK, ghosts, QueueInv
  <2>2. \A u \in User : \A k \in 1..Len(queue[u]) : queue[u][k].ver \in 1..Len(log)
    BY DEF EventInv, SeenIsStored, IsVersion
  <2>3. ASSUME NEW g \in Flusher, NEW u \in User, ToPush(g, u)', NEW k \in 1..Len(queue'[u])
        PROVE  queue'[u][k].ver # fver'[g]
    <3>1. CASE g = f
      BY <2>1, <2>2, <3>1
    <3>2. CASE g # f
      BY <2>1, <2>3, <3>2 DEF QueueInv
    <3> QED BY <3>1, <3>2
  <2>4. \A u \in User : Within(u)' /\ Distinct(queue'[u])
    BY <2>1 DEF QueueInv, Within
  <2> QED BY <2>1, <2>3, <2>4 DEF QueueInv
<1>3. ASSUME TakeBatch(f) \/ AskLock(f) \/ Applied(f) \/ WriteFails(f) \/ EmitLocal(f)
             \/ FindAbsent(f) \/ PushFails(f) \/ Publish(f)
      PROVE  QueueInv'
  <2>1. queue' = queue
    BY <1>3 DEF TakeBatch, AskLock, Applied, WriteFails, EmitLocal, FindAbsent, PushFails, Publish
  <2>2. /\ \A g \in Flusher, u \in User : ToPush(g, u)' => ToPush(g, u) /\ fver'[g] = fver[g]
        /\ overfull \subseteq overfull' /\ \A u \in User \ overfull' : Trimming(u)' = Trimming(u)
    <3> USE DEF ToPush, Trimming, Goto, EndFlush, TypeOK, ghosts, QueueInv
    <3>1. CASE TakeBatch(f)
      BY <3>1 DEF TakeBatch
    <3>2. CASE AskLock(f)
      <4>1. CASE lock = None
        BY <3>2, <4>1 DEF AskLock
      <4>2. CASE lock # None
        BY <3>2, <4>2 DEF AskLock
      <4> QED BY <4>1, <4>2
    <3>3. CASE Applied(f)
      BY <3>3 DEF Applied
    <3>4. CASE WriteFails(f)
      BY <3>4 DEF WriteFails, InWrite
    <3>5. CASE EmitLocal(f)
      BY <3>5 DEF EmitLocal
    <3>6. CASE FindAbsent(f)
      BY <3>6 DEF FindAbsent
    <3>7. CASE Publish(f)
      BY <3>7 DEF Publish
    <3>8. CASE PushFails(f)
      BY <3>8 DEF PushFails
    <3> QED BY <1>3, <3>1, <3>2, <3>3, <3>4, <3>5, <3>6, <3>7, <3>8
  <2> QED BY <2>1, <2>2, QueueQuiet
<1>4. CASE TrimQueue(f)
  BY <1>4, QueueTrim
<1> QED BY <1>1, <1>2, <1>3, <1>4 DEF FlushMove, FlushStep, Unpublished

LEMMA QueueStep == TypeOK /\ EventInv /\ FreshInv /\ QueueInv /\ [Next]_vars => QueueInv'
<1> SUFFICES ASSUME TypeOK, EventInv, FreshInv, QueueInv, [Next]_vars PROVE QueueInv'
  OBVIOUS
<1>1. UNCHANGED <<flushes, queue, overfull>> => QueueInv'
  <2> SUFFICES ASSUME UNCHANGED <<flushes, queue, overfull>> PROVE QueueInv'
    OBVIOUS
  <2>1. UNCHANGED <<fpc, fver, away, whom, queue, overfull>>
    BY DEF flushes
  <2>2. \A u \in User : Trimming(u)' = Trimming(u)
    BY <2>1 DEF Trimming
  <2>3. \A f \in Flusher, u \in User : ToPush(f, u)' => ToPush(f, u) /\ fver'[f] = fver[f]
    BY <2>1 DEF ToPush
  <2> QED BY <2>1, <2>2, <2>3, QueueQuiet
<1>2. ASSUME NEW h \in Handler, Arrive(h) \/ HandlerStep(h) \/ Refuse(h) PROVE QueueInv'
  BY <1>1, <1>2 DEF HandlerStep, Arrive, Dedup, ReadSeq, WriteSeq, Accept, Refuse, ghosts
<1>3. ASSUME NEW w \in wire, Receive(w) \/ Lose(w) PROVE QueueInv'
  BY <1>1, <1>3 DEF Receive, Lose, ghosts
<1>4. CASE DedupLapses \/ LockLapses \/ UNCHANGED vars \/ \E u \in User : SeqLapses(u)
  BY <1>1, <1>4 DEF DedupLapses, LockLapses, SeqLapses, vars, ghosts
<1>5. ASSUME NEW i \in Instance, Crash(i) PROVE QueueInv'
  <2>1. /\ queue' = queue
        /\ overfull' = overfull \cup {whom[f] : f \in {g \in Dying(i) : fpc[g] = "trim"}}
        /\ \A f \in Flusher : IF Runs[f] = i THEN fpc'[f] = "idle"
                               ELSE /\ fpc'[f] = fpc[f] /\ fver'[f] = fver[f]
                                    /\ away'[f] = away[f] /\ whom'[f] = whom[f]
    BY <1>5 DEF Crash
  <2>2. ASSUME NEW u \in User \ overfull' PROVE Trimming(u)' = Trimming(u)
    <3>1. \A f \in Trimming(u) : Runs[f] # i
      BY <2>1, <2>2 DEF Trimming, Dying
    <3> QED BY <2>1, <3>1 DEF Trimming
  <2>3. \A f \in Flusher, u \in User : ToPush(f, u)' => ToPush(f, u) /\ fver'[f] = fver[f]
    BY <2>1 DEF ToPush
  <2> QED BY <2>1, <2>2, <2>3, QueueQuiet
<1> QED BY <1>2, <1>3, <1>4, <1>5, QueueFlush DEF Next, Relay, Harmless, FlushMove, FlushStep

(* The queue of an absent user is over its cap by no more than the LTRIMs  *)
(* still to come, unless one was given up since the last, and holds no     *)
(* event twice, for any cap (queueForOffline).                             *)
THEOREM QueuesBounded == Spec => []QueueBounded
<1>1. Init => EventInv /\ FreshInv
  BY RelayAssumption DEF Init, Start, EventInv, SeenIsStored, FreshInv, DeliveredOnce, Committed
<1>2. Init => QueueInv
  <2> SUFFICES ASSUME Init PROVE QueueInv
    OBVIOUS
  <2>1. \A u \in User : Len(queue[u]) = 0 /\ Distinct(queue[u])
    BY DEF Init, Start, Distinct
  <2>2. \A u \in User : Within(u)
    BY <2>1, TrimmingFinite, RelayAssumption DEF Within
  <2> QED BY <2>1, <2>2 DEF QueueInv, Init, Start, ToPush
<1>3. QueueInv => QueueBounded
  BY DEF QueueInv, QueueBounded, Within, Distinct
<1> QED BY <1>1, <1>2, <1>3, EventStep, FreshStep, QueueStep, RelayTypeCorrect, PTL DEF Spec
=============================================================================
