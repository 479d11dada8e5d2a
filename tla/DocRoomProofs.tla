--------------------------- MODULE DocRoomProofs ---------------------------
(***************************************************************************)
(* Theorems about DocRoom, for every finite set of sockets, any capacity,  *)
(* any instances, messages and flushes, and every fault.                   *)
(***************************************************************************)
EXTENDS DocRoom, UpdateRelayProofs

LEMMA RelayIsNext == RelayStep => Next
BY DEF RelayStep, Relay, Next

(* The relay leaves rooms, subscriptions and presence alone.               *)
LEMMA RelayKeepsMembers == RelayStep => UNCHANGED <<room, joined, subs, online>>
<1> USE DEF members
<1>1. ASSUME NEW h \in Handler, Arrive(h) \/ HandlerStep(h) \/ Refuse(h)
      PROVE  UNCHANGED <<room, joined, subs, online>>
  BY <1>1 DEF Arrive, HandlerStep, Dedup, ReadSeq, WriteSeq, Accept, Refuse
<1>2. ASSUME NEW f \in Flusher, FlushMove(f)
      PROVE  UNCHANGED <<room, joined, subs, online>>
  BY <1>2 DEF FlushMove, FlushStep, Unpublished, TakeBatch, AskLock, Commit, Applied, WriteFails,
              EmitLocal, FindAbsent, PushAbsent, TrimQueue, PushFails, Publish
<1>3. ASSUME NEW w \in wire, Receive(w) \/ Lose(w)
      PROVE  UNCHANGED <<room, joined, subs, online>>
  BY <1>3 DEF Receive, Lose
<1>4. (DedupLapses \/ LockLapses \/ \E u \in User : SeqLapses(u))
      => UNCHANGED <<room, joined, subs, online>>
  BY DEF DedupLapses, LockLapses, SeqLapses
<1> QED BY <1>1, <1>2, <1>3, <1>4 DEF RelayStep, Harmless, FlushMove, FlushStep
-----------------------------------------------------------------------------
LEMMA PresentCounted ==
  ASSUME NEW i \in Instance
  PROVE  /\ IsFiniteSet({c \in Present : On[c] = i})
         /\ Cardinality({c \in Present : On[c] = i}) \in Nat
<1>1. {c \in Present : On[c] = i} \in SUBSET Socket
  BY RoomAssumption
<1> QED BY <1>1, RoomAssumption, FS_Subset, FS_CardinalityType

LEMMA RoomTypeInit == RoomInit => RoomTypeOK
<1> SUFFICES ASSUME RoomInit PROVE RoomTypeOK
  OBVIOUS
<1>1. TypeOK
  BY RelayAssumption, RoomAssumption DEF RoomInit, Start, Joined, TypeOK, Answers, InWrite
<1>2. refs \in [Instance -> Nat]
  BY PresentCounted DEF RoomInit
<1> QED BY <1>1, <1>2, RoomAssumption DEF RoomInit, RoomTypeOK, Entered

LEMMA RoomTypeJoin ==
  ASSUME RoomTypeOK, NEW c \in Socket, Connect(c) \/ Ask(c) \/ Deny(c) \/ JoinStep(c)
  PROVE  RoomTypeOK'
<1> USE RelayAssumption DEF RoomTypeOK, TypeOK, Entered, JoinAt, Try, Fails, Spend
<1> USE DEF relay, ingest, batches, flushes, members, ghosts, rooms, calls, channel, inits
<1>0. CASE Connect(c)
  <2>1. connected' \in SUBSET Socket /\ quota' \in Nat
    BY <1>0 DEF Connect
  <2> QED BY <1>0, <2>1 DEF Connect
<1>1. CASE Ask(c)
  BY <1>1 DEF Ask
<1>2. CASE Deny(c)
  <2>1. quota' \in Nat
    BY <1>2 DEF Deny
  <2> QED BY <1>2, <2>1 DEF Deny
<1>3. CASE Enter(c)
  BY ZenonT(60), <1>3 DEF Enter
<1>4. CASE MarkOnline(c)
  <2>1. online' \in SUBSET User /\ quota' \in Nat
    BY <1>4 DEF MarkOnline
  <2> QED BY <1>4, <2>1 DEF MarkOnline
<1>5. CASE DrainOne(c)
  <2> DEFINE q == queue[UserOf[c]]
  <2>1. UserOf[c] \in User /\ q \in Seq(Event) /\ Len(q) \in Nat /\ Len(q) > 0
    BY <1>5 DEF DrainOne
  <2>2. q[Len(q)] \in Event
    BY <2>1, ElementOfSeq
  <2>3. SubSeq(q, 1, Len(q) - 1) \in Seq(Event)
    BY <2>1
  <2>4. queue' \in [User -> Seq(Event)]
    BY <1>5, <2>1, <2>3 DEF DrainOne
  <2>5. got' \in [Socket -> SUBSET Event]
    BY <1>5, <2>2 DEF DrainOne
  <2> HIDE DEF q
  <2> QED BY <1>5, <2>4, <2>5 DEF DrainOne
<1>6. CASE Drained(c)
  <2>1. quota' \in Nat /\ jpc' \in [Socket -> {"away", "out", "asked"} \cup Entered]
    BY <1>6 DEF Drained
  <2> QED BY <1>6, <2>1 DEF Drained
<1>7. CASE SendInit(c)
  <2>1. quota' \in Nat /\ jpc' \in [Socket -> {"away", "out", "asked"} \cup Entered]
    BY <1>7 DEF SendInit
  <2>2. Len(log) \in Nat
    OBVIOUS
  <2>3. ASSUME NEW n \in 0..Len(log), Inited(c, n)
        PROVE  init' \in [Socket -> Nat] /\ base' \in [Socket -> Nat] /\ behind' \in SUBSET Socket
    BY <2>2, <2>3 DEF Inited
  <2>4. init' \in [Socket -> Nat] /\ base' \in [Socket -> Nat] /\ behind' \in SUBSET Socket
    <3>1. Len(log) \in 0..Len(log)
      BY <2>2
    <3>2. CASE UNCHANGED init /\ base' = [base EXCEPT ![c] = Len(log)] /\ behind' = behind \cup {c}
      BY <2>2, <3>2
    <3> QED BY ONLY <1>7, <2>3, <3>1, <3>2 DEF SendInit
  <2> QED BY <1>7, <2>1, <2>4 DEF SendInit
<1>8. CASE Subscribe(c)
  <2>1. orders' \in [Instance -> Seq({"sub", "unsub"})]
    <3>1. \A i \in Instance : Append(orders[i], "sub") \in Seq({"sub", "unsub"})
      BY AppendProperties
    <3> QED BY <1>8, <3>1 DEF Subscribe
  <2>2. refs' \in [Instance -> Nat]
    BY <1>8 DEF Subscribe
  <2> QED BY <1>8, <2>1, <2>2 DEF Subscribe
<1> QED BY <1>0, <1>1, <1>2, <1>3, <1>4, <1>5, <1>6, <1>7, <1>8 DEF JoinStep

LEMMA RoomTypeLeave ==
  ASSUME RoomTypeOK, NEW c \in Socket, LeaveRoom(c) \/ LeaveStep(c) \/ Disconnect(c)
  PROVE  RoomTypeOK'
<1> USE RelayAssumption DEF RoomTypeOK, TypeOK, Entered, LeaveAt, Try, Fails, Spend
<1> USE DEF relay, ingest, batches, flushes, members, ghosts, rooms, calls, channel, inits
<1>1. CASE LeaveRoom(c)
  <2>1. room' \in SUBSET Socket /\ quota' \in Nat
    BY <1>1 DEF LeaveRoom
  <2> QED BY <1>1, <2>1 DEF LeaveRoom
<1>2. CASE Forget(c)
  <2>1. online' \in SUBSET User /\ quota' \in Nat
    BY <1>2 DEF Forget
  <2> QED BY <1>2, <2>1 DEF Forget
<1>3. CASE Unsubscribe(c)
  <2>1. orders' \in [Instance -> Seq({"sub", "unsub"})]
    <3>1. \A i \in Instance : Append(orders[i], "unsub") \in Seq({"sub", "unsub"})
      BY AppendProperties
    <3> QED BY <1>3, <3>1 DEF Unsubscribe
  <2>2. refs' \in [Instance -> Nat] /\ robbed' \in SUBSET Instance
    BY <1>3 DEF Unsubscribe
  <2>3. jpc' \in [Socket -> {"away", "out", "asked"} \cup Entered]
    BY <1>3 DEF Unsubscribe, Uncounted
  <2> QED BY <1>3, <2>1, <2>2, <2>3 DEF Unsubscribe, Uncounted
<1>4. CASE MarkOffline(c)
  <2>1. online' \in SUBSET User /\ quota' \in Nat
    BY <1>4 DEF MarkOffline
  <2> QED BY <1>4, <2>1 DEF MarkOffline
<1>5. CASE Disconnect(c)
  BY <1>5 DEF Disconnect
<1> QED BY <1>1, <1>2, <1>3, <1>4, <1>5 DEF LeaveStep

LEMMA RoomTypeExecute ==
  ASSUME RoomTypeOK, NEW i \in Instance, Execute(i)
  PROVE  RoomTypeOK'
<1> USE DEF RoomTypeOK, TypeOK, Try, Fails, Spend
<1> USE DEF relay, ingest, batches, flushes, ghosts, calls, inits
<1>1. Tail(orders[i]) \in Seq({"sub", "unsub"})
  BY DEF Execute
<1>2. orders' \in [Instance -> Seq({"sub", "unsub"})]
  BY <1>1 DEF Execute
<1>3. subs' \in SUBSET Instance /\ deaf' \in SUBSET Instance /\ quota' \in Nat
  BY DEF Execute
<1> QED BY <1>2, <1>3 DEF Execute

LEMMA GivenUpType ==
  ASSUME RoomTypeOK, NEW vs \in SUBSET Nat, NEW S, GivenUp(vs, S)
  PROVE  /\ unheard' \in [Instance -> SUBSET Nat]
         /\ \A i \in Instance : unheard[i] \subseteq unheard'[i]
         /\ \A i \in Instance \cap S : vs \subseteq unheard'[i]
BY DEF GivenUp, RoomTypeOK

(* What the relay does to the versions given up.                           *)
LEMMA RelayGivesUp ==
  ASSUME RoomTypeOK, RelayStep
  PROVE  /\ unheard' \in [Instance -> SUBSET Nat]
         /\ \A i \in Instance : unheard[i] \subseteq unheard'[i]
<1>1. CASE UNCHANGED unheard
  BY <1>1 DEF RoomTypeOK
<1>2. ASSUME NEW f \in Flusher, NEW S, GivenUp({fver[f]}, S)
      PROVE  /\ unheard' \in [Instance -> SUBSET Nat]
             /\ \A i \in Instance : unheard[i] \subseteq unheard'[i]
  <2>1. {fver[f]} \in SUBSET Nat
    BY DEF RoomTypeOK, TypeOK
  <2> QED BY <1>2, <2>1, GivenUpType
<1>3. ASSUME NEW w \in wire, NEW S, GivenUp({w.event.ver}, S)
      PROVE  /\ unheard' \in [Instance -> SUBSET Nat]
             /\ \A i \in Instance : unheard[i] \subseteq unheard'[i]
  <2>1. {w.event.ver} \in SUBSET Nat
    BY DEF RoomTypeOK, TypeOK, Event
  <2> QED BY <1>3, <2>1, GivenUpType
<1> QED BY <1>1, <1>2, <1>3 DEF RelayStep

LEMMA CrashGivesUp ==
  ASSUME RoomTypeOK, NEW i \in Instance, CrashInstance(i)
  PROVE  /\ unheard' \in [Instance -> SUBSET Nat]
         /\ \A j \in Instance : unheard[j] \subseteq unheard'[j]
         /\ \A j \in Instance, f \in Flusher : Runs[f] = i => fver[f] \in unheard'[j]
<1>1. {fver[f] : f \in Dying(i)} \in SUBSET Nat
  BY DEF RoomTypeOK, TypeOK, Dying
<1>2. GivenUp({fver[f] : f \in Dying(i)}, Instance)
  BY DEF CrashInstance
<1>3. \A f \in Flusher : Runs[f] = i => fver[f] \in {fver[g] : g \in Dying(i)}
  BY DEF Dying
<1> QED BY <1>1, <1>2, <1>3, GivenUpType

LEMMA RoomTypeStep == RoomTypeOK /\ [RoomNext]_roomVars => RoomTypeOK'
<1> SUFFICES ASSUME RoomTypeOK, [RoomNext]_roomVars PROVE RoomTypeOK'
  OBVIOUS
<1>1. CASE RelayStep /\ UNCHANGED rooms
  <2>1. TypeOK'
    BY <1>1, RelayIsNext, TypeStep DEF RoomTypeOK
  <2>2. unheard' \in [Instance -> SUBSET Nat]
    BY <1>1, RelayGivesUp
  <2> QED BY <1>1, <2>1, <2>2 DEF RoomTypeOK, rooms, calls, channel, inits
<1>2. ASSUME NEW i \in Instance, CrashInstance(i) PROVE RoomTypeOK'
  <2>1. TypeOK'
    BY <1>2, TypeStep DEF RoomTypeOK, CrashInstance, Next
  <2>2. unheard' \in [Instance -> SUBSET Nat]
    BY <1>2, CrashGivesUp
  <2>3. orders' \in [Instance -> Seq({"sub", "unsub"})]
    BY <1>2 DEF CrashInstance, RoomTypeOK
  <2> QED BY <1>2, <2>1, <2>2, <2>3 DEF RoomTypeOK, CrashInstance, Entered, inits
<1>3. CASE UNCHANGED roomVars
  <2>1. TypeOK'
    BY <1>3, TypeStep DEF RoomTypeOK, roomVars
  <2> QED BY <1>3, <2>1 DEF RoomTypeOK, roomVars, rooms, calls, channel, inits
<1> QED BY <1>1, <1>2, <1>3, RoomTypeJoin, RoomTypeLeave, RoomTypeExecute DEF RoomNext

(* Every variable of relay and rooms keeps its type.                       *)
THEOREM RoomTypeCorrect == RoomSpec => []RoomTypeOK
BY RoomTypeInit, RoomTypeStep, PTL DEF RoomSpec
-----------------------------------------------------------------------------
LEMMA OneMore ==
  ASSUME NEW S, NEW x, IsFiniteSet(S)
  PROVE  Cardinality(S \cup {x}) \in Nat /\ Cardinality(S \cup {x}) <= Cardinality(S) + 1
<1>1. Cardinality(S) \in Nat
  BY FS_CardinalityType
<1>2. CASE x \in S
  <2>1. S \cup {x} = S
    BY <1>2
  <2> QED BY <1>1, <2>1
<1>3. CASE x \notin S
  <2>1. Cardinality(S \cup {x}) = Cardinality(S) + 1
    BY <1>3, FS_AddElement
  <2> QED BY <1>1, <2>1
<1> QED BY <1>2, <1>3

(* Only Enter grows a room, by one socket, after counting it.              *)
LEMMA HereFinite ==
  ASSUME RoomTypeOK, NEW i \in Instance
  PROVE  IsFiniteSet(Here(i)) /\ Cardinality(Here(i)) \in Nat
<1>1. Here(i) \in SUBSET Socket
  BY DEF Here, RoomTypeOK, TypeOK
<1> QED BY <1>1, RoomAssumption, FS_Subset, FS_CardinalityType

LEMMA ShrunkRoom ==
  ASSUME RoomTypeOK, RoomWithinCapacity, room' \subseteq room
  PROVE  RoomWithinCapacity'
<1> SUFFICES ASSUME NEW i \in Instance PROVE Cardinality(Here(i)') <= Capacity
  BY DEF RoomWithinCapacity
<1>1. Here(i)' \in SUBSET Here(i)
  BY DEF Here
<1>2. Cardinality(Here(i)') <= Cardinality(Here(i)) /\ Cardinality(Here(i)') \in Nat
  BY <1>1, HereFinite, FS_Subset, FS_CardinalityType
<1> QED BY <1>2, HereFinite, RoomAssumption DEF RoomWithinCapacity

LEMMA CapacityStep ==
  RoomTypeOK /\ RoomWithinCapacity /\ [RoomNext]_roomVars => RoomWithinCapacity'
<1> SUFFICES ASSUME RoomTypeOK, RoomWithinCapacity, [RoomNext]_roomVars
             PROVE  RoomWithinCapacity'
  OBVIOUS
<1>1. CASE RelayStep
  BY <1>1, RelayKeepsMembers, ShrunkRoom
<1>2. ASSUME NEW c \in Socket, Enter(c) PROVE RoomWithinCapacity'
  <2>1. CASE room' = room
    BY <2>1, ShrunkRoom
  <2>2. CASE room' # room
    <3>0. On[c] \in Instance /\ Cardinality(Here(On[c])) \in Nat
      BY HereFinite, RelayAssumption
    <3>1. Cardinality(Here(On[c])) < Capacity /\ room' = room \cup {c}
      <4>1. /\ ~(Cardinality(Here(On[c])) >= Capacity)
            /\ room' = room \cup ({c} \cap connected)
        BY <1>2, <2>2 DEF Enter
      <4> QED BY <2>2, <3>0, <4>1, RoomAssumption
    <3> SUFFICES ASSUME NEW i \in Instance PROVE Cardinality(Here(i)') <= Capacity
      BY DEF RoomWithinCapacity
    <3>2. CASE i = On[c]
      <4>1. Here(i)' = Here(i) \cup {c}
        BY <3>1, <3>2 DEF Here
      <4>2. IsFiniteSet(Here(i)) /\ Cardinality(Here(i)) \in Nat
        BY HereFinite
      <4>3. /\ Cardinality(Here(i) \cup {c}) <= Cardinality(Here(i)) + 1
            /\ Cardinality(Here(i) \cup {c}) \in Nat
        BY <4>2, OneMore
      <4> QED BY <3>1, <3>2, <4>1, <4>2, <4>3, RoomAssumption
    <3>3. CASE i # On[c]
      <4>1. Here(i)' = Here(i)
        BY <3>1, <3>3 DEF Here
      <4> QED BY <4>1 DEF RoomWithinCapacity
    <3> QED BY <3>2, <3>3
  <2> QED BY <2>1, <2>2
<1>3. ASSUME NEW c \in Socket,
             \/ Connect(c) \/ Ask(c) \/ Deny(c) \/ MarkOnline(c) \/ DrainOne(c) \/ Drained(c)
             \/ SendInit(c) \/ Subscribe(c) \/ LeaveRoom(c) \/ LeaveStep(c) \/ Disconnect(c)
      PROVE  RoomWithinCapacity'
  <2>1. room' \subseteq room
    BY <1>3 DEF Connect, Ask, Deny, MarkOnline, DrainOne, Drained, SendInit, Subscribe, LeaveRoom,
                LeaveStep, Forget, Unsubscribe, MarkOffline, Disconnect, members
  <2> QED BY <2>1, ShrunkRoom
<1>6. ASSUME NEW i \in Instance, Execute(i) PROVE RoomWithinCapacity'
  <2>1. room' \subseteq room
    BY <1>6 DEF Execute
  <2> QED BY <2>1, ShrunkRoom
<1>4. ASSUME NEW i \in Instance, CrashInstance(i) PROVE RoomWithinCapacity'
  <2>1. room' \subseteq room
    BY <1>4 DEF CrashInstance, Crash
  <2> QED BY <2>1, ShrunkRoom
<1>5. CASE UNCHANGED roomVars
  BY <1>5, ShrunkRoom DEF roomVars, vars, members
<1> QED BY <1>1, <1>2, <1>3, <1>4, <1>5, <1>6 DEF RoomNext, JoinStep

(* The check of doc:join and the entry it guards are one step: no          *)
(* interleaving of joins, leaves and lost connections overfills a room.    *)
THEOREM RoomsBounded == RoomSpec => []RoomWithinCapacity
<1>1. RoomInit => RoomWithinCapacity
  <2>1. RoomInit => \A i \in Instance : Here(i) = {c \in Present : On[c] = i}
    BY DEF RoomInit, Start, Joined, Here
  <2> QED BY <2>1, RoomAssumption DEF RoomWithinCapacity
<1> QED BY <1>1, CapacityStep, RoomTypeInit, RoomTypeStep, PTL DEF RoomSpec
-----------------------------------------------------------------------------
(* subRefs counts at least the sockets whose join has ended and whose      *)
(* leave has not, and an instance with a reference is subscribed or about  *)
(* to be, as far as its last SUBSCRIBE did not fail.                       *)
Ins(i) == {c \in Socket : On[c] = i /\ jpc[c] = "in"}
Counted(i) == i \notin robbed => Cardinality(Ins(i)) <= refs[i]
Ordered(i) ==
  refs[i] > 0 => IF orders[i] = <<>> THEN i \in subs \cup deaf ELSE Last(orders[i]) = "sub"
RefInv == \A i \in Instance : Counted(i) /\ Ordered(i)

LEMMA InsFinite ==
  ASSUME NEW i \in Instance
  PROVE  IsFiniteSet(Ins(i)) /\ Cardinality(Ins(i)) \in Nat
<1>1. Ins(i) \in SUBSET Socket
  BY DEF Ins
<1> QED BY <1>1, RoomAssumption, FS_Subset, FS_CardinalityType

(* The last order after one more, and after the first is carried out.      *)
LEMMA LastOrder ==
  ASSUME NEW S, NEW q \in Seq(S), NEW x \in S
  PROVE  /\ Append(q, x) # <<>> /\ Last(Append(q, x)) = x
         /\ q # <<>> /\ Tail(q) # <<>> => Last(Tail(q)) = Last(q)
         /\ q # <<>> /\ Tail(q) = <<>> => Head(q) = Last(q)
<1>1. Append(q, x) # <<>> /\ Last(Append(q, x)) = x
  BY AppendProperties DEF Last
<1>2. ASSUME q # <<>>
      PROVE  /\ Len(q) \in Nat /\ Len(q) >= 1 /\ Len(Tail(q)) = Len(q) - 1 /\ Tail(q) \in Seq(S)
             /\ \A k \in 1..Len(q) - 1 : Tail(q)[k] = q[k + 1]
             /\ Head(q) = q[1]
  BY <1>2, HeadTailProperties
<1>3. ASSUME q # <<>>, Tail(q) # <<>> PROVE Last(Tail(q)) = Last(q)
  <2>1. Len(Tail(q)) # 0
    BY <1>2, <1>3, EmptySeq
  <2> QED BY <1>2, <1>3, <2>1 DEF Last
<1>4. ASSUME q # <<>>, Tail(q) = <<>> PROVE Head(q) = Last(q)
  <2>1. Len(Tail(q)) = 0
    BY <1>4, EmptySeq
  <2>2. Len(q) = 1
    BY <1>2, <1>4, <2>1
  <2> QED BY <1>2, <1>4, <2>2 DEF Last
<1> QED BY <1>1, <1>3, <1>4

(* Steps that neither end a join nor touch a reference, an order or a      *)
(* subscription.                                                           *)
LEMMA RefsIdle ==
  ASSUME RefInv, UNCHANGED <<channel, subs>>,
         \A c \in Socket : jpc[c] = "in" <=> jpc'[c] = "in"
  PROVE  RefInv'
<1>1. \A i \in Instance : Ins(i)' = Ins(i)
  BY DEF Ins
<1>2. UNCHANGED <<refs, orders, deaf, robbed, subs>>
  BY DEF channel
<1>3. \A i \in Instance : Counted(i)'
  BY <1>1, <1>2 DEF RefInv, Counted
<1>4. \A i \in Instance : Ordered(i)'
  BY <1>2 DEF RefInv, Ordered
<1> QED BY <1>3, <1>4 DEF RefInv

LEMMA RefJoin ==
  ASSUME RoomTypeOK, RefInv, NEW c \in Socket, Connect(c) \/ Ask(c) \/ Deny(c) \/ JoinStep(c)
  PROVE  RefInv'
<1>1. CASE Subscribe(c)
  <2>0. PICK i \in Instance : i = On[c]
    BY RelayAssumption
  <2>1. /\ refs \in [Instance -> Nat] /\ jpc[c] # "in"
        /\ jpc' = [jpc EXCEPT ![c] = "in"]
        /\ refs' = [refs EXCEPT ![i] = refs[i] + 1]
        /\ jpc \in [Socket -> {"away", "out", "asked"} \cup Entered]
        /\ UNCHANGED <<subs, deaf, robbed>>
    BY <1>1, <2>0 DEF Subscribe, RoomTypeOK, JoinAt, members
  <2>2. Ins(i)' = Ins(i) \cup {c} /\ \A k \in Instance \ {i} : Ins(k)' = Ins(k)
    BY <2>0, <2>1 DEF Ins
  <2>3. /\ Cardinality(Ins(i) \cup {c}) <= Cardinality(Ins(i)) + 1
        /\ Cardinality(Ins(i) \cup {c}) \in Nat /\ Cardinality(Ins(i)) \in Nat
    BY InsFinite, OneMore
  <2>4. ASSUME NEW k \in Instance PROVE Counted(k)'
    <3>1. CASE k = i
      <4>1. i \notin robbed => Cardinality(Ins(i)') <= refs'[i]
        BY <2>1, <2>2, <2>3 DEF RefInv, Counted
      <4> QED BY <2>1, <3>1, <4>1 DEF Counted
    <3>2. CASE k # i
      BY <2>1, <2>2, <3>2 DEF RefInv, Counted
    <3> QED BY <3>1, <3>2
  <2>5. orders \in [Instance -> Seq({"sub", "unsub"})]
    BY DEF RoomTypeOK
  <2>6. orders' = IF refs[i] = 0 THEN [orders EXCEPT ![i] = Append(orders[i], "sub")] ELSE orders
    BY <1>1, <2>0 DEF Subscribe
  <2>7. ASSUME NEW k \in Instance PROVE Ordered(k)'
    <3>1. CASE k = i /\ refs[i] = 0
      <4>1. orders'[i] = Append(orders[i], "sub")
        BY <2>5, <2>6, <3>1
      <4>2. orders'[i] # <<>> /\ Last(orders'[i]) = "sub"
        BY <2>5, <4>1, LastOrder
      <4> QED BY <3>1, <4>2 DEF Ordered
    <3>2. CASE ~(k = i /\ refs[i] = 0)
      <4>1. orders'[k] = orders[k] /\ (refs'[k] > 0 => refs[k] > 0)
        BY <2>1, <2>5, <2>6, <3>2
      <4> QED BY <2>1, <4>1 DEF RefInv, Ordered
    <3> QED BY <3>1, <3>2
  <2> QED BY <2>4, <2>7 DEF RefInv
<1>2. CASE ~Subscribe(c)
  <2>1. UNCHANGED <<channel, subs>>
    BY <1>2 DEF Connect, Ask, Deny, JoinStep, Enter, MarkOnline, DrainOne, Drained, SendInit,
                members, rooms
  <2>2. \A d \in Socket : jpc[d] = "in" <=> jpc'[d] = "in"
    <3> USE DEF JoinAt, RoomTypeOK
    <3>1. CASE Connect(c) \/ Ask(c) \/ Deny(c)
      BY <3>1 DEF Connect, Ask, Deny
    <3>2. CASE Enter(c)
      BY <3>2 DEF Enter
    <3>3. CASE MarkOnline(c) \/ Drained(c) \/ SendInit(c)
      BY <3>3 DEF MarkOnline, Drained, SendInit
    <3>4. CASE DrainOne(c)
      BY <3>4 DEF DrainOne, rooms, calls
    <3> QED BY <1>2, <3>1, <3>2, <3>3, <3>4 DEF JoinStep
  <2> QED BY <2>1, <2>2, RefsIdle
<1> QED BY <1>1, <1>2

LEMMA RefLeave ==
  ASSUME RoomTypeOK, RefInv, NEW c \in Socket,
         LeaveRoom(c) \/ LeaveStep(c) \/ Disconnect(c)
  PROVE  RefInv'
<1>1. CASE Unsubscribe(c)
  <2>0. PICK i \in Instance : i = On[c]
    BY RelayAssumption
  <2>1. /\ refs \in [Instance -> Nat] /\ UNCHANGED <<subs, deaf>>
        /\ refs' = [refs EXCEPT ![i] = IF refs[i] <= 1 THEN 0 ELSE refs[i] - 1]
        /\ jpc' = [jpc EXCEPT ![c] = IF jpc[c] = "in" THEN "out" ELSE jpc[c]]
        /\ robbed' = IF jpc[c] # "in" /\ refs[i] > 0 THEN robbed \cup {i} ELSE robbed
        /\ jpc \in [Socket -> {"away", "out", "asked"} \cup Entered]
    BY <1>1, <2>0 DEF Unsubscribe, Uncounted, RoomTypeOK, members
  <2>2. /\ IsFiniteSet(Ins(i)) /\ Cardinality(Ins(i)) \in Nat
        /\ \A k \in Instance \ {i} : Ins(k)' = Ins(k)
    BY <2>0, <2>1, InsFinite DEF Ins
  <2>3. i \notin robbed' => Cardinality(Ins(i)') <= refs'[i]
    <3>1. CASE jpc[c] = "in"
      <4>1. Ins(i)' = Ins(i) \ {c} /\ c \in Ins(i) /\ robbed' = robbed
        BY <2>0, <2>1, <3>1 DEF Ins
      <4>2. Cardinality(Ins(i) \ {c}) = Cardinality(Ins(i)) - 1
        BY <2>2, <4>1, FS_RemoveElement
      <4> QED BY <2>1, <2>2, <4>1, <4>2 DEF RefInv, Counted
    <3>2. CASE jpc[c] # "in" /\ refs[i] = 0
      <4>1. Ins(i)' = Ins(i)
        BY <2>1, <3>2 DEF Ins
      <4> QED BY <2>1, <3>2, <4>1 DEF RefInv, Counted
    <3>3. CASE jpc[c] # "in" /\ refs[i] # 0
      BY <2>1, <3>3
    <3> QED BY <3>1, <3>2, <3>3
  <2>4. ASSUME NEW k \in Instance PROVE Counted(k)'
    <3>1. CASE k = i
      BY <2>3, <3>1 DEF Counted
    <3>2. CASE k # i
      BY <2>1, <2>2, <3>2 DEF RefInv, Counted
    <3> QED BY <3>1, <3>2
  <2>5. /\ orders \in [Instance -> Seq({"sub", "unsub"})]
        /\ orders' = IF refs[i] <= 1 THEN [orders EXCEPT ![i] = Append(orders[i], "unsub")] ELSE orders
    BY <1>1, <2>0 DEF Unsubscribe, RoomTypeOK
  <2>6. ASSUME NEW k \in Instance, refs'[k] > 0 PROVE orders'[k] = orders[k] /\ refs[k] > 0
    BY <2>1, <2>5, <2>6
  <2>7. \A k \in Instance : Ordered(k)'
    BY <2>1, <2>6 DEF RefInv, Ordered
  <2> QED BY <2>4, <2>7 DEF RefInv
<1>2. CASE LeaveRoom(c) \/ Forget(c) \/ MarkOffline(c) \/ Disconnect(c)
  <2>1. UNCHANGED <<channel, subs, jpc>>
    BY <1>2 DEF LeaveRoom, Forget, MarkOffline, Disconnect
  <2> QED BY <2>1, RefsIdle
<1> QED BY <1>1, <1>2 DEF LeaveStep

LEMMA RefExecute ==
  ASSUME RoomTypeOK, RefInv, NEW i \in Instance, Execute(i)
  PROVE  RefInv'
<1>1. /\ orders[i] # <<>> /\ orders' = [orders EXCEPT ![i] = Tail(orders[i])]
      /\ UNCHANGED <<refs, robbed, jpc>>
      /\ orders \in [Instance -> Seq({"sub", "unsub"})]
      /\ \A k \in Instance \ {i} : k \in subs \cup deaf => k \in subs' \cup deaf'
      /\ Head(orders[i]) = "sub" => i \in subs' \cup deaf'
  BY DEF Execute, RoomTypeOK, calls
<1>2. \A k \in Instance : Counted(k)'
  BY <1>1 DEF RefInv, Counted, Ins
<1>3. ASSUME NEW k \in Instance PROVE Ordered(k)'
  <2>1. CASE k # i
    BY <1>1, <2>1 DEF RefInv, Ordered
  <2>2. CASE k = i
    <3>1. refs[i] > 0 => Last(orders[i]) = "sub"
      BY <1>1 DEF RefInv, Ordered
    <3>2. orders'[i] = Tail(orders[i]) /\ orders[i] \in Seq({"sub", "unsub"})
      BY <1>1
    <3>3. /\ orders'[i] # <<>> => Last(orders'[i]) = Last(orders[i])
          /\ orders'[i] = <<>> => Head(orders[i]) = Last(orders[i])
      <4>1. "sub" \in {"sub", "unsub"}
        OBVIOUS
      <4> QED BY <1>1, <3>2, <4>1, LastOrder
    <3>4. refs'[i] > 0 => IF orders'[i] = <<>> THEN i \in subs' \cup deaf' ELSE Last(orders'[i]) = "sub"
      BY <1>1, <3>1, <3>3
    <3> QED BY <2>2, <3>4 DEF Ordered
  <2> QED BY <2>1, <2>2
<1> QED BY <1>2, <1>3 DEF RefInv

LEMMA RefCrash ==
  ASSUME RoomTypeOK, RefInv, NEW i \in Instance, CrashInstance(i)
  PROVE  RefInv'
<1>1. /\ refs' = [refs EXCEPT ![i] = 0] /\ subs' = subs \ {i}
      /\ orders' = [orders EXCEPT ![i] = <<>>] /\ deaf' = deaf \ {i} /\ robbed' = robbed \ {i}
      /\ jpc' = [c \in Socket |-> IF On[c] = i /\ jpc[c] # "away" THEN "out" ELSE jpc[c]]
      /\ refs \in [Instance -> Nat] /\ orders \in [Instance -> Seq({"sub", "unsub"})]
  BY DEF CrashInstance, Crash, RoomTypeOK
<1>2. Ins(i)' = {} /\ \A k \in Instance \ {i} : Ins(k)' = Ins(k)
  BY <1>1 DEF Ins
<1>3. ASSUME NEW k \in Instance PROVE Counted(k)'
  <2>1. CASE k = i
    <3>1. Cardinality(Ins(i)') <= refs'[i]
      BY <1>1, <1>2, FS_EmptySet
    <3> QED BY <2>1, <3>1 DEF Counted
  <2>2. CASE k # i
    BY <1>1, <1>2, <2>2 DEF RefInv, Counted
  <2> QED BY <2>1, <2>2
<1>4. \A k \in Instance : Ordered(k)'
  BY <1>1 DEF RefInv, Ordered
<1> QED BY <1>3, <1>4 DEF RefInv

LEMMA RefStep == RoomTypeOK /\ RefInv /\ [RoomNext]_roomVars => RefInv'
<1> SUFFICES ASSUME RoomTypeOK, RefInv, [RoomNext]_roomVars PROVE RefInv'
  OBVIOUS
<1>1. CASE RelayStep /\ UNCHANGED rooms
  BY <1>1, RelayKeepsMembers, RefsIdle DEF rooms, calls
<1>2. CASE UNCHANGED roomVars
  BY <1>2, RefsIdle DEF roomVars, vars, members, rooms, calls
<1> QED BY <1>1, <1>2, RefJoin, RefLeave, RefExecute, RefCrash DEF RoomNext

LEMMA RefsSubscribe ==
  RoomTypeOK /\ RefInv => SettledIsSubscribed
<1> SUFFICES ASSUME RoomTypeOK, RefInv, NEW c \in Socket, Settled(c), NEW i, i = On[c], i \notin robbed
             PROVE  IF orders[i] = <<>> THEN i \in subs \cup deaf ELSE Last(orders[i]) = "sub"
  BY DEF SettledIsSubscribed
<1>1. i \in Instance /\ c \in Ins(i) /\ refs[i] \in Nat
  BY RelayAssumption DEF Settled, Ins, RoomTypeOK
<1>2. Cardinality(Ins(i)) # 0 /\ Cardinality(Ins(i)) \in Nat
  BY <1>1, InsFinite, FS_EmptySet
<1>3. refs[i] > 0
  BY <1>1, <1>2 DEF RefInv, Counted
<1> QED BY <1>1, <1>3 DEF RefInv, Ordered

(* An instance with a settled socket is subscribed to the document's       *)
(* channel, or SUBSCRIBE is the last of the orders still to be carried     *)
(* out - unless the last one failed or a leave of a socket that was not    *)
(* counted took a reference.                                               *)
THEOREM Subscribed == RoomSpec => []SettledIsSubscribed
<1>1. RoomInit => RefInv
  <2>1. RoomInit => \A i \in Instance : Ins(i) = {c \in Present : On[c] = i}
    BY RoomAssumption DEF RoomInit, Ins
  <2>2. ASSUME RoomInit, NEW i \in Instance PROVE Counted(i)
    <3>1. refs[i] = Cardinality({c \in Present : On[c] = i}) /\ Ins(i) = {c \in Present : On[c] = i}
      BY <2>1, <2>2 DEF RoomInit
    <3> QED BY <3>1, PresentCounted DEF Counted
  <2>3. ASSUME RoomInit, NEW i \in Instance PROVE Ordered(i)
    <3>1. CASE {c \in Present : On[c] = i} = {}
      <4>1. refs[i] = Cardinality({c \in Present : On[c] = i})
        BY <2>3 DEF RoomInit
      <4>2. refs[i] = 0
        BY <3>1, <4>1, FS_EmptySet
      <4> QED BY <4>2 DEF Ordered
    <3>2. CASE {c \in Present : On[c] = i} # {}
      BY <2>3, <3>2 DEF RoomInit, Start, Joined, Ordered
    <3> QED BY <3>1, <3>2
  <2> QED BY <2>2, <2>3 DEF RefInv
<1>2. RoomTypeOK /\ RefInv /\ [RoomNext]_roomVars => RefInv'
  BY RefStep
<1> QED BY <1>1, <1>2, RefsSubscribe, RoomTypeInit, RoomTypeStep, PTL DEF RoomSpec
-----------------------------------------------------------------------------
(* A flush that has not committed carries no version.                      *)
ZeroInv == \A f \in Flusher : fpc[f] \in {"idle", "lock", "commit"} => fver[f] = 0

LEMMA ZeroStep == RoomTypeOK /\ ZeroInv /\ [RoomNext]_roomVars => ZeroInv'
<1> SUFFICES ASSUME RoomTypeOK, ZeroInv, [RoomNext]_roomVars PROVE ZeroInv'
  OBVIOUS
<1> USE DEF RoomTypeOK, TypeOK, ZeroInv, flushes
<1>1. CASE UNCHANGED <<fpc, fver>>
  BY <1>1
<1>2. ASSUME NEW f \in Flusher, FlushMove(f) PROVE ZeroInv'
  <2> USE DEF Goto, EndFlush
  <2>1. CASE TakeBatch(f)
    BY <2>1 DEF TakeBatch
  <2>2. CASE AskLock(f)
    BY <2>2 DEF AskLock
  <2>3. CASE Commit(f)
    BY <2>3 DEF Commit
  <2>4. CASE Applied(f) \/ EmitLocal(f) \/ PushAbsent(f)
    BY <2>4 DEF Applied, EmitLocal, PushAbsent
  <2>5. CASE FindAbsent(f)
    BY <2>5 DEF FindAbsent
  <2>6. CASE TrimQueue(f) \/ PushFails(f)
    BY <2>6 DEF TrimQueue, PushFails
  <2>7. CASE Publish(f) \/ WriteFails(f)
    BY <2>7 DEF Publish, WriteFails
  <2> QED BY <1>2, <2>1, <2>2, <2>3, <2>4, <2>5, <2>6, <2>7 DEF FlushMove, FlushStep, Unpublished
<1>3. ASSUME NEW h \in Handler, Arrive(h) \/ HandlerStep(h) \/ Refuse(h) PROVE ZeroInv'
  BY <1>1, <1>3 DEF Arrive, HandlerStep, Dedup, ReadSeq, WriteSeq, Accept, Refuse
<1>4. ASSUME NEW w \in wire, Receive(w) \/ Lose(w) PROVE ZeroInv'
  BY <1>1, <1>4 DEF Receive, Lose
<1>5. CASE DedupLapses \/ LockLapses \/ \E u \in User : SeqLapses(u)
  BY <1>1, <1>5 DEF DedupLapses, LockLapses, SeqLapses
<1>6. CASE RelayStep
  BY <1>2, <1>3, <1>4, <1>5, <1>6 DEF RelayStep, Harmless, FlushMove, FlushStep
<1>7. ASSUME NEW c \in Socket, \/ Connect(c) \/ Ask(c) \/ Deny(c) \/ JoinStep(c)
                               \/ LeaveRoom(c) \/ LeaveStep(c) \/ Disconnect(c)
      PROVE  ZeroInv'
  BY <1>1, <1>7 DEF Connect, Ask, Deny, JoinStep, Enter, MarkOnline, DrainOne, Drained, SendInit,
     Subscribe, LeaveRoom, LeaveStep, Forget, Unsubscribe, MarkOffline, Disconnect, relay
<1>8. ASSUME NEW i \in Instance, Execute(i) PROVE ZeroInv'
  BY <1>1, <1>8 DEF Execute, relay
<1>9. ASSUME NEW i \in Instance, CrashInstance(i) PROVE ZeroInv'
  BY <1>9 DEF CrashInstance, Crash
<1>10. CASE UNCHANGED roomVars
  BY <1>1, <1>10 DEF roomVars, vars
<1> QED BY <1>6, <1>7, <1>8, <1>9, <1>10 DEF RoomNext
-----------------------------------------------------------------------------
(* From its y-init on, every stored version has reached a socket in the    *)
(* room, or is accounted for.                                              *)
At(c) == c \in room /\ jpc[c] \in {"sent", "in"}
CatchInv == \A c \in Socket : At(c) => \A v \in 1..Len(log) : Reached(c, v)

Carried(f, v, c) ==
  /\ fver[f] = v
  /\ IF Runs[f] = On[c] THEN fpc[f] \in {"compact", "emit"} ELSE fpc[f] # "idle"
OnWire(w, v, c) == w.to = On[c] /\ w.origin # w.to /\ w.event.ver = v
Came(v, c) ==
  \/ \E f \in Flusher : Carried(f, v, c)
  \/ \E w \in wire : OnWire(w, v, c)
  \/ \E e \in got[c] : e.ver = v
  \/ v \in unheard[On[c]]

LEMMA ReachedIsCame ==
  ASSUME NEW c, NEW v
  PROVE  /\ Reached(c, v) <=> v <= init[c] \/ (c \in behind /\ v <= base[c]) \/ Came(v, c)
         /\ Reached(c, v)' <=> v <= init'[c] \/ (c \in behind' /\ v <= base'[c]) \/ Came(v, c)'
BY DEF Reached, OnItsWay, Came, Carried, OnWire

Version == Nat \ {0}

(* A step that leaves the history and the y-inits alone keeps it when each *)
(* version that had come, or was on its way, still has or is.              *)
LEMMA CatchKept ==
  ASSUME RoomTypeOK, CatchInv, UNCHANGED <<log, init, base, behind>>,
         \A c \in Socket : At(c)' => At(c),
         \A c \in Socket, v \in Version : At(c)' /\ Came(v, c) => Came(v, c)'
  PROVE  CatchInv'
<1> SUFFICES ASSUME NEW c \in Socket, At(c)', NEW v \in 1..Len(log)' PROVE Reached(c, v)'
  BY DEF CatchInv
<1>1. Len(log) \in Nat
  BY DEF RoomTypeOK, TypeOK
<1>2. v \in 1..Len(log) /\ v \in Version
  BY <1>1 DEF Version
<1>3. Reached(c, v)
  BY <1>2 DEF CatchInv
<1>4. Came(v, c) => Came(v, c)'
  BY <1>2
<1> QED BY <1>3, <1>4, ReachedIsCame

(* The same for the relay, whose steps only add to what came: the flushes  *)
(* and the messages on their way are left to look at.                      *)
LEMMA RelayKept ==
  ASSUME RoomTypeOK, CatchInv, RelayStep, UNCHANGED <<rooms, log>>,
         \A c \in Socket : got[c] \subseteq got'[c],
         \A c \in room, v \in Version, f \in Flusher : Carried(f, v, c) => Came(v, c)',
         \A c \in room, v \in Version, w \in wire : OnWire(w, v, c) => Came(v, c)'
  PROVE  CatchInv'
<1>1. UNCHANGED <<room, jpc, init, base, behind>>
  BY RelayKeepsMembers DEF rooms, calls, inits
<1>2. \A i \in Instance : unheard[i] \subseteq unheard'[i]
  BY RelayGivesUp
<1>3. \A c \in Socket : At(c)' <=> At(c)
  BY <1>1 DEF At
<1>4. ASSUME NEW c \in Socket, NEW v \in Version, c \in room, Came(v, c) PROVE Came(v, c)'
  <2>1. CASE \E e \in got[c] : e.ver = v
    <3>1. \E e \in got'[c] : e.ver = v
      BY <2>1
    <3> QED BY <3>1 DEF Came
  <2>2. CASE v \in unheard[On[c]]
    <3>1. v \in unheard'[On[c]]
      BY <1>2, <2>2, RelayAssumption
    <3> QED BY <3>1 DEF Came
  <2> QED BY <1>4, <2>1, <2>2 DEF Came
<1>5. \A c \in Socket, v \in Version : At(c)' /\ Came(v, c) => Came(v, c)'
  BY <1>1, <1>4 DEF At
<1> QED BY <1>1, <1>3, <1>5, CatchKept

LEMMA GivenUpTo ==
  ASSUME RoomTypeOK, NEW v \in Nat, NEW S, GivenUp({v}, S), NEW c \in Socket, On[c] \in S
  PROVE  Came(v, c)'
<1>1. On[c] \in Instance \cap S /\ {v} \in SUBSET Nat
  BY RelayAssumption
<1>2. {v} \subseteq unheard'[On[c]]
  BY <1>1, GivenUpType
<1> QED BY <1>2 DEF Came

LEMMA CatchHarmless ==
  ASSUME RoomTypeOK, ZeroInv, CatchInv, RelayStep, UNCHANGED <<rooms, log>>,
         UNCHANGED <<wire, got>>,
         NEW f \in Flusher, \A g \in Flusher \ {f} : fpc'[g] = fpc[g] /\ fver'[g] = fver[g],
         fpc[f] \in {"idle", "lock"} \/ (fver'[f] = fver[f] /\ fpc'[f] # "idle"
           /\ (fpc[f] \in {"compact", "emit"} => fpc'[f] \in {"compact", "emit"}))
  PROVE  CatchInv'
<1>1. ASSUME NEW c \in room, NEW v \in Version, NEW g \in Flusher, Carried(g, v, c)
      PROVE  Came(v, c)'
  <2>1. CASE g # f
    <3>1. Carried(g, v, c)'
      BY <1>1, <2>1 DEF Carried
    <3> QED BY <3>1 DEF Came
  <2>2. CASE g = f
    <3>1. fpc[f] \notin {"idle", "lock"}
      BY <1>1, <2>2 DEF Carried, ZeroInv, Version
    <3>2. Carried(f, v, c)'
      BY <1>1, <2>2, <3>1 DEF Carried
    <3> QED BY <3>2 DEF Came
  <2> QED BY <2>1, <2>2
<1>2. \A c \in room, v \in Version, w \in wire : OnWire(w, v, c) => Came(v, c)'
  BY DEF Came, OnWire
<1> QED BY <1>1, <1>2, RelayKept

LEMMA CatchFlush ==
  ASSUME RoomTypeOK, ZeroInv, CatchInv, RelayStep, UNCHANGED rooms, NEW f \in Flusher,
         \/ TakeBatch(f) \/ AskLock(f) \/ Applied(f) \/ FindAbsent(f) \/ PushAbsent(f)
         \/ TrimQueue(f) \/ PushFails(f)
  PROVE  CatchInv'
<1> USE DEF RoomTypeOK, TypeOK, Goto, EndFlush
<1>1. UNCHANGED <<log, wire, got>>
  BY DEF TakeBatch, AskLock, Applied, FindAbsent, PushAbsent, TrimQueue, PushFails
<1>2. \A g \in Flusher \ {f} : fpc'[g] = fpc[g] /\ fver'[g] = fver[g]
  <2>1. CASE TakeBatch(f) \/ AskLock(f)
    BY <2>1 DEF TakeBatch, AskLock
  <2>2. CASE Applied(f) \/ PushAbsent(f) \/ TrimQueue(f) \/ PushFails(f)
    BY <2>2 DEF Applied, PushAbsent, TrimQueue, PushFails
  <2>3. CASE FindAbsent(f)
    BY <2>3 DEF FindAbsent
  <2> QED BY <2>1, <2>2, <2>3
<1>3. CASE TakeBatch(f) \/ AskLock(f)
  <2>1. fpc[f] \in {"idle", "lock"}
    BY <1>3 DEF TakeBatch, AskLock
  <2> QED BY <1>1, <1>2, <2>1, CatchHarmless
<1>4. CASE Applied(f) \/ FindAbsent(f) \/ PushAbsent(f) \/ TrimQueue(f) \/ PushFails(f)
  <2>1. fver'[f] = fver[f]
    BY <1>4 DEF Applied, FindAbsent, PushAbsent, TrimQueue, PushFails
  <2>2. CASE Applied(f)
    <3>1. fpc[f] = "compact" /\ fpc'[f] = "emit"
      BY <2>2 DEF Applied
    <3> QED BY <1>1, <1>2, <2>1, <3>1, CatchHarmless
  <2>3. CASE FindAbsent(f)
    <3>1. fpc[f] = "absent" /\ fpc'[f] \in {"publish", "push"}
      BY <2>3 DEF FindAbsent
    <3> QED BY <1>1, <1>2, <2>1, <3>1, CatchHarmless
  <2>4. CASE PushAbsent(f)
    <3>1. fpc[f] = "push" /\ fpc'[f] = "trim"
      BY <2>4 DEF PushAbsent
    <3> QED BY <1>1, <1>2, <2>1, <3>1, CatchHarmless
  <2>5. CASE TrimQueue(f) \/ PushFails(f)
    <3>1. fpc[f] \in {"push", "trim"} /\ fpc'[f] \in {"publish", "push"}
      BY <2>5 DEF TrimQueue, PushFails
    <3> QED BY <1>1, <1>2, <2>1, <3>1, CatchHarmless
  <2> QED BY <1>4, <2>2, <2>3, <2>4, <2>5
<1> QED BY <1>3, <1>4

(* A commit adds a version, which its flush carries.                       *)
LEMMA CatchCommit ==
  ASSUME RoomTypeOK, ZeroInv, CatchInv, RelayStep, UNCHANGED <<rooms, unheard>>,
         NEW f \in Flusher, Commit(f)
  PROVE  CatchInv'
<1> USE DEF RoomTypeOK, TypeOK, Goto
<1>1. /\ fpc[f] = "commit" /\ fpc' = [fpc EXCEPT ![f] = "compact"]
      /\ fver' = [fver EXCEPT ![f] = Len(log) + 1] /\ log' = Append(log, fupd[f])
      /\ UNCHANGED <<got, wire, room, jpc, init, base, behind, unheard>>
  BY RelayKeepsMembers DEF Commit, rooms, calls, inits
<1>2. fpc'[f] = "compact" /\ fver'[f] = Len(log) + 1
  BY <1>1
<1>3. Len(log') = Len(log) + 1 /\ Len(log) \in Nat
  BY <1>1, AppendProperties
<1> SUFFICES ASSUME NEW c \in Socket, At(c)', NEW v \in 1..Len(log)' PROVE Reached(c, v)'
  BY DEF CatchInv
<1>4. CASE v = Len(log) + 1
  <2>1. Carried(f, v, c)'
    BY <1>2, <1>4 DEF Carried
  <2>2. Came(v, c)'
    BY <2>1 DEF Came
  <2> QED BY <2>2, ReachedIsCame
<1>5. CASE v # Len(log) + 1
  <2>1. v \in 1..Len(log) /\ v # 0 /\ At(c)
    BY <1>1, <1>3, <1>5 DEF At
  <2>2. Reached(c, v)
    BY <2>1 DEF CatchInv
  <2>3. ASSUME NEW g \in Flusher, Carried(g, v, c) PROVE Carried(g, v, c)'
    <3>1. g # f
      BY <1>1, <2>1, <2>3 DEF ZeroInv, Carried
    <3> QED BY <1>1, <2>3, <3>1 DEF Carried
  <2>4. Came(v, c) => Came(v, c)'
    BY <1>1, <2>3 DEF Came, OnWire
  <2> QED BY <1>1, <2>2, <2>4, ReachedIsCame
<1> QED BY <1>4, <1>5

(* What is emitted to the instance of a socket in the room has reached it. *)
LEMMA EmitReaches ==
  ASSUME RoomTypeOK, NEW i, NEW e, Emit(i, e), NEW c \in room, On[c] = i
  PROVE  e \in got'[c]
<1>1. c \in Socket
  BY DEF RoomTypeOK, TypeOK
<1> QED BY <1>1 DEF Emit

LEMMA EmitAdds ==
  ASSUME NEW i, NEW e, Emit(i, e)
  PROVE  \A c \in Socket : got[c] \subseteq got'[c]
BY DEF Emit

LEMMA CatchEmitLocal ==
  ASSUME RoomTypeOK, ZeroInv, CatchInv, RelayStep, UNCHANGED rooms, NEW f \in Flusher,
         EmitLocal(f)
  PROVE  CatchInv'
<1> USE DEF RoomTypeOK, TypeOK, Goto
<1>1. /\ UNCHANGED <<log, wire, fver>> /\ fpc[f] = "emit" /\ fpc' = [fpc EXCEPT ![f] = "absent"]
      /\ Emit(Runs[f], Ev(f))
  BY DEF EmitLocal
<1>2. ASSUME NEW c \in room, NEW v \in Version, NEW g \in Flusher, Carried(g, v, c)
      PROVE  Came(v, c)'
  <2>1. CASE g = f /\ Runs[f] = On[c]
    <3>1. Ev(f) \in got'[c]
      BY <1>1, <2>1, EmitReaches
    <3>2. Ev(f).ver = v
      BY <1>2, <2>1 DEF Ev, Carried
    <3> QED BY <3>1, <3>2 DEF Came
  <2>2. CASE ~(g = f /\ Runs[f] = On[c])
    <3>1. Carried(g, v, c)'
      BY <1>1, <1>2, <2>2 DEF Carried
    <3> QED BY <3>1 DEF Came
  <2> QED BY <2>1, <2>2
<1>3. \A c \in room, v \in Version, w \in wire : OnWire(w, v, c) => Came(v, c)'
  BY <1>1 DEF Came, OnWire
<1>4. \A c \in Socket : got[c] \subseteq got'[c]
  BY <1>1, EmitAdds
<1> QED BY <1>1, <1>2, <1>3, <1>4, RelayKept

LEMMA CatchPublish ==
  ASSUME RoomTypeOK, ZeroInv, CatchInv, RelayStep, UNCHANGED rooms, NEW f \in Flusher,
         Publish(f), GivenUp({fver[f]}, Missed(f))
  PROVE  CatchInv'
<1> USE DEF RoomTypeOK, TypeOK, Goto
<1>1. /\ UNCHANGED <<log, got>> /\ fpc[f] = "publish" /\ wire \subseteq wire'
      /\ \A g \in Flusher \ {f} : fpc'[g] = fpc[g] /\ fver'[g] = fver[g]
  BY DEF Publish, EndFlush
<1>2. ASSUME NEW c \in room, NEW v \in Version, NEW g \in Flusher, Carried(g, v, c)
      PROVE  Came(v, c)'
  <2>1. CASE g # f
    <3>1. Carried(g, v, c)'
      BY <1>1, <1>2, <2>1 DEF Carried
    <3> QED BY <3>1 DEF Came
  <2>2. CASE g = f
    <3>1. fver[f] = v /\ Runs[f] # On[c] /\ On[c] \in Instance /\ c \in Socket /\ v \in Nat
      BY <1>1, <1>2, <2>2, RelayAssumption DEF Carried
    <3> DEFINE m == [to |-> On[c], origin |-> Runs[f], event |-> Ev(f)]
    <3>2. CASE m \in wire'
      <4>1. m.to = On[c] /\ m.origin # m.to /\ m.event.ver = v
        BY <3>1 DEF Ev
      <4> HIDE DEF m
      <4>2. OnWire(m, v, c)
        BY <4>1 DEF OnWire
      <4>3. \E w \in wire' : w.to = On[c] /\ w.origin # w.to /\ w.event.ver = v
        BY <3>2, <4>1
      <4> QED BY <4>3 DEF Came, OnWire
    <3>3. CASE m \notin wire'
      <4>1. On[c] \in Missed(f)
        BY <3>1, <3>3 DEF Missed
      <4> QED BY <3>1, <4>1, GivenUpTo
    <3> QED BY <3>2, <3>3
  <2> QED BY <2>1, <2>2
<1>3. \A c \in room, v \in Version, w \in wire : OnWire(w, v, c) => Came(v, c)'
  BY <1>1 DEF Came, OnWire
<1> QED BY <1>1, <1>2, <1>3, RelayKept

LEMMA CatchWriteFails ==
  ASSUME RoomTypeOK, ZeroInv, CatchInv, RelayStep, UNCHANGED rooms, NEW f \in Flusher,
         WriteFails(f), GivenUp({fver[f]}, Instance)
  PROVE  CatchInv'
<1> USE DEF RoomTypeOK, TypeOK, Goto
<1>1. /\ UNCHANGED <<log, got, wire>>
      /\ \A g \in Flusher \ {f} : fpc'[g] = fpc[g] /\ fver'[g] = fver[g]
  BY DEF WriteFails, EndFlush
<1>2. ASSUME NEW c \in room, NEW v \in Version, NEW g \in Flusher, Carried(g, v, c)
      PROVE  Came(v, c)'
  <2>1. CASE g # f
    <3>1. Carried(g, v, c)'
      BY <1>1, <1>2, <2>1 DEF Carried
    <3> QED BY <3>1 DEF Came
  <2>2. CASE g = f
    <3>1. fver[f] = v /\ On[c] \in Instance /\ c \in Socket /\ v \in Nat
      BY <1>2, <2>2, RelayAssumption DEF Carried
    <3> QED BY <3>1, GivenUpTo
  <2> QED BY <2>1, <2>2
<1>3. \A c \in room, v \in Version, w \in wire : OnWire(w, v, c) => Came(v, c)'
  BY <1>1 DEF Came, OnWire
<1> QED BY <1>1, <1>2, <1>3, RelayKept

LEMMA CatchWire ==
  ASSUME RoomTypeOK, ZeroInv, CatchInv, RelayStep, UNCHANGED rooms, NEW x \in wire,
         Receive(x) \/ (Lose(x) /\ GivenUp({x.event.ver}, {x.to} \ {x.origin}))
  PROVE  CatchInv'
<1>1. UNCHANGED <<log, fpc, fver>> /\ wire' = wire \ {x}
  BY DEF Receive, Lose, flushes
<1>2. ASSUME NEW c \in room, NEW v \in Version, NEW g \in Flusher, Carried(g, v, c)
      PROVE  Came(v, c)'
  <2>1. Carried(g, v, c)'
    BY <1>1, <1>2 DEF Carried
  <2> QED BY <2>1 DEF Came
<1>3. ASSUME NEW c \in room, NEW v \in Version, NEW w \in wire, OnWire(w, v, c)
      PROVE  Came(v, c)'
  <2>1. CASE w # x
    <3>1. \E y \in wire' : y.to = On[c] /\ y.origin # y.to /\ y.event.ver = v
      BY <1>1, <1>3, <2>1 DEF OnWire
    <3> QED BY <3>1 DEF Came, OnWire
  <2>2. CASE w = x /\ Receive(x)
    <3>1. Emit(x.to, x.event) /\ x.to = On[c] /\ x.event.ver = v
      BY <1>3, <2>2 DEF Receive, OnWire
    <3>2. x.event \in got'[c]
      BY <3>1, EmitReaches
    <3> QED BY <3>1, <3>2 DEF Came
  <2>3. CASE w = x /\ ~Receive(x)
    <3>1. GivenUp({v}, {x.to} \ {x.origin}) /\ On[c] \in {x.to} \ {x.origin} /\ v \in Nat /\ c \in Socket
      BY <1>3, <2>3 DEF OnWire, Version, RoomTypeOK, TypeOK
    <3> QED BY <3>1, GivenUpTo
  <2> QED BY <2>1, <2>2, <2>3
<1>4. \A c \in Socket : got[c] \subseteq got'[c]
  <2>1. CASE Receive(x)
    BY <2>1, EmitAdds DEF Receive
  <2>2. CASE ~Receive(x)
    BY <2>2 DEF Lose
  <2> QED BY <2>1, <2>2
<1> QED BY <1>1, <1>2, <1>3, <1>4, RelayKept

LEMMA CatchRelay ==
  ASSUME RoomTypeOK, ZeroInv, CatchInv, RelayStep, UNCHANGED rooms
  PROVE  CatchInv'
<1>1. CASE UNCHANGED <<log, got, wire, fpc, fver, unheard>>
  <2>1. UNCHANGED <<room, jpc, init, base, behind>>
    BY RelayKeepsMembers DEF rooms, calls, inits
  <2>2. \A c \in Socket, v \in Version : Came(v, c) => Came(v, c)'
    BY <1>1 DEF Came, Carried, OnWire
  <2>3. \A c \in Socket : At(c)' <=> At(c)
    BY <2>1 DEF At
  <2> QED BY <1>1, <2>1, <2>2, <2>3, CatchKept
<1>2. ASSUME NEW h \in Handler, Arrive(h) \/ HandlerStep(h) \/ Refuse(h), UNCHANGED unheard
      PROVE  CatchInv'
  BY <1>1, <1>2 DEF Arrive, HandlerStep, Dedup, ReadSeq, WriteSeq, Accept, Refuse, flushes
<1>3. CASE (DedupLapses \/ LockLapses \/ \E u \in User : SeqLapses(u)) /\ UNCHANGED unheard
  BY <1>1, <1>3 DEF DedupLapses, LockLapses, SeqLapses, flushes
<1>4. ASSUME NEW f \in Flusher, Unpublished(f) \/ PushFails(f), UNCHANGED unheard
      PROVE  CatchInv'
  BY <1>4, CatchFlush, CatchCommit, CatchEmitLocal DEF Unpublished
<1>5. ASSUME NEW f \in Flusher, \/ WriteFails(f) /\ GivenUp({fver[f]}, Instance)
                                \/ Publish(f) /\ GivenUp({fver[f]}, Missed(f))
      PROVE  CatchInv'
  BY <1>5, CatchWriteFails, CatchPublish
<1>6. ASSUME NEW w \in wire,
             Receive(w) \/ (Lose(w) /\ GivenUp({w.event.ver}, {w.to} \ {w.origin}))
      PROVE  CatchInv'
  BY <1>6, CatchWire
<1> QED BY <1>2, <1>3, <1>4, <1>5, <1>6 DEF RelayStep, Harmless

LEMMA CatchInit ==
  ASSUME RoomTypeOK, CatchInv, NEW c \in Socket, SendInit(c)
  PROVE  CatchInv'
<1> USE DEF RoomTypeOK, TypeOK, JoinAt, members, relay, flushes
<1>1. /\ UNCHANGED <<log, got, wire, fpc, fver, unheard, room>>
      /\ jpc' = [jpc EXCEPT ![c] = "sent"] /\ base' = [base EXCEPT ![c] = Len(log)]
      /\ Len(log) \in Nat
  BY DEF SendInit, Inited
<1>2. /\ \A d \in Socket \ {c} : init'[d] = init[d] /\ (d \in behind => d \in behind')
      /\ c \in behind' \/ init'[c] >= Len(log)
  <2>1. ASSUME NEW n \in 0..Len(log), Inited(c, n)
        PROVE  /\ \A d \in Socket \ {c} : init'[d] = init[d] /\ (d \in behind => d \in behind')
               /\ c \in behind' \/ init'[c] >= Len(log)
    BY <1>1, <2>1 DEF Inited
  <2>2. Len(log) \in 0..Len(log)
    BY <1>1
  <2>3. CASE Inited(c, Len(log))
    BY <2>1, <2>2, <2>3
  <2>4. CASE UNCHANGED init /\ behind' = behind \cup {c}
    BY <2>4
  <2> QED BY <2>1, <2>3, <2>4 DEF SendInit
<1> SUFFICES ASSUME NEW d \in Socket, At(d)', NEW v \in 1..Len(log)' PROVE Reached(d, v)'
  BY DEF CatchInv
<1>3. v \in 1..Len(log) /\ v <= Len(log) /\ v \in Nat
  BY <1>1
<1>4. CASE d = c
  <2>1. base'[c] = Len(log) /\ init'[c] \in Nat
    <3>1. init' \in [Socket -> Nat]
      BY RoomTypeJoin DEF JoinStep
    <3> QED BY <1>1, <3>1
  <2>2. CASE c \in behind'
    <3>1. v <= base'[c]
      BY <1>3, <2>1
    <3> QED BY <1>4, <2>2, <3>1, ReachedIsCame
  <2>3. CASE init'[c] >= Len(log)
    <3>1. v <= init'[c]
      BY <1>1, <1>3, <2>1, <2>3
    <3> QED BY <1>4, <3>1, ReachedIsCame
  <2> QED BY <1>2, <2>2, <2>3
<1>5. CASE d # c
  <2>1. At(d) /\ base'[d] = base[d] /\ init'[d] = init[d] /\ (d \in behind => d \in behind')
    BY <1>1, <1>2, <1>5 DEF At
  <2>2. Reached(d, v)
    BY <1>3, <2>1 DEF CatchInv
  <2>3. Came(v, d) => Came(v, d)'
    BY <1>1 DEF Came, Carried, OnWire
  <2> QED BY <2>1, <2>2, <2>3, ReachedIsCame
<1> QED BY <1>4, <1>5

(* Every other step of a join, a leave or a connection.                    *)
LEMMA CatchCalls ==
  ASSUME RoomTypeOK, CatchInv, NEW c \in Socket,
         \/ Connect(c) \/ Ask(c) \/ Deny(c) \/ JoinStep(c)
         \/ LeaveRoom(c) \/ LeaveStep(c) \/ Disconnect(c)
  PROVE  CatchInv'
<1>1. CASE SendInit(c)
  BY <1>1, CatchInit
<1>2. CASE ~SendInit(c)
  <2> USE DEF JoinAt, LeaveAt, members, relay, flushes, inits
  <2>1. UNCHANGED <<log, wire, fpc, fver, unheard, init, base, behind>>
    BY <1>2 DEF Connect, Ask, Deny, JoinStep, Enter, MarkOnline, DrainOne, Drained, Subscribe,
       LeaveRoom, LeaveStep, Forget, Unsubscribe, MarkOffline, Disconnect, rooms
  <2>2. \A d \in Socket : got[d] \subseteq got'[d]
    <3>1. CASE DrainOne(c)
      BY <3>1 DEF DrainOne, RoomTypeOK, TypeOK
    <3>2. CASE ~DrainOne(c)
      BY <1>2, <3>2 DEF Connect, Ask, Deny, JoinStep, Enter, MarkOnline, Drained, Subscribe,
         LeaveRoom, LeaveStep, Forget, Unsubscribe, MarkOffline, Disconnect
    <3> QED BY <3>1, <3>2
  <2>3. \A d \in Socket : At(d)' => At(d)
    <3> USE DEF At, RoomTypeOK
    <3>1. CASE Connect(c) \/ Ask(c) \/ Deny(c)
      BY <3>1 DEF Connect, Ask, Deny
    <3>2. CASE Enter(c)
      <4>1. /\ jpc'[c] \notin {"sent", "in"} /\ \A d \in Socket \ {c} : jpc'[d] = jpc[d]
            /\ room' \subseteq room \cup {c}
        BY <3>2 DEF Enter
      <4> QED BY <4>1
    <3>3. CASE MarkOnline(c) \/ Drained(c) \/ Subscribe(c)
      BY <3>3 DEF MarkOnline, Drained, Subscribe
    <3>4. CASE DrainOne(c)
      BY <3>4 DEF DrainOne, rooms, calls
    <3>5. CASE LeaveRoom(c) \/ Forget(c) \/ MarkOffline(c) \/ Disconnect(c)
      BY <3>5 DEF LeaveRoom, Forget, MarkOffline, Disconnect
    <3>6. CASE Unsubscribe(c)
      BY <3>6 DEF Unsubscribe, Uncounted
    <3> QED BY <1>2, <3>1, <3>2, <3>3, <3>4, <3>5, <3>6 DEF JoinStep, LeaveStep
  <2>4. ASSUME NEW d \in Socket, NEW v \in Version, Came(v, d) PROVE Came(v, d)'
    <3>1. (\E e \in got[d] : e.ver = v) => \E e \in got'[d] : e.ver = v
      BY <2>2
    <3> QED BY <2>1, <2>4, <3>1 DEF Came, Carried, OnWire
  <2> QED BY <2>1, <2>3, <2>4, CatchKept
<1> QED BY <1>1, <1>2

LEMMA CatchExecute ==
  ASSUME RoomTypeOK, CatchInv, NEW i \in Instance, Execute(i)
  PROVE  CatchInv'
<1>1. UNCHANGED <<log, got, wire, fpc, fver, unheard, room, jpc, init, base, behind>>
  BY DEF Execute, relay, flushes, calls, inits
<1>2. \A c \in Socket, v \in Version : Came(v, c) => Came(v, c)'
  BY <1>1 DEF Came, Carried, OnWire
<1>3. \A c \in Socket : At(c)' <=> At(c)
  BY <1>1 DEF At
<1> QED BY <1>1, <1>2, <1>3, CatchKept

LEMMA CatchCrash ==
  ASSUME RoomTypeOK, CatchInv, NEW i \in Instance, CrashInstance(i)
  PROVE  CatchInv'
<1> USE DEF RoomTypeOK, TypeOK
<1>1. /\ UNCHANGED <<log, got, init, base, behind>>
      /\ room' = {c \in room : On[c] # i} /\ wire' = {w \in wire : w.to # i}
      /\ \A c \in Socket : On[c] # i => jpc'[c] = jpc[c]
      /\ \A f \in Flusher : Runs[f] # i => fpc'[f] = fpc[f] /\ fver'[f] = fver[f]
  BY DEF CrashInstance, Crash, inits
<1>2. \A c \in Socket : At(c)' => At(c) /\ On[c] # i
  BY <1>1 DEF At
<1>3. ASSUME NEW c \in Socket, NEW v \in Version, On[c] # i, Came(v, c) PROVE Came(v, c)'
  <2>0. On[c] \in Instance
    BY RelayAssumption
  <2>1. ASSUME NEW f \in Flusher, Carried(f, v, c) PROVE Came(v, c)'
    <3>1. CASE Runs[f] = i
      <4>1. fver[f] \in unheard'[On[c]]
        BY <2>0, <3>1, CrashGivesUp
      <4> QED BY <2>1, <4>1 DEF Came, Carried
    <3>2. CASE Runs[f] # i
      <4>1. Carried(f, v, c)'
        BY <1>1, <2>1, <3>2 DEF Carried
      <4> QED BY <4>1 DEF Came
    <3> QED BY <3>1, <3>2
  <2>2. ASSUME NEW w \in wire, OnWire(w, v, c) PROVE Came(v, c)'
    <3>1. w \in wire' /\ w.to = On[c] /\ w.origin # w.to /\ w.event.ver = v
      BY <1>1, <1>3, <2>2 DEF OnWire
    <3> QED BY <3>1 DEF Came, OnWire
  <2>3. CASE \E e \in got[c] : e.ver = v
    BY <1>1, <2>3 DEF Came
  <2>4. CASE v \in unheard[On[c]]
    <3>1. v \in unheard'[On[c]]
      BY <2>0, <2>4, CrashGivesUp
    <3> QED BY <3>1 DEF Came
  <2> QED BY <1>3, <2>1, <2>2, <2>3, <2>4 DEF Came
<1>4. \A c \in Socket, v \in Version : At(c)' /\ Came(v, c) => Came(v, c)'
  BY <1>2, <1>3
<1> QED BY <1>1, <1>2, <1>4, CatchKept

(* However joins, leaves, lost connections, crashes, failed calls, stale   *)
(* caches and the relay of any number of instances interleave: once its    *)
(* join has ended, a socket in the room has in its y-init, has been sent   *)
(* or is about to be sent every stored version, except those whose         *)
(* announcement was given up on the way to its instance and those stored   *)
(* before a y-init that was outdated or did not come.                      *)
THEOREM JoinsCatchUp == RoomSpec => []JoinedCatchesUp
<1> DEFINE IInv == RoomTypeOK /\ ZeroInv /\ CatchInv
<1>1. RoomInit => IInv
  <2>1. RoomInit => CatchInv
    BY DEF RoomInit, Start, CatchInv
  <2>2. RoomInit => ZeroInv
    BY DEF RoomInit, Start, ZeroInv
  <2> QED BY <2>1, <2>2, RoomTypeInit
<1>2. IInv /\ [RoomNext]_roomVars => IInv'
  <2> SUFFICES ASSUME RoomTypeOK, ZeroInv, CatchInv, [RoomNext]_roomVars PROVE CatchInv'
    BY RoomTypeStep, ZeroStep
  <2>1. CASE UNCHANGED roomVars
    <3>1. UNCHANGED <<log, got, wire, fpc, fver, unheard, room, jpc, init, base, behind>>
      BY <2>1 DEF roomVars, vars, members, flushes, rooms, calls, inits
    <3>2. \A c \in Socket, v \in Version : Came(v, c) => Came(v, c)'
      BY <3>1 DEF Came, Carried, OnWire
    <3>3. \A c \in Socket : At(c)' <=> At(c)
      BY <3>1 DEF At
    <3> QED BY <3>1, <3>2, <3>3, CatchKept
  <2>2. CASE RoomNext
    BY <2>2, CatchRelay, CatchCalls, CatchExecute, CatchCrash DEF RoomNext
  <2> QED BY <2>1, <2>2
<1>3. IInv => JoinedCatchesUp
  BY DEF CatchInv, JoinedCatchesUp, Settled, At
<1> QED BY <1>1, <1>2, <1>3, PTL DEF RoomSpec
=============================================================================
