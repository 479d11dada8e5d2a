-------------------------- MODULE YProviderProofs --------------------------
(***************************************************************************)
(* Theorems about YProvider, for any tabs, edits and number of faults.     *)
(***************************************************************************)
EXTENDS YProvider, SequenceTheorems, TLAPS

LEMMA EnqueueHolds ==
  ASSUME TypeOK, NEW t \in Tab, NEW u \in SUBSET Edit, Enqueue(t, u)
  PROVE  /\ queue' \in [Tab -> SUBSET Edit] /\ timer' \in [Tab -> BOOLEAN]
         /\ kept' \in SUBSET Edit
BY DEF Enqueue, TypeOK

LEMMA ApplyType ==
  ASSUME TypeOK, NEW t \in Tab, NEW u \in SUBSET Edit,
         NEW waiting \in [Tab -> SUBSET Edit], Apply(t, u, waiting)
  PROVE  /\ doc' \in [Tab -> SUBSET Edit] /\ queue' \in [Tab -> SUBSET Edit]
         /\ timer' \in [Tab -> BOOLEAN] /\ kept' \in SUBSET Edit /\ idb' \in SUBSET Edit
         /\ bc' \in [Tab -> SUBSET Edit] /\ seq' \in [Tab -> Nat]
         /\ up' \in [Tab -> Seq(Message)]
<1> DEFINE new == u \ doc[t]
<1>1. new \in SUBSET Edit
  OBVIOUS
<1>2. doc' \in [Tab -> SUBSET Edit] /\ idb' \in SUBSET Edit
  BY <1>1 DEF Apply, TypeOK
<1>3. bc' \in [Tab -> SUBSET Edit]
  BY <1>1 DEF Apply, Tell
<1>4. queue' \in [Tab -> SUBSET Edit] /\ timer' \in [Tab -> BOOLEAN] /\ kept' \in SUBSET Edit
  <2>1. Enqueue(t, new) \/ UNCHANGED <<queue, timer, kept>>
    BY DEF Apply
  <2> QED BY <1>1, <2>1, EnqueueHolds DEF TypeOK
<1>5. seq' \in [Tab -> Nat] /\ up' \in [Tab -> Seq(Message)]
  <2> DEFINE m == [upd |-> new, seq |-> seq[t] + 1]
  <2>1. m \in Message
    BY <1>1 DEF Message, TypeOK
  <2>2. Append(up[t], m) \in Seq(Message)
    <3>1. up[t] \in Seq(Message)
      BY DEF TypeOK
    <3> HIDE DEF m
    <3> QED BY <2>1, <3>1, AppendProperties
  <2>3. CASE UNCHANGED <<up, seq>>
    BY <2>3 DEF TypeOK
  <2>4. CASE up' = [up EXCEPT ![t] = Append(up[t], m)] /\ seq' = [seq EXCEPT ![t] = seq[t] + 1]
    <3>1. seq' \in [Tab -> Nat]
      BY <2>4 DEF TypeOK
    <3>2. up' \in [Tab -> Seq(Message)]
      BY <2>2, <2>4 DEF TypeOK
    <3> QED BY <3>1, <3>2
  <2> QED BY <2>3, <2>4 DEF Apply
<1> QED BY <1>2, <1>3, <1>4, <1>5
-----------------------------------------------------------------------------
LEMMA TypeInit == Init => TypeOK
BY ProviderAssumption DEF Init, TypeOK, Nothing

LEMMA TypeApply ==
  ASSUME TypeOK, NEW t \in Tab,
         \/ \E e \in Edit : MakeEdit(t, e)
         \/ HearTab(t) \/ LoadIndexedDB(t) \/ HearServer(t)
         \/ \E kind \in {"load", "resync"} : GetAnswered(t, kind)
  PROVE  TypeOK'
<1> USE DEF TypeOK, server
<1>1. ASSUME NEW e \in Edit, MakeEdit(t, e) PROVE TypeOK'
  BY <1>1, ApplyType DEF MakeEdit
<1>2. CASE HearTab(t)
  <2>1. [bc EXCEPT ![t] = {}] \in [Tab -> SUBSET Edit]
    OBVIOUS
  <2> QED BY <1>2, <2>1, ApplyType DEF HearTab
<1>3. CASE LoadIndexedDB(t)
  BY <1>3, ApplyType DEF LoadIndexedDB
<1>4. CASE HearServer(t)
  <2>1. down[t] \in Seq(SUBSET Edit) /\ down[t] # <<>>
    BY <1>4 DEF HearServer
  <2>2. Head(down[t]) \in SUBSET Edit /\ Tail(down[t]) \in Seq(SUBSET Edit)
    BY <2>1, HeadTailProperties
  <2>3. down' \in [Tab -> Seq(SUBSET Edit)]
    BY <1>4, <2>2 DEF HearServer
  <2> QED BY <1>4, <2>2, <2>3, ApplyType DEF HearServer
<1>5. ASSUME NEW kind \in {"load", "resync"}, GetAnswered(t, kind) PROVE TypeOK'
  BY <1>5, ApplyType DEF GetAnswered
<1> QED BY <1>1, <1>2, <1>3, <1>4, <1>5

LEMMA FlushType ==
  ASSUME TypeOK, NEW t \in Tab, Flush(t)
  PROVE  /\ queue' \in [Tab -> SUBSET Edit] /\ timer' \in [Tab -> BOOLEAN]
         /\ post' \in [Tab -> SUBSET SUBSET Edit]
<1>1. timer' \in [Tab -> BOOLEAN]
  BY DEF Flush, TypeOK
<1>2. CASE UNCHANGED <<queue, post>>
  BY <1>1, <1>2 DEF TypeOK
<1>3. CASE /\ queue' = [queue EXCEPT ![t] = {}]
           /\ post' = [post EXCEPT ![t] = post[t] \cup {queue[t]}]
  <2>1. post[t] \cup {queue[t]} \in SUBSET SUBSET Edit
    BY DEF TypeOK
  <2>2. post' \in [Tab -> SUBSET SUBSET Edit]
    BY <1>3, <2>1 DEF TypeOK
  <2>3. queue' \in [Tab -> SUBSET Edit]
    BY <1>3 DEF TypeOK
  <2> QED BY <1>1, <2>2, <2>3
<1> QED BY <1>2, <1>3 DEF Flush

LEMMA TypeRequests ==
  ASSUME TypeOK, NEW t \in Tab,
         \/ BatchDue(t) \/ BackoffDue(t) \/ RetryNow(t) \/ BackOnline(t)
         \/ \E kind \in {"load", "resync"} : GetFails(t, kind)
         \/ \E u \in post[t] : PostAnswered(t, u) \/ PostFails(t, u)
  PROVE  TypeOK'
<1> USE DEF TypeOK, sockets, browser, server
<1>1. CASE BatchDue(t)
  BY <1>1, FlushType DEF BatchDue
<1>2. CASE BackoffDue(t)
  BY <1>2, FlushType DEF BackoffDue
<1>3. CASE RetryNow(t)
  BY <1>3, FlushType DEF RetryNow
<1>4. CASE BackOnline(t)
  BY <1>4 DEF BackOnline
<1>5. ASSUME NEW kind \in {"load", "resync"}, GetFails(t, kind) PROVE TypeOK'
  BY <1>5 DEF GetFails
<1>6. ASSUME NEW u \in post[t], PostAnswered(t, u) PROVE TypeOK'
  BY <1>6 DEF PostAnswered
<1>7. ASSUME NEW u \in post[t], PostFails(t, u) PROVE TypeOK'
  <2>1. u \in SUBSET Edit
    OBVIOUS
  <2> QED BY <1>7, <2>1, EnqueueHolds DEF PostFails
<1> QED BY <1>1, <1>2, <1>3, <1>4, <1>5, <1>6, <1>7

LEMMA SentType ==
  ASSUME TypeOK, NEW t \in Tab
  PROVE  Sent(t) \in SUBSET Edit
<1>1. up[t] \in Seq(Message)
  BY DEF TypeOK
<1>2. \A k \in 1..Len(up[t]) : up[t][k] \in Message
  BY <1>1, ElementOfSeq
<1> QED BY <1>2 DEF Sent, Message

LEMMA HangUpType ==
  ASSUME TypeOK, NEW t \in Tab, HangUp(t)
  PROVE  /\ connected' \in [Tab -> BOOLEAN] /\ dropped' \in SUBSET Edit
         /\ up' \in [Tab -> Seq(Message)] /\ down' \in [Tab -> Seq(SUBSET Edit)]
         /\ joining' \in SUBSET Tab /\ member' \in SUBSET Tab
<1>1. <<>> \in Seq(Message) /\ <<>> \in Seq(SUBSET Edit)
  OBVIOUS
<1> QED BY <1>1, SentType DEF HangUp, TypeOK

LEMMA TypeSockets ==
  ASSUME TypeOK, NEW t \in Tab,
         \/ Reload(t) \/ Connect(t) \/ Disconnect(t)
         \/ ServerJoins(t) \/ JoinEnds(t) \/ ServerUpdates(t) \/ SeqLapses
  PROVE  TypeOK'
<1> USE DEF page, sockets, browser, server
<1>1. CASE Reload(t)
  <2>1. PICK served \in SUBSET post[t] : stored' = stored \cup UNION served
    BY <1>1 DEF Reload
  <2>2. stored' \in SUBSET Edit
    BY <2>1 DEF TypeOK
  <2>3. /\ doc' \in [Tab -> SUBSET Edit] /\ queue' \in [Tab -> SUBSET Edit]
        /\ timer' \in [Tab -> BOOLEAN] /\ retry' \in [Tab -> BOOLEAN]
    BY <1>1 DEF Reload, TypeOK
  <2>4. post' \in [Tab -> SUBSET SUBSET Edit]
    BY <1>1 DEF Reload, TypeOK
  <2>5. /\ bc' \in [Tab -> SUBSET Edit] /\ fresh' \in SUBSET Tab
        /\ seq' \in [Tab -> Nat] /\ quota' \in Nat
    BY <1>1 DEF Reload, TypeOK
  <2>6. loading' \in SUBSET (Tab \X {"load", "resync"})
    BY <1>1 DEF Reload, TypeOK
  <2>7. UNCHANGED <<made, kept, idb, lastseq>>
    BY <1>1 DEF Reload
  <2>8. HangUp(t)
    BY <1>1 DEF Reload
  <2> QED BY <2>2, <2>3, <2>4, <2>5, <2>6, <2>7, <2>8, HangUpType DEF TypeOK
<1>2. CASE Connect(t)
  <2>1. Join \in Message
    BY DEF Join, Message
  <2>2. up' \in [Tab -> Seq(Message)]
    <3>1. up \in [Tab -> Seq(Message)] /\ up[t] \in Seq(Message)
      BY DEF TypeOK
    <3>2. Append(up[t], Join) \in Seq(Message)
      BY <2>1, <3>1, AppendProperties
    <3> QED BY <1>2, <3>1, <3>2 DEF Connect
  <2> QED BY <1>2, <2>2 DEF Connect, TypeOK
<1>3. CASE Disconnect(t)
  BY <1>3, HangUpType DEF Disconnect, TypeOK
<1>4. CASE ServerJoins(t)
  <2>1. up' \in [Tab -> Seq(Message)]
    BY <1>4, HeadTailProperties DEF ServerJoins, TypeOK
  <2> QED BY <1>4, <2>1 DEF ServerJoins, Popped, TypeOK
<1>5. CASE JoinEnds(t)
  <2>1. down' \in [Tab -> Seq(SUBSET Edit)]
    BY <1>5, AppendProperties DEF JoinEnds, TypeOK
  <2> QED BY <1>5, <2>1 DEF JoinEnds, Popped, TypeOK
<1>6. CASE ServerUpdates(t)
  <2> DEFINE m == Head(up[t])
  <2>1. up[t] \in Seq(Message) /\ up[t] # <<>>
    BY <1>6 DEF ServerUpdates, TypeOK
  <2>2. m \in Message /\ Tail(up[t]) \in Seq(Message)
    BY <2>1, HeadTailProperties
  <2>3. m.upd \in SUBSET Edit /\ m.seq \in Nat
    BY <2>2 DEF Message
  <2>4. up' \in [Tab -> Seq(Message)]
    BY <1>6, <2>2 DEF ServerUpdates, TypeOK
  <2> HIDE DEF m
  <2>5. Broadcast(m.upd) => down' \in [Tab -> Seq(SUBSET Edit)]
    BY <2>3, AppendProperties DEF Broadcast, TypeOK
  <2>6. /\ stored' \in SUBSET Edit /\ lastseq' \in Nat /\ dropped' \in SUBSET Edit
        /\ down' \in [Tab -> Seq(SUBSET Edit)]
    BY <1>6, <2>3, <2>5 DEF ServerUpdates, TypeOK, m
  <2> QED BY <1>6, <2>4, <2>6 DEF ServerUpdates, Popped, TypeOK
<1>7. CASE SeqLapses
  BY <1>7 DEF SeqLapses, TypeOK
<1> QED BY <1>1, <1>2, <1>3, <1>4, <1>5, <1>6, <1>7

LEMMA TypeStep == TypeOK /\ [Next]_vars => TypeOK'
<1> SUFFICES ASSUME TypeOK, [Next]_vars PROVE TypeOK'
  OBVIOUS
<1>1. CASE UNCHANGED vars
  BY <1>1 DEF vars, page, sockets, browser, server, TypeOK
<1>2. ASSUME SeqLapses PROVE TypeOK'
  BY <1>2 DEF SeqLapses, page, sockets, browser, TypeOK
<1> QED BY <1>1, <1>2, TypeApply, TypeRequests, TypeSockets DEF Next, Works

(* Every variable keeps its type.                                          *)
THEOREM ProviderTypeCorrect == Spec => []TypeOK
BY TypeInit, TypeStep, PTL DEF Spec
-----------------------------------------------------------------------------
(* What a tab has on the socket, as messages are added and taken.          *)
LEMMA SentSame ==
  ASSUME NEW t \in Tab, up'[t] = up[t]
  PROVE  Sent(t)' = Sent(t)
BY DEF Sent

LEMMA SentAppend ==
  ASSUME NEW t \in Tab, NEW m \in Message, up[t] \in Seq(Message),
         up'[t] = Append(up[t], m)
  PROVE  Sent(t) \cup m.upd \subseteq Sent(t)'
<1>1. /\ Len(up'[t]) = Len(up[t]) + 1 /\ up'[t][Len(up[t]) + 1] = m
      /\ \A k \in 1..Len(up[t]) : up'[t][k] = up[t][k]
      /\ Len(up[t]) \in Nat
  BY AppendProperties
<1>2. Sent(t)' = UNION {up'[t][k].upd : k \in 1..Len(up'[t])}
  BY DEF Sent
<1>3. ASSUME NEW e \in Sent(t) PROVE e \in Sent(t)'
  <2>1. PICK k \in 1..Len(up[t]) : e \in up[t][k].upd
    BY DEF Sent
  <2>2. k \in 1..Len(up'[t]) /\ up'[t][k] = up[t][k]
    BY <1>1
  <2> QED BY <1>2, <2>1, <2>2
<1>4. ASSUME NEW e \in m.upd PROVE e \in Sent(t)'
  <2>1. Len(up[t]) + 1 \in 1..Len(up'[t])
    BY <1>1
  <2> QED BY <1>1, <1>2, <2>1
<1> QED BY <1>3, <1>4

LEMMA SentTail ==
  ASSUME NEW t \in Tab, up[t] \in Seq(Message), up[t] # <<>>, up'[t] = Tail(up[t])
  PROVE  Sent(t) \subseteq Sent(t)' \cup Head(up[t]).upd
<1>1. /\ Len(up'[t]) = Len(up[t]) - 1 /\ Len(up[t]) \in Nat /\ Head(up[t]) = up[t][1]
      /\ \A k \in 1..Len(up[t]) - 1 : up'[t][k] = up[t][k + 1]
  BY HeadTailProperties
<1>2. Sent(t)' = UNION {up'[t][k].upd : k \in 1..Len(up'[t])}
  BY DEF Sent
<1> SUFFICES ASSUME NEW e \in Sent(t), e \notin Head(up[t]).upd PROVE e \in Sent(t)'
  OBVIOUS
<1>3. PICK k \in 1..Len(up[t]) : e \in up[t][k].upd
  BY DEF Sent
<1>4. k # 1
  BY <1>1, <1>3
<1>5. k - 1 \in 1..Len(up'[t]) /\ up'[t][k - 1] = up[t][k]
  <2>1. k - 1 \in 1..Len(up[t]) - 1 /\ (k - 1) + 1 = k
    BY <1>1, <1>3, <1>4
  <2> QED BY <1>1, <2>1
<1> QED BY <1>2, <1>3, <1>5
-----------------------------------------------------------------------------
(* A tab that has more to send than it had.                                *)
LEMMA MoreToSend ==
  ASSUME NEW t \in Tab, NEW gone,
         queue[t] \subseteq queue'[t] \cup (UNION post'[t]) \cup gone,
         \A u \in post[t] : u \in post'[t] \/ u \subseteq queue'[t] \cup gone,
         Sent(t) \subseteq Sent(t)' \cup gone
  PROVE  ToSend(t) \subseteq ToSend(t)' \cup gone
<1>1. ToSend(t)' = queue'[t] \cup (UNION post'[t]) \cup Sent(t)'
  BY DEF ToSend
<1> SUFFICES ASSUME NEW e \in ToSend(t) PROVE e \in ToSend(t)' \cup gone
  OBVIOUS
<1>2. e \in queue[t] \/ e \in Sent(t) \/ \E u \in post[t] : e \in u
  BY DEF ToSend
<1>3. CASE e \in queue[t]
  BY <1>1, <1>3
<1>4. CASE e \in Sent(t)
  BY <1>1, <1>4
<1>5. ASSUME NEW u \in post[t], e \in u PROVE e \in ToSend(t)' \cup gone
  <2>1. CASE u \in post'[t]
    <3>1. e \in UNION post'[t]
      BY <1>5, <2>1
    <3> QED BY <1>1, <3>1
  <2>2. CASE u \subseteq queue'[t] \cup gone
    BY <1>1, <1>5, <2>2
  <2> QED BY <2>1, <2>2
<1> QED BY <1>2, <1>3, <1>4, <1>5

(* A tab whose document, queue, requests and socket a step leaves alone.   *)
LEMMA OthersHeld ==
  ASSUME HeldUnlessDropped, NEW t \in Tab,
         doc'[t] = doc[t], queue'[t] = queue[t], post'[t] = post[t], up'[t] = up[t],
         stored \subseteq stored', dropped \subseteq dropped'
  PROVE  doc'[t] \subseteq (stored \cup ToSend(t) \cup dropped)'
BY SentSame DEF HeldUnlessDropped, ToSend

LEMMA ApplyHeld ==
  ASSUME TypeOK, HeldUnlessDropped, NEW t \in Tab, NEW u \in SUBSET Edit,
         NEW waiting \in [Tab -> SUBSET Edit], Apply(t, u, waiting),
         UNCHANGED <<post, stored, dropped>>
  PROVE  HeldUnlessDropped'
<1> SUFFICES ASSUME NEW x \in Tab
             PROVE  doc'[x] \subseteq (stored \cup ToSend(x) \cup dropped)'
  BY DEF HeldUnlessDropped
<1> DEFINE new == u \ doc[t]
           m == [upd |-> new, seq |-> seq[t] + 1]
<1>1. doc' = [doc EXCEPT ![t] = doc[t] \cup u] /\ doc \in [Tab -> SUBSET Edit]
  BY DEF Apply, TypeOK
<1>2. CASE x # t
  <2>1. doc'[x] = doc[x]
    BY <1>1, <1>2
  <2>2. queue'[x] = queue[x] /\ up'[x] = up[x]
    BY <1>2 DEF Apply, Enqueue, TypeOK
  <2> QED BY <2>1, <2>2, OthersHeld
<1>3. CASE x = t /\ new = {}
  <2>1. doc'[x] = doc[x]
    BY <1>1, <1>3
  <2>2. queue'[x] = queue[x] /\ up'[x] = up[x]
    BY <1>3 DEF Apply
  <2> QED BY <2>1, <2>2, OthersHeld
<1>4. CASE x = t /\ new # {} /\ connected[t]
  <2>1. m \in Message /\ up[t] \in Seq(Message) /\ m.upd = new
    <3>1. new \in SUBSET Edit /\ seq[t] + 1 \in Nat
      BY DEF TypeOK
    <3>2. up[t] \in Seq(Message)
      BY DEF TypeOK
    <3> HIDE DEF new
    <3> QED BY <3>1, <3>2 DEF Message
  <2>2. up'[t] = Append(up[t], m) /\ queue' = queue
    BY <1>4 DEF Apply, TypeOK
  <2>3. Sent(t) \cup new \subseteq Sent(t)'
    <3> HIDE DEF m
    <3> QED BY <2>1, <2>2, SentAppend
  <2>4. doc'[t] = doc[t] \cup new
    BY <1>1
  <2>5. ToSend(t) \cup new \subseteq ToSend(t)'
    <3>1. queue'[t] = queue[t] /\ post'[t] = post[t]
      BY <2>2
    <3>2. ToSend(t) \subseteq ToSend(t)' \cup {}
      BY <2>3, <3>1, MoreToSend
    <3>3. Sent(t)' \subseteq ToSend(t)'
      BY DEF ToSend
    <3> HIDE DEF new
    <3> QED BY <2>3, <3>2, <3>3
  <2> HIDE DEF new, m
  <2> QED BY <1>4, <2>4, <2>5 DEF HeldUnlessDropped
<1>5. CASE x = t /\ new # {} /\ ~connected[t]
  <2>1. queue'[t] = queue[t] \cup new /\ up' = up
    BY <1>5 DEF Apply, Enqueue, TypeOK
  <2>2. ToSend(t) \cup new \subseteq ToSend(t)'
    BY <2>1, SentSame DEF ToSend
  <2>3. doc'[t] = doc[t] \cup new
    BY <1>1
  <2> HIDE DEF new
  <2> QED BY <1>5, <2>2, <2>3 DEF HeldUnlessDropped
<1> QED BY <1>2, <1>3, <1>4, <1>5

LEMMA ApplyStepHeld ==
  ASSUME TypeOK, HeldUnlessDropped, NEW t \in Tab,
         \/ \E e \in Edit : MakeEdit(t, e)
         \/ HearTab(t) \/ LoadIndexedDB(t) \/ HearServer(t)
         \/ \E kind \in {"load", "resync"} : GetAnswered(t, kind)
  PROVE  HeldUnlessDropped'
<1> USE DEF server
<1>1. bc \in [Tab -> SUBSET Edit] /\ [bc EXCEPT ![t] = {}] \in [Tab -> SUBSET Edit]
  BY DEF TypeOK
<1>2. ASSUME NEW e \in Edit, MakeEdit(t, e) PROVE HeldUnlessDropped'
  BY <1>1, <1>2, ApplyHeld DEF MakeEdit
<1>3. CASE HearTab(t)
  <2>1. bc[t] \in SUBSET Edit
    BY <1>1
  <2> QED BY <1>1, <1>3, <2>1, ApplyHeld DEF HearTab
<1>4. CASE LoadIndexedDB(t)
  <2>1. idb \in SUBSET Edit
    BY DEF TypeOK
  <2> QED BY <1>1, <1>4, <2>1, ApplyHeld DEF LoadIndexedDB
<1>5. CASE HearServer(t)
  <2>1. down[t] \in Seq(SUBSET Edit) /\ down[t] # <<>>
    BY <1>5 DEF HearServer, TypeOK
  <2>2. Head(down[t]) \in SUBSET Edit
    BY <2>1, HeadTailProperties
  <2> QED BY <1>1, <1>5, <2>2, ApplyHeld DEF HearServer
<1>6. ASSUME NEW kind \in {"load", "resync"}, GetAnswered(t, kind) PROVE HeldUnlessDropped'
  <2>1. stored \in SUBSET Edit
    BY DEF TypeOK
  <2> QED BY <1>1, <1>6, <2>1, ApplyHeld DEF GetAnswered
<1> QED BY <1>2, <1>3, <1>4, <1>5, <1>6

(* A flush moves the queue into a request.                                 *)
LEMMA FlushHeld ==
  ASSUME TypeOK, HeldUnlessDropped, NEW t \in Tab, Flush(t),
         UNCHANGED <<doc, up, stored, dropped>>
  PROVE  HeldUnlessDropped'
<1> SUFFICES ASSUME NEW x \in Tab
             PROVE  doc'[x] \subseteq (stored \cup ToSend(x) \cup dropped)'
  BY DEF HeldUnlessDropped
<1>1. CASE UNCHANGED <<queue, post>>
  BY <1>1, OthersHeld
<1>2. CASE /\ queue' = [queue EXCEPT ![t] = {}]
           /\ post' = [post EXCEPT ![t] = post[t] \cup {queue[t]}]
  <2>1. CASE x # t
    <3>1. queue'[x] = queue[x] /\ post'[x] = post[x]
      BY <1>2, <2>1 DEF TypeOK
    <3> QED BY <3>1, OthersHeld
  <2>2. CASE x = t
    <3>1. post'[t] = post[t] \cup {queue[t]}
      BY <1>2 DEF TypeOK
    <3>2. queue[t] \subseteq UNION post'[t] /\ Sent(t)' = Sent(t)
      BY <3>1, SentSame
    <3>3. ToSend(t) \subseteq ToSend(t)' \cup {}
      BY <3>1, <3>2, MoreToSend
    <3> QED BY <2>2, <3>3 DEF HeldUnlessDropped
  <2> QED BY <2>1, <2>2
<1> QED BY <1>1, <1>2 DEF Flush

LEMMA RequestHeld ==
  ASSUME TypeOK, HeldUnlessDropped, NEW t \in Tab,
         \/ BatchDue(t) \/ BackoffDue(t) \/ RetryNow(t) \/ BackOnline(t)
         \/ \E kind \in {"load", "resync"} : GetFails(t, kind)
         \/ \E u \in post[t] : PostAnswered(t, u) \/ PostFails(t, u)
  PROVE  HeldUnlessDropped'
<1> USE DEF sockets, browser, server
<1>1. CASE BatchDue(t) \/ BackoffDue(t) \/ RetryNow(t)
  BY <1>1, FlushHeld DEF BatchDue, BackoffDue, RetryNow
<1>2. CASE BackOnline(t) \/ \E kind \in {"load", "resync"} : GetFails(t, kind)
  <2>1. UNCHANGED <<doc, queue, post, up, stored, dropped>>
    BY <1>2 DEF BackOnline, GetFails
  <2> QED BY <2>1, OthersHeld DEF HeldUnlessDropped
<1>3. ASSUME NEW u \in post[t], PostAnswered(t, u) \/ PostFails(t, u)
      PROVE  HeldUnlessDropped'
  <2> SUFFICES ASSUME NEW x \in Tab
               PROVE  doc'[x] \subseteq (stored \cup ToSend(x) \cup dropped)'
    BY DEF HeldUnlessDropped
  <2>1. /\ post' = [post EXCEPT ![t] = post[t] \ {u}] /\ UNCHANGED <<doc, up, dropped>>
        /\ stored \subseteq stored'
    BY <1>3 DEF PostAnswered, PostFails
  <2>2. (queue' = queue /\ u \subseteq stored') \/ queue' = [queue EXCEPT ![t] = queue[t] \cup u]
    BY <1>3 DEF PostAnswered, PostFails, Enqueue
  <2>3. CASE x # t
    <3>1. queue'[x] = queue[x] /\ post'[x] = post[x]
      BY <2>1, <2>2, <2>3 DEF TypeOK
    <3> QED BY <2>1, <3>1, OthersHeld
  <2>4. CASE x = t
    <3>1. post'[t] = post[t] \ {u}
      BY <2>1 DEF TypeOK
    <3>2. u \subseteq queue'[t] \cup stored'
      BY <2>2 DEF TypeOK
    <3>3. queue[t] \subseteq queue'[t]
      BY <2>2 DEF TypeOK
    <3>4. Sent(t)' = Sent(t)
      BY <2>1, SentSame
    <3>5. ToSend(t) \subseteq ToSend(t)' \cup stored'
      BY <3>1, <3>2, <3>3, <3>4, MoreToSend
    <3> QED BY <2>1, <2>4, <3>5 DEF HeldUnlessDropped
  <2> QED BY <2>3, <2>4
<1> QED BY <1>1, <1>2, <1>3

LEMMA SocketHeld ==
  ASSUME TypeOK, HeldUnlessDropped, NEW t \in Tab,
         \/ Reload(t) \/ Connect(t) \/ Disconnect(t)
         \/ ServerJoins(t) \/ JoinEnds(t) \/ ServerUpdates(t)
  PROVE  HeldUnlessDropped'
<1> USE DEF page, sockets, browser, server
<1> SUFFICES ASSUME NEW x \in Tab
             PROVE  doc'[x] \subseteq (stored \cup ToSend(x) \cup dropped)'
  BY DEF HeldUnlessDropped
<1>1. CASE x # t
  <2>1. doc'[x] = doc[x] /\ queue'[x] = queue[x] /\ post'[x] = post[x]
    BY <1>1 DEF Reload, Connect, Disconnect, ServerJoins, JoinEnds, ServerUpdates, Popped, TypeOK
  <2>2. up'[x] = up[x]
    BY <1>1 DEF Reload, Connect, Disconnect, HangUp, ServerJoins, JoinEnds, ServerUpdates,
                Popped, TypeOK
  <2>3. stored \subseteq stored' /\ dropped \subseteq dropped'
    BY DEF Reload, Connect, Disconnect, HangUp, ServerJoins, JoinEnds, ServerUpdates, Popped
  <2> QED BY <2>1, <2>2, <2>3, OthersHeld
<1>2. CASE x = t /\ Reload(t)
  <2>1. doc'[t] = {}
    BY <1>2 DEF Reload, TypeOK
  <2> QED BY <1>2, <2>1
<1>3. CASE x = t /\ Disconnect(t)
  <2>1. UNCHANGED <<doc, queue, post, stored>> /\ dropped' = dropped \cup Sent(t)
    BY <1>3 DEF Disconnect, HangUp
  <2>2. ToSend(t) \subseteq ToSend(t)' \cup dropped'
    <3>1. Sent(t) \subseteq Sent(t)' \cup dropped'
      BY <2>1
    <3> QED BY <2>1, <3>1, MoreToSend
  <2>3. dropped \subseteq dropped'
    BY <2>1
  <2> QED BY <1>3, <2>1, <2>2, <2>3 DEF HeldUnlessDropped
<1>4. CASE x = t /\ Connect(t)
  <2>1. UNCHANGED <<doc, queue, post, stored, dropped>>
    BY <1>4 DEF Connect
  <2>2. Sent(t) \subseteq Sent(t)'
    <3>1. up[t] \in Seq(Message) /\ Join \in Message
      BY DEF TypeOK, Join, Message
    <3>2. up'[t] = Append(up[t], Join)
      BY <1>4 DEF Connect, TypeOK
    <3> QED BY <3>1, <3>2, SentAppend
  <2>3. ToSend(t) \subseteq ToSend(t)' \cup {}
    BY <2>1, <2>2, MoreToSend
  <2> QED BY <1>4, <2>1, <2>3 DEF HeldUnlessDropped
<1>5. CASE x = t /\ JoinEnds(t)
  BY <1>5, OthersHeld DEF JoinEnds, Popped
<1>6. CASE x = t /\ (ServerJoins(t) \/ ServerUpdates(t))
  <2>1. UNCHANGED <<doc, queue, post>> /\ up[t] # <<>> /\ up'[t] = Tail(up[t])
    BY <1>6 DEF ServerJoins, ServerUpdates, Popped, TypeOK
  <2>2. /\ stored \subseteq stored' /\ dropped \subseteq dropped'
        /\ Head(up[t]).upd \subseteq stored' \cup dropped'
    BY <1>6 DEF ServerJoins, ServerUpdates, Join
  <2>3. Sent(t) \subseteq Sent(t)' \cup Head(up[t]).upd
    BY <2>1, SentTail DEF TypeOK
  <2>4. ToSend(t) \subseteq ToSend(t)' \cup (stored' \cup dropped')
    <3>1. Sent(t) \subseteq Sent(t)' \cup (stored' \cup dropped')
      BY <2>2, <2>3
    <3> QED BY <2>1, <3>1, MoreToSend
  <2> QED BY <1>6, <2>1, <2>2, <2>4 DEF HeldUnlessDropped
<1> QED BY <1>1, <1>2, <1>3, <1>4, <1>5, <1>6

LEMMA HeldStep == TypeOK /\ HeldUnlessDropped /\ [Next]_vars => HeldUnlessDropped'
<1> SUFFICES ASSUME TypeOK, HeldUnlessDropped, [Next]_vars PROVE HeldUnlessDropped'
  OBVIOUS
<1>1. CASE SeqLapses \/ UNCHANGED vars
  <2>1. UNCHANGED <<doc, queue, post, up, stored, dropped>>
    BY <1>1 DEF SeqLapses, vars, page, sockets, server
  <2> QED BY <2>1, OthersHeld DEF HeldUnlessDropped
<1> QED BY <1>1, ApplyStepHeld, RequestHeld, SocketHeld DEF Next, Works

(* With any number of tabs, edits, failed requests and reloads, an edit    *)
(* in an open document is stored, or its tab has it to send, or the socket *)
(* dropped it.                                                             *)
THEOREM EditsHeld == Spec => []HeldUnlessDropped
<1>1. Init => HeldUnlessDropped
  BY DEF Init, HeldUnlessDropped, Nothing
<1> QED BY <1>1, HeldStep, TypeInit, TypeStep, PTL DEF Spec
=============================================================================
