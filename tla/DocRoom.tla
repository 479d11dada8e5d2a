------------------------------ MODULE DocRoom ------------------------------
(***************************************************************************)
(* Joining and leaving the room of a document, around the relay of         *)
(* UpdateRelay.  doc:join enters the Socket.IO room, marks the user        *)
(* online, drains the user's offline queue, sends the stored state         *)
(* (y-init) and last of all counts the instance's subscription to the      *)
(* document's Redis channel; doc:leave and a lost connection undo parts of *)
(* that.  Each await ends a step, so updates are flushed, published and    *)
(* received between any two of them.  SUBSCRIBE and UNSUBSCRIBE travel on  *)
(* the instance's subscriber connection, which keeps their order.          *)
(*                                                                         *)
(* A socket connects once and has at most one join and one leave in        *)
(* flight, and asks to join again only when its leave is answered; a leave *)
(* may be sent at any time, also by who never joined.  A user who          *)
(* reconnects comes back on another socket.  Presence, claims and notices  *)
(* sent along with a join are left out.                                    *)
(***************************************************************************)
EXTENDS UpdateRelay, SequencesExt

CONSTANTS
  Capacity,  \* MAX_ROOM_CAPACITY
  Present    \* sockets that have joined before

ASSUME RoomAssumption ==
  /\ Capacity \in Nat \ {0} /\ IsFiniteSet(Socket) /\ Present \subseteq Socket
  /\ \A i \in Instance : Cardinality({c \in Present : On[c] = i}) <= Capacity

VARIABLES
  connected, \* sockets with a connection
  jpc,       \* per socket: where its doc:join is
  lpc,       \* per socket: where its doc:leave is
  closing,   \* lost connections whose handleDisconnect waits for the audit log
  refs,      \* per instance: subRefs of the document
  orders,    \* per instance: (un)subscriptions its connection has yet to carry out
  init,      \* per socket: the version its last y-init carried
  base,      \* history, per socket: the version stored when it was read or failed to be
  behind,    \* history: sockets whose last y-init was outdated or did not come
  deaf,      \* history: instances whose last SUBSCRIBE failed
  robbed,    \* history: instances a leave without a counted join took a reference from
  unheard    \* history, per instance: versions given up before they reached it

calls == <<connected, jpc, lpc, closing>>
channel == <<refs, orders, deaf, robbed>>
inits == <<init, base, behind>>
rooms == <<calls, channel, inits>>
relay == <<ingest, batches, flushes, lock, log, wire, ghosts, unheard>>
roomVars == <<vars, rooms, unheard>>

Entered == {"entered", "marked", "drained", "sent", "in"}

RoomTypeOK ==
  /\ TypeOK
  /\ connected \in SUBSET Socket /\ closing \in SUBSET Socket
  /\ jpc \in [Socket -> {"away", "out", "asked"} \cup Entered]
  /\ lpc \in [Socket -> {"none", "left", "forgotten"}]
  /\ refs \in [Instance -> Nat] /\ orders \in [Instance -> Seq({"sub", "unsub"})]
  /\ deaf \in SUBSET Instance /\ robbed \in SUBSET Instance
  /\ init \in [Socket -> Nat] /\ base \in [Socket -> Nat] /\ behind \in SUBSET Socket
  /\ unheard \in [Instance -> SUBSET Nat]

RoomInit ==
  /\ Start(Present)
  /\ connected = Present /\ closing = {}
  /\ jpc = [c \in Socket |-> IF c \in Present THEN "in" ELSE "away"]
  /\ lpc = [c \in Socket |-> "none"]
  /\ refs = [i \in Instance |-> Cardinality({c \in Present : On[c] = i})]
  /\ orders = [i \in Instance |-> <<>>] /\ deaf = {} /\ robbed = {}
  /\ init = [c \in Socket |-> 0] /\ base = [c \in Socket |-> 0] /\ behind = {}
  /\ unheard = [i \in Instance |-> {}]
-----------------------------------------------------------------------------
(* onJoin                                                                  *)

JoinAt(c, point) == jpc' = [jpc EXCEPT ![c] = point]

(* handleConnection: until it has attached the user to the socket every    *)
(* message is refused; it may turn the socket away (chaos, no token, one   *)
(* that does not verify, a foreign origin).                                *)
Connect(c) ==
  /\ jpc[c] = "away" /\ JoinAt(c, "out")
  /\ \/ connected' = connected \cup {c} /\ UNCHANGED quota
     \/ "refuse" \in Faults /\ Spend /\ UNCHANGED connected
  /\ UNCHANGED <<relay, got, queue, members, lpc, closing, channel, inits>>

Here(i) == {c \in room : On[c] = i}

(* The document and the user's role are looked up.                         *)
Ask(c) ==
  /\ c \in connected /\ jpc[c] = "out" /\ lpc[c] = "none" /\ JoinAt(c, "asked")
  /\ UNCHANGED <<relay, quota, got, queue, members, connected, lpc, closing, channel, inits>>

(* No such document, or Forbidden.                                         *)
Deny(c) ==
  /\ "refuse" \in Faults /\ Spend /\ jpc[c] = "asked" /\ JoinAt(c, "out")
  /\ UNCHANGED <<relay, got, queue, members, connected, lpc, closing, channel, inits>>

(* The capacity check and client.join, with no await in between; the room  *)
(* counts this instance's sockets.  A closed socket joins nothing.         *)
EnterUnlessOver(c) ==   \* mutant: > for >=
  /\ jpc[c] = "asked"
  /\ IF Cardinality(Here(On[c])) > Capacity
     THEN JoinAt(c, "out") /\ UNCHANGED <<room, joined>>
     ELSE /\ JoinAt(c, "entered") /\ joined' = joined \cup {c}
          /\ room' = room \cup ({c} \cap connected)
  /\ UNCHANGED <<relay, quota, got, queue, subs, online, connected, lpc, closing, channel, inits>>

Enter(c) ==
  /\ jpc[c] = "asked"
  /\ IF Cardinality(Here(On[c])) >= Capacity
     THEN JoinAt(c, "out") /\ UNCHANGED <<room, joined>>
     ELSE /\ JoinAt(c, "entered") /\ joined' = joined \cup {c}
          /\ room' = room \cup ({c} \cap connected)
  /\ UNCHANGED <<relay, quota, got, queue, subs, online, connected, lpc, closing, channel, inits>>

(* SADD to the online set, an error swallowed; then doc:joined.           *)
MarkOnline(c) ==
  /\ jpc[c] = "entered" /\ JoinAt(c, "marked")
  /\ \E ok \in BOOLEAN : /\ Try(ok)
                         /\ online' = IF ok THEN online \cup {UserOf[c]} ELSE online
  /\ UNCHANGED <<relay, got, queue, room, joined, subs, connected, lpc, closing, channel, inits>>

(* flushOfflineQueue: one RPOP, emitted to this socket only.               *)
DrainOne(c) ==
  LET u == UserOf[c]
      n == Len(queue[u])
  IN
  /\ jpc[c] = "marked" /\ n > 0
  /\ queue' = [queue EXCEPT ![u] = SubSeq(@, 1, n - 1)]
  /\ got' = IF c \in connected THEN [got EXCEPT ![c] = @ \cup {queue[u][n]}] ELSE got
  /\ UNCHANGED <<relay, quota, members, rooms>>

Drained(c) ==
  /\ jpc[c] = "marked" /\ Try(queue[UserOf[c]] = <<>>)
  /\ JoinAt(c, "drained")
  /\ UNCHANGED <<relay, got, queue, members, connected, lpc, closing, channel, inits>>

(* y-init with the stored state.  With the fault "stale" that may be the   *)
(* cached state of an earlier version (DocStore says when that happens);   *)
(* if it cannot be read the join goes on without a y-init.                 *)
Inited(c, v) ==
  /\ init' = [init EXCEPT ![c] = v] /\ base' = [base EXCEPT ![c] = Len(log)]
  /\ behind' = IF v < Len(log) THEN behind \cup {c} ELSE behind \ {c}

SendInitEarlier(c) ==   \* mutant: the write that just ended does not empty the cache
  /\ jpc[c] = "drained" /\ JoinAt(c, "sent")
  /\ init' = [init EXCEPT ![c] = IF log = <<>> THEN 0 ELSE Len(log) - 1]
  /\ base' = [base EXCEPT ![c] = Len(log)] /\ behind' = behind \ {c}
  /\ UNCHANGED <<relay, quota, got, queue, members, connected, lpc, closing, channel>>

SendInit(c) ==
  /\ jpc[c] = "drained" /\ JoinAt(c, "sent")
  /\ \/ UNCHANGED quota /\ Inited(c, Len(log))
     \/ "stale" \in Faults /\ Spend /\ \E v \in 0..Len(log) : Inited(c, v)
     \/ /\ Fails /\ UNCHANGED init
        /\ base' = [base EXCEPT ![c] = Len(log)] /\ behind' = behind \cup {c}
  /\ UNCHANGED <<relay, got, queue, members, connected, lpc, closing, channel>>

(* subscribeDocChannel: the first reference is counted, then subscribes.   *)
Subscribe(c) ==
  LET i == On[c] IN
  /\ jpc[c] = "sent" /\ JoinAt(c, "in")
  /\ refs' = [refs EXCEPT ![i] = @ + 1]
  /\ orders' = IF refs[i] = 0 THEN [orders EXCEPT ![i] = Append(@, "sub")] ELSE orders
  /\ UNCHANGED <<relay, quota, got, queue, members, connected, lpc, closing, deaf, robbed, inits>>

(* The connection carries out what it was asked; a failure is swallowed,   *)
(* and no later join tries again while the count is not zero.              *)
Execute(i) ==
  /\ orders[i] # <<>> /\ orders' = [orders EXCEPT ![i] = Tail(@)]
  /\ \E ok \in BOOLEAN :
       /\ Try(ok)
       /\ IF Head(orders[i]) = "sub"
          THEN /\ subs' = IF ok THEN subs \cup {i} ELSE subs
               /\ deaf' = IF ok THEN deaf \ {i} ELSE deaf \cup {i}
          ELSE subs' = (IF ok THEN subs \ {i} ELSE subs) /\ UNCHANGED deaf
  /\ UNCHANGED <<relay, got, queue, room, joined, online, calls, refs, robbed, inits>>
-----------------------------------------------------------------------------
(* onLeave                                                                 *)

LeaveAt(c, point) == lpc' = [lpc EXCEPT ![c] = point]

(* Nothing asks whether the socket ever joined.                            *)
LeaveRoom(c) ==
  /\ Spend /\ c \in connected /\ lpc[c] = "none"
  /\ room' = room \ {c} /\ LeaveAt(c, "left")
  /\ UNCHANGED <<relay, got, queue, joined, subs, online, connected, jpc, closing, channel, inits>>

(* joinedDocs forgets the document and the user is marked offline, on      *)
(* whatever other sockets the user is.                                     *)
Forget(c) ==
  /\ lpc[c] = "left" /\ LeaveAt(c, "forgotten") /\ joined' = joined \ {c}
  /\ \E ok \in BOOLEAN : /\ Try(ok)
                         /\ online' = IF ok THEN online \ {UserOf[c]} ELSE online
  /\ UNCHANGED <<relay, got, queue, room, subs, connected, jpc, closing, channel, inits>>

(* unsubscribeDocChannel: the last reference unsubscribes, whoever it was  *)
(* counted for.                                                            *)
Uncounted(c) == lpc[c] = "forgotten" /\ LeaveAt(c, "none")
                  /\ jpc' = [jpc EXCEPT ![c] = IF @ = "in" THEN "out" ELSE @]
UnsubscribeAtOnce(c) ==   \* mutant: no reference counting
  LET i == On[c] IN
  /\ Uncounted(c)
  /\ refs' = [refs EXCEPT ![i] = 0] /\ orders' = [orders EXCEPT ![i] = Append(@, "unsub")]
  /\ robbed' = IF jpc[c] # "in" /\ refs[i] > 0 THEN robbed \cup {i} ELSE robbed
  /\ UNCHANGED <<relay, quota, got, queue, members, connected, closing, deaf, inits>>

Unsubscribe(c) ==
  LET i == On[c] IN
  /\ Uncounted(c)
  /\ refs' = [refs EXCEPT ![i] = IF @ <= 1 THEN 0 ELSE @ - 1]
  /\ orders' = IF refs[i] <= 1 THEN [orders EXCEPT ![i] = Append(@, "unsub")] ELSE orders
  /\ robbed' = IF jpc[c] # "in" /\ refs[i] > 0 THEN robbed \cup {i} ELSE robbed
  /\ UNCHANGED <<relay, quota, got, queue, members, connected, closing, deaf, inits>>
-----------------------------------------------------------------------------
(* A lost connection: Socket.IO takes the socket out of its rooms, and     *)
(* handleDisconnect marks the user offline after its audit entry.  Neither *)
(* touches subRefs; a join in flight goes on.                              *)
Disconnect(c) ==
  /\ Spend /\ c \in connected /\ connected' = connected \ {c} /\ room' = room \ {c}
  /\ closing' = closing \cup {c}
  /\ UNCHANGED <<relay, got, queue, joined, subs, online, jpc, lpc, channel, inits>>

MarkOffline(c) ==
  /\ c \in closing /\ closing' = closing \ {c}
  /\ \E ok \in BOOLEAN :
       /\ Try(ok) /\ online' = IF ok /\ c \in joined THEN online \ {UserOf[c]} ELSE online
  /\ UNCHANGED <<relay, got, queue, room, joined, subs, connected, jpc, lpc, channel, inits>>

(* Which instances a version no longer reaches: all when its write fails   *)
(* after the commit or its process dies, else those it is not published to *)
(* or whose message is lost.                                               *)
GivenUp(vs, S) == unheard' = [i \in Instance |-> IF i \in S THEN unheard[i] \cup vs ELSE unheard[i]]
Missed(f) ==
  {i \in Instance \ {Runs[f]} : [to |-> i, origin |-> Runs[f], event |-> Ev(f)] \notin wire'}
RelayStep ==
  \/ (Harmless \/ \E h \in Handler : From[h] \in connected /\ Arrive(h)) /\ UNCHANGED unheard
  \/ \E f \in Flusher : \/ WriteFails(f) /\ GivenUp({fver[f]}, Instance)
                        \/ Publish(f) /\ GivenUp({fver[f]}, Missed(f))
  \/ \E w \in wire : Lose(w) /\ GivenUp({w.event.ver}, {w.to} \ {w.origin})

(* The process dies, and with it what it knew of its sockets.              *)
CrashInstance(i) ==
  LET gone(c) == On[c] = i IN
  /\ Crash(i) /\ GivenUp({fver[f] : f \in Dying(i)}, Instance)
  /\ connected' = {c \in connected : ~gone(c)} /\ closing' = {c \in closing : ~gone(c)}
  /\ jpc' = [c \in Socket |-> IF gone(c) /\ jpc[c] # "away" THEN "out" ELSE jpc[c]]
  /\ lpc' = [c \in Socket |-> IF gone(c) THEN "none" ELSE lpc[c]]
  /\ refs' = [refs EXCEPT ![i] = 0] /\ orders' = [orders EXCEPT ![i] = <<>>]
  /\ deaf' = deaf \ {i} /\ robbed' = robbed \ {i} /\ UNCHANGED inits
-----------------------------------------------------------------------------
JoinStep(c) ==
  \/ Enter(c) \/ MarkOnline(c) \/ DrainOne(c) \/ Drained(c) \/ SendInit(c) \/ Subscribe(c)
LeaveStep(c) == Forget(c) \/ Unsubscribe(c) \/ MarkOffline(c)

RoomNext ==
  \/ RelayStep /\ UNCHANGED rooms
  \/ \E c \in Socket : Connect(c) \/ Ask(c) \/ Deny(c) \/ JoinStep(c)
  \/ \E c \in Socket : LeaveRoom(c) \/ LeaveStep(c) \/ Disconnect(c)
  \/ \E i \in Instance : Execute(i) \/ CrashInstance(i)

RoomSpec == RoomInit /\ [][RoomNext]_roomVars
-----------------------------------------------------------------------------
(* However joins, leaves and lost connections overlap, an instance's room  *)
(* never holds more sockets than its capacity.                             *)
RoomWithinCapacity == \A i \in Instance : Cardinality(Here(i)) <= Capacity

(* A settled socket: its join has ended and it has not left the room.      *)
Settled(c) == jpc[c] = "in" /\ c \in room

(* An instance with a settled socket is subscribed to the channel or about *)
(* to be, whichever other sockets of it leave or lose their connection,    *)
(* and however its orders wait - unless its last SUBSCRIBE failed or a     *)
(* leave took a reference that was not its own.                            *)
SettledIsSubscribed ==
  \A c \in Socket : Settled(c) =>
    LET i == On[c] IN
    IF orders[i] = <<>> THEN i \in subs \cup deaf \cup robbed
                        ELSE Last(orders[i]) = "sub" \/ i \in robbed

(* "Join per-document room; receive initial Yjs state", updates            *)
(* "broadcast" (docs/architecture/overview.md:13-14): once a join has      *)
(* ended, every stored version was in the y-init, has reached the socket   *)
(* or is on its way to it - or its announcement was given up, or it was    *)
(* stored before a y-init that came outdated or not at all.                *)
OnItsWay(v, c) ==
  \/ \E f \in Flusher : /\ fver[f] = v
                        /\ IF Runs[f] = On[c] THEN fpc[f] \in {"compact", "emit"}
                                              ELSE fpc[f] # "idle"
  \/ \E w \in wire : w.to = On[c] /\ w.origin # w.to /\ w.event.ver = v
Reached(c, v) ==
  \/ v <= init[c] \/ (\E e \in got[c] : e.ver = v) \/ OnItsWay(v, c)
  \/ (c \in behind /\ v <= base[c]) \/ v \in unheard[On[c]]
JoinedCatchesUp ==
  \A c \in Socket : Settled(c) => \A v \in 1..Len(log) : Reached(c, v)
=============================================================================
