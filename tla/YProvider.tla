----------------------------- MODULE YProvider -----------------------------
(***************************************************************************)
(* The web client's SimpleYProvider in the tabs of one browser: how an     *)
(* edit made in a Y.Doc gets to the server, over REST in batches with a    *)
(* retry after a backoff, or over the socket while it is connected; how it *)
(* comes back; and what a page reload finds in localStorage, IndexedDB and *)
(* on the server.                                                          *)
(*                                                                         *)
(* A Y.Doc and an update are sets of edits, and applying is union: Yjs is  *)
(* external.  Its update event fires exactly when a document grew, and the *)
(* provider handles it the same way whatever made the document grow: no    *)
(* origin is looked at.  The server is what UpdateRelay and DocRoom say of *)
(* it, in one step per message and without faults.  wsQueue is left out:   *)
(* sendYUpdate is only called while wsConnected, so it is always empty.    *)
(***************************************************************************)
EXTENDS Naturals, Sequences

CONSTANTS
  Tab,
  Edit,      \* the edits made in them
  Realtime,  \* the tabs whose socket can connect; the others have REST only
  Quota      \* bound: faults (failed calls, reloads, lost connections)

ASSUME ProviderAssumption ==
  Realtime \subseteq Tab /\ Quota \in Nat

VARIABLES
  made,      \* edits made so far
  doc,       \* per tab: ydoc
  queue,     \* per tab: updates waiting for a REST flush
  timer,     \* per tab: is the batch timer armed
  retry,     \* per tab: is a flush due after a backoff or a resync
  post,      \* per tab: bodies of POST requests without an answer
  fresh,     \* tabs whose IndexedDB content is not loaded yet
  loading,   \* GET requests without an answer: <<tab, "load" or "resync">>
  seq,       \* per tab: wsSeq
  connected, \* per tab: wsConnected
  up, down,  \* per tab: the socket, in both directions
  kept,      \* localStorage doc-queue:<id>
  idb,       \* IndexedDB doc-<id>
  bc,        \* per tab: what BroadcastChannel has not delivered
  stored,    \* server: the document
  joining, member, \* server: tabs joining and in the room
  lastseq,   \* server: last sequence number of this user
  dropped,   \* history: edits the socket took and the server did not
  quota      \* faults left (bound)

page    == <<doc, queue, timer, retry, post, fresh, loading, seq>>
sockets == <<connected, up, down>>
browser == <<kept, idb, bc>>
server  == <<stored, joining, member, lastseq>>
vars == <<made, page, sockets, browser, server, dropped, quota>>

Message == [upd : SUBSET Edit, seq : Nat]
Join == [upd |-> {}, seq |-> 0]   \* doc:join; an update has seq >= 1

TypeOK ==
  /\ made \in SUBSET Edit /\ doc \in [Tab -> SUBSET Edit] /\ queue \in [Tab -> SUBSET Edit]
  /\ timer \in [Tab -> BOOLEAN] /\ retry \in [Tab -> BOOLEAN]
  /\ post \in [Tab -> SUBSET SUBSET Edit] /\ fresh \in SUBSET Tab
  /\ loading \in SUBSET (Tab \X {"load", "resync"}) /\ seq \in [Tab -> Nat]
  /\ connected \in [Tab -> BOOLEAN]
  /\ up \in [Tab -> Seq(Message)] /\ down \in [Tab -> Seq(SUBSET Edit)]
  /\ kept \in SUBSET Edit /\ idb \in SUBSET Edit /\ bc \in [Tab -> SUBSET Edit]
  /\ stored \in SUBSET Edit /\ joining \in SUBSET Tab /\ member \in SUBSET Tab
  /\ lastseq \in Nat /\ dropped \in SUBSET Edit /\ quota \in Nat

(* The tabs are opening a document that is still empty: IndexedDB, empty   *)
(* too, has been read.                                                     *)
Nothing == [t \in Tab |-> {}]
Init ==
  /\ made = {} /\ doc = Nothing /\ queue = Nothing /\ post = Nothing /\ bc = Nothing
  /\ timer = [t \in Tab |-> FALSE] /\ retry = [t \in Tab |-> FALSE]
  /\ fresh = {} /\ loading = Tab \X {"load"} /\ seq = [t \in Tab |-> 0]
  /\ connected = [t \in Tab |-> FALSE]
  /\ up = [t \in Tab |-> <<>>] /\ down = [t \in Tab |-> <<>>]
  /\ kept = {} /\ idb = {} /\ stored = {} /\ joining = {} /\ member = {}
  /\ lastseq = 0 /\ dropped = {} /\ quota = Quota
-----------------------------------------------------------------------------
(* enqueue: with the timer armed it returns before persistQueue.           *)
EnqueueIdle(t, u) ==   \* mutant: left to a backoff that nothing has scheduled
  /\ queue' = [queue EXCEPT ![t] = @ \cup u] /\ kept' = queue[t] \cup u
  /\ UNCHANGED timer

Enqueue(t, u) ==
  /\ queue' = [queue EXCEPT ![t] = @ \cup u]
  /\ timer' = [timer EXCEPT ![t] = TRUE]
  /\ kept' = IF timer[t] THEN kept ELSE queue[t] \cup u

(* What the other tabs have yet to hear.                                   *)
TellNobody(t, new, waiting) == waiting   \* mutant: nothing is posted
Tell(t, new, waiting) == [x \in Tab |-> IF x = t THEN waiting[x] ELSE waiting[x] \cup new]

(* Updates u are applied.  If the document grows, IndexedDB stores the     *)
(* difference, the update listener sends or queues it, and the other tabs  *)
(* are told.                                                               *)
Apply(t, u, waiting) ==
  LET new == u \ doc[t] IN
  /\ doc' = [doc EXCEPT ![t] = @ \cup u] /\ idb' = idb \cup new
  /\ bc' = Tell(t, new, waiting)
  /\ IF new # {} /\ connected[t]
     THEN /\ up' = [up EXCEPT ![t] = Append(@, [upd |-> new, seq |-> seq[t] + 1])]
          /\ seq' = [seq EXCEPT ![t] = @ + 1]
     ELSE UNCHANGED <<up, seq>>
  /\ IF new # {} /\ ~connected[t] THEN Enqueue(t, new) ELSE UNCHANGED <<queue, timer, kept>>

MakeEdit(t, e) ==
  /\ e \notin made /\ made' = made \cup {e} /\ Apply(t, {e}, bc)
  /\ UNCHANGED <<retry, post, fresh, loading, connected, down, server, dropped, quota>>

HearTab(t) ==
  /\ bc[t] # {} /\ Apply(t, bc[t], [bc EXCEPT ![t] = {}])
  /\ UNCHANGED <<made, retry, post, fresh, loading, connected, down, server, dropped, quota>>

(* y-indexeddb loads what it has stored.                                   *)
LoadIndexedDB(t) ==
  /\ t \in fresh /\ fresh' = fresh \ {t} /\ Apply(t, idb, bc)
  /\ UNCHANGED <<made, retry, post, loading, connected, down, server, dropped, quota>>

(* load and resync; a resync is followed by a flush.                       *)
GetAnswered(t, kind) ==
  /\ <<t, kind>> \in loading /\ loading' = loading \ {<<t, kind>>}
  /\ Apply(t, stored, bc)
  /\ retry' = [retry EXCEPT ![t] = @ \/ kind = "resync"]
  /\ UNCHANGED <<made, post, fresh, connected, down, server, dropped, quota>>

GetFails(t, kind) ==
  /\ quota > 0 /\ quota' = quota - 1
  /\ <<t, kind>> \in loading /\ loading' = loading \ {<<t, kind>>}
  /\ retry' = [retry EXCEPT ![t] = @ \/ kind = "resync"]
  /\ UNCHANGED <<made, doc, queue, timer, post, fresh, seq, sockets, browser, server, dropped>>

(* The browser is back online.                                             *)
BackOnline(t) ==
  /\ quota > 0 /\ quota' = quota - 1 /\ loading' = loading \cup {<<t, "resync">>}
  /\ UNCHANGED <<made, doc, queue, timer, retry, post, fresh, seq, sockets, browser, server, dropped>>
-----------------------------------------------------------------------------
(* flush: the batch timer is cleared, the queue emptied into one body.     *)
Flush(t) ==
  /\ timer' = [timer EXCEPT ![t] = FALSE]
  /\ IF queue[t] = {} THEN UNCHANGED <<queue, post>>
     ELSE queue' = [queue EXCEPT ![t] = {}] /\ post' = [post EXCEPT ![t] = @ \cup {queue[t]}]

BatchDue(t) ==
  /\ timer[t] /\ Flush(t)
  /\ UNCHANGED <<made, doc, retry, fresh, loading, seq, sockets, browser, server, dropped, quota>>

BackoffDue(t) ==
  /\ retry[t] /\ retry' = [retry EXCEPT ![t] = FALSE] /\ Flush(t)
  /\ UNCHANGED <<made, doc, fresh, loading, seq, sockets, browser, server, dropped, quota>>

(* retryNow, and the flush of a component that unmounts.                   *)
RetryNow(t) ==
  /\ queue[t] # {} /\ Flush(t)
  /\ UNCHANGED <<made, doc, retry, fresh, loading, seq, sockets, browser, server, dropped, quota>>

(* The server stores a posted body; it tells no socket of it.  On the      *)
(* answer, persistQueue.                                                   *)
PostAnswered(t, u) ==
  /\ u \in post[t] /\ post' = [post EXCEPT ![t] = @ \ {u}]
  /\ stored' = stored \cup u /\ kept' = queue[t]
  /\ UNCHANGED <<made, doc, queue, timer, retry, fresh, loading, seq, sockets, idb, bc,
                 joining, member, lastseq, dropped, quota>>

(* No answer, or an error: back into the queue, and a backoff.  The server *)
(* may have stored it all the same.                                        *)
PostFailsQuietly(t, u) ==   \* mutant: the body is not queued again
  /\ quota > 0 /\ quota' = quota - 1
  /\ u \in post[t] /\ post' = [post EXCEPT ![t] = @ \ {u}]
  /\ retry' = [retry EXCEPT ![t] = TRUE]
  /\ UNCHANGED <<made, doc, queue, timer, fresh, loading, seq, sockets, browser, server, dropped>>

PostFails(t, u) ==
  /\ quota > 0 /\ quota' = quota - 1
  /\ u \in post[t] /\ post' = [post EXCEPT ![t] = @ \ {u}]
  /\ stored' \in {stored, stored \cup u}
  /\ Enqueue(t, u) /\ retry' = [retry EXCEPT ![t] = TRUE]
  /\ UNCHANGED <<made, doc, fresh, loading, seq, sockets, idb, bc, joining, member, lastseq, dropped>>

Sent(t) == UNION {up[t][k].upd : k \in 1..Len(up[t])}

(* The connection ends, with what it had not delivered.                    *)
HangUp(t) ==
  /\ connected' = [connected EXCEPT ![t] = FALSE] /\ dropped' = dropped \cup Sent(t)
  /\ up' = [up EXCEPT ![t] = <<>>] /\ down' = [down EXCEPT ![t] = <<>>]
  /\ joining' = joining \ {t} /\ member' = member \ {t}

(* The page is reloaded: requests under way may still be served, and       *)
(* restoreQueue arms no timer.                                             *)
Reload(t) ==
  /\ quota > 0 /\ quota' = quota - 1
  /\ \E served \in SUBSET post[t] : stored' = stored \cup UNION served
  /\ doc' = [doc EXCEPT ![t] = {}] /\ queue' = [queue EXCEPT ![t] = kept]
  /\ timer' = [timer EXCEPT ![t] = FALSE] /\ retry' = [retry EXCEPT ![t] = FALSE]
  /\ post' = [post EXCEPT ![t] = {}] /\ bc' = [bc EXCEPT ![t] = {}]
  /\ fresh' = fresh \cup {t}
  /\ loading' = {g \in loading : g[1] # t} \cup {<<t, "load">>}
  /\ seq' = [seq EXCEPT ![t] = 0]
  /\ HangUp(t) /\ UNCHANGED <<made, kept, idb, lastseq>>
-----------------------------------------------------------------------------
(* The socket, and the server behind it.                                   *)

Connect(t) ==
  /\ t \in Realtime /\ ~connected[t] /\ connected' = [connected EXCEPT ![t] = TRUE]
  /\ up' = [up EXCEPT ![t] = Append(@, Join)]
  /\ UNCHANGED <<made, page, down, browser, server, dropped, quota>>

Disconnect(t) ==
  /\ quota > 0 /\ quota' = quota - 1
  /\ connected[t] /\ retry' = [retry EXCEPT ![t] = TRUE]
  /\ HangUp(t) /\ UNCHANGED <<made, doc, queue, timer, post, fresh, loading, seq, browser, stored, lastseq>>

Popped == UNCHANGED <<made, page, connected, browser, quota>>

ServerJoins(t) ==
  /\ up[t] # <<>> /\ Head(up[t]) = Join /\ up' = [up EXCEPT ![t] = Tail(@)]
  /\ joining' = joining \cup {t} /\ Popped
  /\ UNCHANGED <<down, stored, member, lastseq, dropped>>

(* onJoin has looked up what it needs; y-init.                             *)
JoinEnds(t) ==
  /\ t \in joining /\ joining' = joining \ {t} /\ member' = member \cup {t}
  /\ down' = [down EXCEPT ![t] = Append(@, stored)]
  /\ Popped /\ UNCHANGED <<up, stored, lastseq, dropped>>

Broadcast(u) == down' = [t \in Tab |-> IF t \in member THEN Append(down[t], u) ELSE down[t]]

(* onYUpdate: "Not in document room" is an exception, an old sequence      *)
(* number an acknowledgement of its own; the client listens to neither.    *)
ServerUpdates(t) ==
  LET m == Head(up[t]) IN
  /\ up[t] # <<>> /\ m # Join /\ up' = [up EXCEPT ![t] = Tail(@)]
  /\ IF t \in member /\ m.seq > lastseq
     THEN /\ stored' = stored \cup m.upd /\ lastseq' = m.seq /\ Broadcast(m.upd)
          /\ UNCHANGED dropped
     ELSE dropped' = dropped \cup m.upd /\ UNCHANGED <<stored, lastseq, down>>
  /\ Popped /\ UNCHANGED <<joining, member>>

(* The key of the sequence number expires.                                 *)
SeqLapses ==
  /\ lastseq # 0 /\ lastseq' = 0
  /\ UNCHANGED <<made, page, sockets, browser, stored, joining, member, dropped, quota>>

(* y-init or y-update.                                                     *)
HearServer(t) ==
  /\ down[t] # <<>> /\ down' = [down EXCEPT ![t] = Tail(@)] /\ Apply(t, Head(down[t]), bc)
  /\ UNCHANGED <<made, retry, post, fresh, loading, connected, server, dropped, quota>>
-----------------------------------------------------------------------------
Works(t) ==
  \/ HearTab(t) \/ LoadIndexedDB(t) \/ BatchDue(t) \/ BackoffDue(t)
  \/ \E kind \in {"load", "resync"} : GetAnswered(t, kind)
  \/ \E u \in post[t] : PostAnswered(t, u)
  \/ ServerJoins(t) \/ JoinEnds(t) \/ ServerUpdates(t) \/ HearServer(t)

Next ==
  \/ \E t \in Tab : Works(t)
  \/ \E t \in Tab : RetryNow(t) \/ BackOnline(t) \/ Reload(t) \/ Connect(t) \/ Disconnect(t)
  \/ \E t \in Tab, e \in Edit : MakeEdit(t, e)
  \/ \E t \in Tab, kind \in {"load", "resync"} : GetFails(t, kind)
  \/ \E t \in Tab : \E u \in post[t] : PostFails(t, u)
  \/ SeqLapses

Spec == Init /\ [][Next]_vars

(* Timers fire, and a request or message is in the end answered or         *)
(* delivered: as long as something is due, something of it happens, in no  *)
(* order and with no turns. Faults are finitely many.                      *)
Fairness == WF_vars(\E t \in Tab : Works(t))

FairSpec == Spec /\ Fairness
-----------------------------------------------------------------------------
(* "Edits queue locally and sync when online" (docs/editor/USAGE.md:11):   *)
(* however requests fail and pages are reloaded, an edit in an open        *)
(* document is on the server, or its tab has it to send, or the socket     *)
(* took it and the server did not.                                         *)
ToSend(t) == queue[t] \cup (UNION post[t]) \cup Sent(t)
HeldUnlessDropped == \A t \in Tab : doc[t] \subseteq stored \cup ToSend(t) \cup dropped

(* Every edit reaches the server or is dropped by the socket.              *)
EditSyncs == \A e \in Edit : e \in made ~> e \in stored \cup dropped

(* The echoes among listeners, tabs and server die out, with every tab     *)
(* showing every edit made in any of them.  Only a queue that a reload     *)
(* restored may be left over: nothing arms a timer for it.                 *)
Quiet(t) == ~timer[t] /\ post[t] = {} /\ bc[t] = {} /\ up[t] = <<>> /\ down[t] = <<>>
TabsSettle == <>[](\A t \in Tab : Quiet(t) /\ made \subseteq doc[t])
=============================================================================
