--------------------------- MODULE AccountsProofs ---------------------------
(***************************************************************************)
(* The properties of Accounts, for any number of requests and sessions and *)
(* any key stores to start with, and that Accounts implements SessionLife; *)
(* and those of Credentials, for any number of requests, addresses,        *)
(* passwords and tokens.                                                   *)
(***************************************************************************)
EXTENDS Accounts, Credentials, FiniteSetTheorems, TLAPS

OpenSteps  == {"setRefresh", "setSession", "list", "expire"}
CloseSteps == {"delSession", "unlist", "find", "delUnowned"}
Signing    == {"load", "save", "reload"}
Goal       == {"none", "access", "refresh", "check", "verify", "logout", "revoke", "erase"}

(* A session that was opened, at some time.                                *)
Opened(s) == \E o \in Session \cup {None} : <<s, o>> \in lineage
Todo      == UNION {req[p].todo : p \in Proc}

RequestRecord ==
  [pc : Point, goal : Goal, old : Session \cup {None}, new : Session \cup {None}, ttl : {Short, Long},
   copy : SUBSET [cur : Nat, keys : SUBSET Key], acc : Nat, todo : SUBSET Session]
StoresTyped == KeyStore(store) /\ \A p \in Proc : \A ks \in req[p].copy : KeyStore(ks)
RecordsTyped ==
  /\ now \in Nat /\ load \in Starts /\ quota \in Nat /\ fresh \in Nat /\ until \in Nat
  /\ refresh \in [Session -> Nat] /\ session \in [Session -> Nat]
  /\ tok \in [Session -> [id : Nat, secret : Nat, exp : Nat]]
  /\ lineage \subseteq Session \X (Session \cup {None})
  /\ listed \subseteq Session /\ given \subseteq Session /\ dropped \subseteq Session
  /\ broken \subseteq Session /\ reused \subseteq Nat

(* What a request at each point is about.                                  *)
Shape(r) ==
  /\ r.pc = "idle" => r = Idle
  /\ r.new # None <=> r.pc \in OpenSteps
  /\ r.pc \in {"get", "delRefresh", "revoke"} \cup CloseSteps => r.old # None
  /\ r.pc \in {"get", "delRefresh"} => r.goal = "access"
  /\ r.pc \in {"revoke", "find", "delUnowned"} => r.goal \in {"logout", "revoke"}
  /\ r.pc \in {"delSession", "unlist"} => r.goal \in {"access", "logout", "revoke"}
  /\ r.pc \in Signing => r.goal \in {"access", "refresh", "check", "verify"}
  /\ r.pc \in OpenSteps => r.goal = "refresh"
  /\ r.copy # {} <=> r.pc = "save"
  /\ r.todo # {} => r.pc = "erase"
Shaped == req \in [Proc -> RequestRecord] /\ \A p \in Proc : Shape(req[p])

(* Requests and records make sense, and so do key stores.                  *)
Base == Shaped /\ RecordsTyped /\ StoresTyped /\ CurrentUsable

(* Session ids are handed out in order, and each to one request.           *)
InOrder == \E m \in 0..Sessions : Minted = 1..m
NewOnce == /\ \A p \in Proc : req[p].new # None => req[p].new \in Minted
           /\ \A p, q \in Proc : req[p].new # None /\ req[p].new = req[q].new => p = q

(* A session is opened once, with what it replaces, by the request that    *)
(* made its token.                                                         *)
OpenedOnce ==
  /\ \A s \in Session, o, r \in Session \cup {None} : <<s, o>> \in lineage /\ <<s, r>> \in lineage => o = r
  /\ \A s \in Session : Opened(s) => s \in Minted
  /\ \A p \in Proc : /\ At(p, "setRefresh") => ~Opened(req[p].new)
                     /\ req[p].pc \in {"setSession", "list", "expire"} => Opened(req[p].new)

(* What anyone can name, or hold, was opened; what a request has closed    *)
(* stays closed.                                                           *)
KnownOpened ==
  /\ \A s \in given \cup listed \cup Todo : Opened(s)
  /\ \A s \in Session : Held(s) => Opened(s)
OldClosed ==
  \A p \in Proc : req[p].old # None =>
    /\ Opened(req[p].old)
    /\ Held(req[p].old) => req[p].pc \in {"get", "delRefresh", "revoke"} \/ req[p].goal = "verify"

LifeInv == Base /\ InOrder /\ NewOnce /\ OpenedOnce /\ KnownOpened /\ OldClosed

(* Until a session is listed nobody knows it, so nobody closes it.         *)
Unseen ==
  \A p \in Proc : req[p].pc \in {"setSession", "list"} =>
    /\ \A q \in Proc : req[p].new \notin given \cup listed \cup req[q].todo \cup {req[q].old}
    /\ Held(req[p].new)
    /\ At(p, "list") => session[req[p].new] # 0

(* The two records of a session expire with its token.                     *)
Expiries ==
  /\ \A s \in Session : /\ refresh[s] # 0 => refresh[s] = tok[s].exp /\ refresh[s] > now
                        /\ session[s] # 0 => session[s] = tok[s].exp
  /\ \A p \in Proc : req[p].new # None => tok[req[p].new].exp = now + req[p].ttl

(* A session whose token nobody has is closed, or about to be.             *)
SignedOut ==
  \A s \in Minted \ (given \cup broken) : AcceptedByGuard(tok[s].secret) /\ Held(s) =>
    \E p \in Proc : req[p].new = s \/ (At(p, "revoke") /\ req[p].old = s)

(* An open session of which a token is, or is about to be, in hand is      *)
(* shown; one that is shown is open or about to vanish.                    *)
InHand(s) == s \in given \/ \E p \in Proc : At(p, "expire") /\ req[p].new = s
OpenShown == \A s \in Session \ (broken \cup dropped) : Held(s) /\ InHand(s) => s \in Shown
Vanishing(s) == \E p \in Proc : req[p].pc \in {"find", "delSession", "delUnowned"} /\ req[p].old = s
ShownOpen == \A s \in Shown \ broken : Held(s) \/ Vanishing(s)

SessionInv == LifeInv /\ Unseen /\ Expiries /\ SignedOut /\ OpenShown /\ ShownOpen

(* Key stores are usable, requests that overlap and rotate have copies of  *)
(* one key store, which is still there or was rotated by one of them, and  *)
(* the key that signs is not due.                                          *)
Copies == UNION {req[p].copy : p \in Proc}
CopiesDue ==
  /\ \A ks, other \in Copies : ks = other
  /\ \A ks \in Copies : /\ Due(ks, now)
                        /\ store = ks \/ \E secret \in 1..fresh : store = Rotated(ks, now, secret)
SignsFresh == \A p \in Proc : At(p, "reload") => ~Due(store, now)

(* The key of a token outlives it, unless its id was overwritten.          *)
KeyKept ==
  \A s \in Minted : tok[s].exp > now /\ tok[s].id \notin reused =>
    \E k \in store.keys : k.id = tok[s].id /\ k.secret = tok[s].secret /\ tok[s].exp <= k.born + 3 * R

KeyInv == Base /\ CopiesDue /\ SignsFresh /\ KeyKept
-----------------------------------------------------------------------------
(* Key stores                                                              *)

(* The times are positive, and a token lives for two rotations at most.    *)
LEMMA Times ==
  /\ R \in Nat \ {0} /\ Short \in Nat \ {0} /\ Long \in Nat \ {0}
  /\ \A ttl \in {Short, Long} : ttl \in Nat \ {0} /\ ttl <= 2 * R
BY AccountsAssumption

(* The current key of a usable store is one of its keys.                   *)
LEMMA CurrentIsAKey ==
  ASSUME NEW ks, KeyStore(ks), Usable(ks)
  PROVE  Current(ks) \in ks.keys /\ Current(ks).id = ks.cur /\ Current(ks) \in Key
<1>1. PICK k \in ks.keys : k.id = ks.cur
  BY DEF Usable
<1>2. Current(ks) \in ks.keys /\ Current(ks).id = ks.cur
  BY <1>1 DEF Current, KeyOf
<1> QED
  BY <1>2 DEF KeyStore

(* A rotation makes a usable key store, whose current key is the new one.  *)
LEMMA RotatedIsUsable ==
  ASSUME NEW ks, KeyStore(ks), Usable(ks), NEW t \in Nat, NEW secret \in Nat
  PROVE  /\ KeyStore(Rotated(ks, t, secret)) /\ Usable(Rotated(ks, t, secret))
         /\ Current(Rotated(ks, t, secret)) = [id |-> Cardinality(ks.keys) + 1, secret |-> secret, born |-> t]
<1> DEFINE id   == Cardinality(ks.keys) + 1
           key  == [id |-> id, secret |-> secret, born |-> t]
           kept == {k \in ks.keys : k.id # id /\ k.born + 3 * R >= t}
           new  == Rotated(ks, t, secret)
<1>1. id \in Nat
  BY FS_CardinalityType DEF KeyStore
<1>2. new = [cur |-> id, keys |-> kept \cup {key}]
  BY DEF Rotated
<1>3. kept \subseteq ks.keys /\ key \in Key
  BY <1>1 DEF Key
<1>4. IsFiniteSet(kept \cup {key})
  <2>1. IsFiniteSet(kept)
    BY <1>3, FS_Subset DEF KeyStore
  <2> QED
    BY <2>1, FS_AddElement
<1>5. KeyStore(new)
  BY <1>1, <1>2, <1>3, <1>4 DEF KeyStore
<1>6. Usable(new)
  <2>1. key \in new.keys /\ key.id = new.cur
    BY <1>2
  <2>2. ASSUME NEW j \in kept \cup {key}, NEW k \in kept \cup {key}, j.id = k.id PROVE j = k
    BY <2>2 DEF Usable
  <2> HIDE DEF kept, key
  <2>3. new.keys = kept \cup {key}
    BY <1>2
  <2> HIDE DEF new
  <2> QED
    BY <2>1, <2>2, <2>3 DEF Usable
<1>7. Current(new) = key
  <2>1. Current(new) \in new.keys /\ Current(new).id = new.cur
    BY <1>5, <1>6, CurrentIsAKey
  <2> QED
    BY <1>2, <1>6, <2>1 DEF Usable
<1> QED
  BY <1>5, <1>6, <1>7

(* So a key store that was rotated just now is not due.                    *)
LEMMA RotatedNotDue ==
  ASSUME NEW ks, KeyStore(ks), Usable(ks), NEW t \in Nat, NEW secret \in Nat
  PROVE  ~Due(Rotated(ks, t, secret), t)
BY RotatedIsUsable, Times DEF Due
-----------------------------------------------------------------------------
(* Requests and records make sense                                         *)

LEMMA InitBase == Init => Base
<1> SUFFICES ASSUME Init PROVE Base
  OBVIOUS
<1>1. load \in Starts /\ KeyStore(store) /\ Usable(store) /\ {now, fresh, quota} \subseteq Nat
  BY AccountsAssumption DEF Init
<1>2. Idle \in RequestRecord /\ Shape(Idle)
  BY DEF Idle, RequestRecord, Shape, Point, Goal, OpenSteps, CloseSteps, Signing, None
<1>3. Shaped /\ \A p \in Proc : req[p].copy = {}
  BY <1>2 DEF Init, Shaped, Idle
<1>4. RecordsTyped
  BY <1>1 DEF Init, RecordsTyped, NoToken
<1> QED
  BY <1>1, <1>3, <1>4 DEF Base, StoresTyped, CurrentUsable

(* A request that moves on keeps its shape; only a fresh load adds a copy  *)
(* of the key store.                                                       *)
LEMMA MoveShaped ==
  ASSUME Base, NEW p \in Proc, NEW r \in RequestRecord, Shape(r), req' = [req EXCEPT ![p] = r],
         r.copy \subseteq req[p].copy \cup {store}
  PROVE  Shaped' /\ \A q \in Proc : \A ks \in req'[q].copy : KeyStore(ks) /\ Usable(ks)
<1>1. req' \in [Proc -> RequestRecord] /\ req'[p] = r /\ \A q \in Proc \ {p} : req'[q] = req[q]
  BY DEF Base, Shaped
<1>2. Shaped'
  BY <1>1 DEF Base, Shaped
<1>3. ASSUME NEW q \in Proc, NEW ks \in req'[q].copy PROVE KeyStore(ks) /\ Usable(ks)
  BY <1>1, <1>3 DEF Base, StoresTyped, CurrentUsable
<1> QED
  BY <1>2, <1>3
LEMMA MoveBase ==
  ASSUME Base, NEW p \in Proc, NEW r \in RequestRecord, Shape(r), req' = [req EXCEPT ![p] = r],
         r.copy \subseteq req[p].copy \cup {store}, UNCHANGED store, RecordsTyped'
  PROVE  Base'
BY MoveShaped DEF Base, StoresTyped, CurrentUsable
LEMMA GoBase ==
  ASSUME Base, NEW p \in Proc, NEW pc \in Point, Go(p, pc), Shape([req[p] EXCEPT !.pc = pc]),
         UNCHANGED store, RecordsTyped'
  PROVE  Base'
<1> DEFINE r == [req[p] EXCEPT !.pc = pc]
<1>1. r \in RequestRecord /\ r.copy = req[p].copy
  BY DEF Base, Shaped, RequestRecord
<1>2. req' = [req EXCEPT ![p] = r]
  BY DEF Go
<1> QED
  BY <1>1, <1>2, MoveBase
LEMMA DoneBase ==
  ASSUME Base, NEW p \in Proc, Done(p), UNCHANGED store, RecordsTyped'
  PROVE  Base'
<1>1. Idle \in RequestRecord /\ Shape(Idle) /\ Idle.copy = {}
  BY DEF Idle, RequestRecord, Shape, Point, Goal, OpenSteps, CloseSteps, Signing, None
<1> QED
  BY <1>1, MoveBase DEF Done

LEMMA SigningBase ==
  ASSUME Base, NEW p \in Proc, Load(p) \/ Save(p) \/ Reload(p) \/ Daily(p) \/ Login(p) \/ OAuth(p)
  PROVE  Base'
<1> USE DEF OpenSteps, CloseSteps, Signing, None
<1>0. req[p] \in RequestRecord /\ Shape(req[p]) /\ fresh \in Nat /\ now \in Nat
  BY DEF Base, Shaped, RecordsTyped
<1>1. ASSUME Load(p) PROVE Base'
  <2>1. RecordsTyped' /\ UNCHANGED store /\ req[p].pc = "load"
    BY <1>1 DEF Load, At, Base, RecordsTyped, keyring, records, history
  <2>2. CASE Due(store, now)
    <3> DEFINE r == [req[p] EXCEPT !.copy = {store}, !.pc = "save"]
    <3>1. r \in RequestRecord /\ r.copy = {store}
      BY <1>0 DEF Base, StoresTyped, KeyStore, RequestRecord, Point
    <3>2. Shape(r)
      BY <1>0, <2>1 DEF Shape, RequestRecord, Idle
    <3>3. req' = [req EXCEPT ![p] = r]
      BY <1>1, <2>2 DEF Load
    <3> QED
      BY <2>1, <3>1, <3>2, <3>3, MoveBase
  <2>3. CASE ~Due(store, now)
    <3>1. Go(p, "reload") /\ "reload" \in Point
      BY <1>1, <2>3 DEF Load, Point
    <3>2. Shape([req[p] EXCEPT !.pc = "reload"])
      BY <1>0, <2>1 DEF Shape, RequestRecord, Idle
    <3> QED
      BY <2>1, <3>1, <3>2, GoBase
  <2> QED
    BY <2>2, <2>3
<1>2. ASSUME Save(p) PROVE Base'
  <2>1. PICK mine \in req[p].copy : /\ store' = Rotated(mine, now, fresh + 1)
          /\ reused' = reused \cup {k.id : k \in {k \in store.keys : k.id \in Kids(store') /\ k \notin store'.keys}}
    BY <1>2 DEF Save
  <2>2. KeyStore(mine) /\ Usable(mine)
    BY DEF Base, StoresTyped, CurrentUsable
  <2>3. KeyStore(store') /\ Usable(store')
    BY <1>0, <2>1, <2>2, RotatedIsUsable
  <2>4. RecordsTyped'
    <3>1. reused' \subseteq Nat
      BY <2>1 DEF Base, StoresTyped, KeyStore, Key, RecordsTyped
    <3> QED
      BY <1>2, <3>1 DEF Save, Base, RecordsTyped, records, history
  <2> DEFINE r == [req[p] EXCEPT !.pc = "reload", !.copy = {}]
  <2>5. r \in RequestRecord /\ r.copy = {}
    BY <1>0 DEF RequestRecord, Point
  <2>6. Shape(r)
    BY <1>0, <1>2 DEF Save, At, Shape, RequestRecord, Idle
  <2>7. req' = [req EXCEPT ![p] = r]
    BY <1>2 DEF Save
  <2> QED
    BY <2>3, <2>4, <2>5, <2>6, <2>7, MoveShaped DEF Base, StoresTyped, CurrentUsable
<1>3. ASSUME Reload(p) PROVE Base'
  <2>0. Current(store) \in Key /\ req[p].pc = "reload"
    BY <1>3, CurrentIsAKey DEF Base, StoresTyped, CurrentUsable, Reload, At
  <2>1. CASE req[p].goal = "access"
    <3> DEFINE r == [req[p] EXCEPT !.pc = "load", !.goal = "refresh", !.acc = Current(store).secret]
    <3>1. r \in RequestRecord /\ r.copy = req[p].copy
      BY <1>0, <2>0 DEF RequestRecord, Key, Point, Goal
    <3>2. Shape(r)
      BY <1>0, <2>0 DEF Shape, RequestRecord, Idle
    <3>3. req' = [req EXCEPT ![p] = r] /\ UNCHANGED tok
      BY <1>3, <2>1 DEF Reload
    <3>4. UNCHANGED store /\ RecordsTyped'
      BY <1>3, <3>3 DEF Reload, Base, RecordsTyped, keyring, records, history
    <3> QED
      BY <3>1, <3>2, <3>3, <3>4, MoveBase
  <2>2. CASE req[p].goal = "refresh"
    <3> DEFINE s == Cardinality(Minted) + 1
               t == [id |-> Current(store).id, secret |-> Current(store).secret, exp |-> now + req[p].ttl]
               r == [req[p] EXCEPT !.pc = "setRefresh", !.new = s]
    <3>1. s \in Session /\ req' = [req EXCEPT ![p] = r] /\ tok' = [tok EXCEPT ![s] = t]
      BY <1>3, <2>2 DEF Reload
    <3>2. t \in [id : Nat, secret : Nat, exp : Nat]
      BY <1>0, <2>0, Times DEF RequestRecord, Key
    <3>3. UNCHANGED store /\ RecordsTyped'
      <4> HIDE DEF s, t
      <4> QED
        BY <1>3, <3>1, <3>2 DEF Reload, Base, RecordsTyped, keyring, records, history
    <3>4. r \in RequestRecord /\ r.copy = req[p].copy
      <4> HIDE DEF s
      <4> QED
        BY <1>0, <3>1 DEF RequestRecord, Point
    <3>5. Shape(r)
      <4>1. s # 0
        BY <3>1 DEF Session
      <4> HIDE DEF s
      <4> QED
        BY <1>0, <2>0, <2>2, <4>1 DEF Shape, RequestRecord, Idle
    <3> QED
      BY <3>1, <3>3, <3>4, <3>5, MoveBase
  <2>3. CASE req[p].goal \notin {"access", "refresh"}
    <3>1. Done(p) /\ UNCHANGED tok
      BY <1>3, <2>3 DEF Reload
    <3>2. UNCHANGED store /\ RecordsTyped'
      BY <1>3, <3>1 DEF Reload, Base, RecordsTyped, keyring, records, history
    <3> QED
      BY <3>1, <3>2, DoneBase
  <2> QED
    BY <2>1, <2>2, <2>3
<1>4. ASSUME Daily(p) PROVE Base'
  <2> DEFINE r == [req[p] EXCEPT !.pc = "load", !.goal = "check"]
  <2>1. UNCHANGED store /\ RecordsTyped' /\ req' = [req EXCEPT ![p] = r] /\ req[p] = Idle
    BY <1>0, <1>4 DEF Daily, At, Shape, Base, RecordsTyped, keyring, records, history
  <2>2. r \in RequestRecord /\ r.copy = req[p].copy
    BY <1>0 DEF RequestRecord, Point, Goal
  <2>3. Shape(r)
    BY <1>0, <2>1 DEF Shape, RequestRecord, Idle
  <2> QED
    BY <2>1, <2>2, <2>3, MoveBase
<1>5. ASSUME NEW ttl \in {Short, Long}, SignIn(p, ttl) PROVE Base'
  <2> DEFINE r == [req[p] EXCEPT !.pc = "load", !.goal = "access", !.ttl = ttl]
  <2>1. UNCHANGED store /\ RecordsTyped' /\ req' = [req EXCEPT ![p] = r] /\ req[p] = Idle
    BY <1>0, <1>5 DEF SignIn, At, Shape, Base, RecordsTyped, keyring, records, history
  <2>2. r \in RequestRecord /\ r.copy = req[p].copy
    BY <1>0 DEF RequestRecord, Point, Goal
  <2>3. Shape(r)
    BY <1>0, <2>1 DEF Shape, RequestRecord, Idle
  <2> QED
    BY <2>1, <2>2, <2>3, MoveBase
<1> QED
  BY <1>1, <1>2, <1>3, <1>4, <1>5 DEF Login, OAuth

LEMMA OpeningBase ==
  ASSUME Base, NEW p \in Proc, SetRefresh(p) \/ SetSession(p) \/ List(p) \/ Expire(p)
  PROVE  Base'
<1> USE DEF OpenSteps, CloseSteps, Signing, None
<1>0. req[p] \in RequestRecord /\ Shape(req[p]) /\ now \in Nat
  BY DEF Base, Shaped, RecordsTyped
<1>1. req[p].pc \in OpenSteps
  BY DEF SetRefresh, SetSession, List, Expire, At
<1>2. req[p].new \in Session /\ req[p].old \in Session \cup {None} /\ now + req[p].ttl \in Nat
  BY <1>0, <1>1, Times DEF Shape, RequestRecord
<1>3. RecordsTyped' /\ UNCHANGED store
  <2>1. CASE SetRefresh(p)
    BY <1>2, <2>1 DEF SetRefresh, Base, RecordsTyped, keyring
  <2>2. CASE SetSession(p)
    BY <1>2, <2>2 DEF SetSession, Base, RecordsTyped, keyring, history
  <2>3. CASE List(p)
    BY <1>2, <2>3 DEF List, Base, RecordsTyped, keyring, history
  <2>4. CASE Expire(p)
    BY <1>2, <2>4 DEF Expire, Base, RecordsTyped, keyring, history
  <2> QED
    BY <2>1, <2>2, <2>3, <2>4
<1>4. \A pc \in {"setSession", "list", "expire"} : pc \in Point /\ Shape([req[p] EXCEPT !.pc = pc])
  BY <1>0, <1>1 DEF Shape, RequestRecord, Point
<1>5. Done(p) \/ \E pc \in {"setSession", "list", "expire"} : Go(p, pc)
  BY DEF SetRefresh, SetSession, List, Expire
<1> QED
  BY <1>3, <1>4, <1>5, GoBase, DoneBase

LEMMA ClosingBase ==
  ASSUME Base, NEW p \in Proc,
         \/ GetRefresh(p) \/ DelRefresh(p) \/ DelSession(p) \/ Unlist(p)
         \/ RevokeRefresh(p) \/ Find(p) \/ DelUnowned(p)
  PROVE  Base'
<1> USE DEF OpenSteps, CloseSteps, Signing, None
<1>0. req[p] \in RequestRecord /\ Shape(req[p])
  BY DEF Base, Shaped
<1>1. req[p].pc \in {"get", "delRefresh", "delSession", "unlist", "revoke", "find", "delUnowned"}
  BY DEF GetRefresh, DelRefresh, DelSession, Unlist, RevokeRefresh, Find, DelUnowned, At
<1>2. req[p].old \in Session
  BY <1>0, <1>1 DEF Shape, RequestRecord
<1>3. RecordsTyped' /\ UNCHANGED store
  <2>1. CASE GetRefresh(p) \/ Find(p)
    BY <2>1 DEF GetRefresh, Find, Base, RecordsTyped, keyring, records, history
  <2>2. CASE DelRefresh(p) \/ RevokeRefresh(p)
    <3>1. refresh' = [refresh EXCEPT ![req[p].old] = 0] /\ refresh \in [Session -> Nat]
      BY <2>2 DEF DelRefresh, RevokeRefresh, Base, RecordsTyped
    <3>2. refresh' \in [Session -> Nat]
      BY <1>2, <3>1
    <3> QED
      BY <2>2, <3>2 DEF DelRefresh, RevokeRefresh, Base, RecordsTyped, keyring, history
  <2>3. CASE DelSession(p) \/ DelUnowned(p)
    <3>1. session' = [session EXCEPT ![req[p].old] = 0] /\ session \in [Session -> Nat]
      BY <2>3 DEF DelSession, DelUnowned, Base, RecordsTyped
    <3>2. session' \in [Session -> Nat]
      BY <1>2, <3>1
    <3> QED
      BY <2>3, <3>2 DEF DelSession, DelUnowned, Base, RecordsTyped, keyring, history
  <2>4. CASE Unlist(p)
    BY <2>4 DEF Unlist, Base, RecordsTyped, keyring, history
  <2> QED
    BY <2>1, <2>2, <2>3, <2>4
<1>4. ASSUME NEW pc \in Point, Go(p, pc), Shape([req[p] EXCEPT !.pc = pc]) PROVE Base'
  BY <1>3, <1>4, GoBase
<1>5. ASSUME Done(p) PROVE Base'
  BY <1>3, <1>5, DoneBase
<1>6. CASE GetRefresh(p)
  <2>1. req[p].pc = "get" /\ (Done(p) \/ Go(p, "delRefresh"))
    BY <1>6 DEF GetRefresh, At
  <2>2. "delRefresh" \in Point /\ Shape([req[p] EXCEPT !.pc = "delRefresh"])
    BY <1>0, <2>1 DEF Shape, RequestRecord, Point
  <2> QED
    BY <1>4, <1>5, <2>1, <2>2
<1>7. CASE DelRefresh(p)
  <2>1. req[p].pc = "delRefresh" /\ Go(p, "delSession")
    BY <1>7 DEF DelRefresh, At
  <2>2. "delSession" \in Point /\ Shape([req[p] EXCEPT !.pc = "delSession"])
    BY <1>0, <2>1 DEF Shape, RequestRecord, Point
  <2> QED
    BY <1>4, <2>1, <2>2
<1>8. CASE DelSession(p)
  <2>1. req[p].pc = "delSession" /\ Go(p, "unlist")
    BY <1>8 DEF DelSession, At
  <2>2. "unlist" \in Point /\ Shape([req[p] EXCEPT !.pc = "unlist"])
    BY <1>0, <2>1 DEF Shape, RequestRecord, Point
  <2> QED
    BY <1>4, <2>1, <2>2
<1>9. CASE Unlist(p)
  <2>1. req[p].pc = "unlist" /\ (Done(p) \/ (req[p].goal = "access" /\ Go(p, "load")))
    BY <1>9 DEF Unlist, At
  <2>2. req[p].goal = "access" => "load" \in Point /\ Shape([req[p] EXCEPT !.pc = "load"])
    BY <1>0, <2>1 DEF Shape, RequestRecord, Point
  <2> QED
    BY <1>4, <1>5, <2>1, <2>2
<1>10. CASE RevokeRefresh(p)
  <2>1. req[p].pc = "revoke" /\ Go(p, "find")
    BY <1>10 DEF RevokeRefresh, At
  <2>2. "find" \in Point /\ Shape([req[p] EXCEPT !.pc = "find"])
    BY <1>0, <2>1 DEF Shape, RequestRecord, Point
  <2> QED
    BY <1>4, <2>1, <2>2
<1>11. CASE Find(p)
  <2>1. req[p].pc = "find" /\ \E pc \in {"delSession", "delUnowned"} : Go(p, pc)
    BY <1>11 DEF Find, At
  <2>2. \A pc \in {"delSession", "delUnowned"} : pc \in Point /\ Shape([req[p] EXCEPT !.pc = pc])
    BY <1>0, <2>1 DEF Shape, RequestRecord, Point
  <2> QED
    BY <1>4, <2>1, <2>2
<1>12. CASE DelUnowned(p)
  BY <1>5, <1>12 DEF DelUnowned
<1> QED
  BY <1>6, <1>7, <1>8, <1>9, <1>10, <1>11, <1>12

LEMMA RequestBase ==
  ASSUME Base, NEW p \in Proc, NEW s \in Session, Exchange(p, s) \/ Logout(p, s) \/ Revoke(p, s)
  PROVE  Base'
<1> USE DEF OpenSteps, CloseSteps, Signing, None
<1>0. req[p] \in RequestRecord /\ req[p] = Idle /\ s # 0
  BY DEF Base, Shaped, Shape, Exchange, Logout, Revoke, At, Session
<1>1. RecordsTyped' /\ UNCHANGED store
  <2>1. CASE Exchange(p, s) \/ Revoke(p, s)
    BY <2>1 DEF Exchange, Revoke, Base, RecordsTyped, keyring, records, history
  <2>2. CASE Logout(p, s)
    BY <2>2 DEF Logout, Base, RecordsTyped, keyring, records, history
  <2> QED
    BY <2>1, <2>2
<1>2. ASSUME NEW pc \in {"get", "load", "revoke"}, NEW goal \in {"access", "verify", "logout", "revoke"},
             <<pc, goal>> \in {<<"get", "access">>, <<"load", "verify">>, <<"revoke", "logout">>, <<"revoke", "revoke">>},
             req' = [req EXCEPT ![p].pc = pc, ![p].goal = goal, ![p].old = s]
      PROVE Base'
  <2> DEFINE r == [req[p] EXCEPT !.pc = pc, !.goal = goal, !.old = s]
  <2>1. r \in RequestRecord /\ r.copy = req[p].copy /\ req' = [req EXCEPT ![p] = r]
    BY <1>0, <1>2 DEF RequestRecord, Point, Goal
  <2>2. Shape(r)
    BY <1>0, <1>2 DEF Shape, RequestRecord, Idle
  <2> QED
    BY <1>1, <2>1, <2>2, MoveBase
<1>3. UNCHANGED req => Base'
  BY <1>1 DEF Base, Shaped, StoresTyped, CurrentUsable
<1>4. CASE Exchange(p, s)
  BY <1>2, <1>4 DEF Exchange
<1>5. CASE Logout(p, s)
  BY <1>2, <1>3, <1>5 DEF Logout
<1>6. CASE Revoke(p, s)
  BY <1>2, <1>6 DEF Revoke
<1> QED
  BY <1>4, <1>5, <1>6

LEMMA ErasingBase ==
  ASSUME Base, NEW p \in Proc,
         Erase(p) \/ EraseList(p) \/ BreakOff(p) \/ \E s \in Session : EraseOne(p, s)
  PROVE  Base'
<1> USE DEF OpenSteps, CloseSteps, Signing, None
<1>0. req[p] \in RequestRecord /\ Shape(req[p])
  BY DEF Base, Shaped
<1>1. CASE Erase(p)
  <2> DEFINE r == [req[p] EXCEPT !.pc = "erase", !.goal = "erase", !.todo = listed]
  <2>1. UNCHANGED store /\ RecordsTyped' /\ req' = [req EXCEPT ![p] = r] /\ req[p] = Idle
    BY <1>0, <1>1 DEF Erase, At, Shape, Base, RecordsTyped, keyring, records, history
  <2>2. r \in RequestRecord /\ r.copy = req[p].copy
    BY <1>0 DEF RequestRecord, Point, Goal, Base, RecordsTyped
  <2>3. Shape(r)
    BY <1>0, <2>1 DEF Shape, RequestRecord, Idle
  <2> QED
    BY <2>1, <2>2, <2>3, MoveBase
<1>2. ASSUME NEW s \in Session, EraseOne(p, s) PROVE Base'
  <2> DEFINE r == [req[p] EXCEPT !.todo = req[p].todo \ {s}]
  <2>1. UNCHANGED store /\ RecordsTyped' /\ req' = [req EXCEPT ![p] = r] /\ req[p].pc = "erase"
    BY <1>2 DEF EraseOne, At, Base, RecordsTyped, keyring
  <2>2. r \in RequestRecord /\ r.copy = req[p].copy
    BY <1>0 DEF RequestRecord
  <2>3. Shape(r)
    BY <1>0, <2>1 DEF Shape, RequestRecord, Idle
  <2> QED
    BY <2>1, <2>2, <2>3, MoveBase
<1>3. CASE EraseList(p)
  <2>1. UNCHANGED store /\ RecordsTyped' /\ Done(p)
    BY <1>3 DEF EraseList, Base, RecordsTyped, keyring
  <2> QED
    BY <2>1, DoneBase
<1>4. CASE BreakOff(p)
  <2>1. {req[p].old, req[p].new} \ {None} \subseteq Session
    BY <1>0 DEF RequestRecord
  <2>2. UNCHANGED store /\ RecordsTyped' /\ Done(p)
    BY <1>4, <2>1 DEF BreakOff, Base, RecordsTyped, keyring, records
  <2> QED
    BY <2>2, DoneBase
<1> QED
  BY <1>1, <1>2, <1>3, <1>4

LEMMA TickBase == Base /\ Tick => Base'
<1> SUFFICES ASSUME Base, Tick PROVE Base'
  OBVIOUS
<1>1. refresh' \in [Session -> Nat] /\ session' \in [Session -> Nat]
  BY DEF Tick, Unexpired, Base, RecordsTyped
<1>2. RecordsTyped'
  BY <1>1 DEF Tick, Base, RecordsTyped, keyring
<1>3. UNCHANGED <<req, store>>
  BY DEF Tick, keyring
<1> QED
  BY <1>2, <1>3 DEF Base, Shaped, StoresTyped, CurrentUsable

LEMMA BaseStays == Base /\ [Next]_vars => Base'
<1> SUFFICES ASSUME Base, [Next]_vars PROVE Base'
  OBVIOUS
<1>1. CASE UNCHANGED vars
  BY <1>1 DEF vars, keyring, records, history, Base, Shaped, RecordsTyped, StoresTyped, CurrentUsable
<1>2. ASSUME NEW p \in Proc, Step(p) PROVE Base'
  BY <1>2, SigningBase, OpeningBase, ClosingBase, ErasingBase DEF Step
<1>3. ASSUME NEW p \in Proc, Request(p) PROVE Base'
  BY <1>3, SigningBase, RequestBase, ErasingBase DEF Request
<1> QED
  BY <1>1, <1>2, <1>3, TickBase, ErasingBase DEF Next

(* Whatever requests overlap, and whichever copy of the key store they     *)
(* save last, the current key id names one key.                            *)
THEOREM KeysStayUsable == Spec => []CurrentUsable
<1>1. Base => CurrentUsable
  BY DEF Base
<1> QED
  BY <1>1, InitBase, BaseStays, PTL DEF Spec
-----------------------------------------------------------------------------
(* Keys outlive the tokens they sign                                       *)

LEMMA InitKeys == Init => KeyInv
<1> SUFFICES ASSUME Init PROVE KeyInv
  OBVIOUS
<1>1. Base
  BY InitBase
<1>2. Minted = {} /\ Copies = {} /\ \A p \in Proc : ~At(p, "reload")
  BY DEF Init, Minted, Copies, Idle, At
<1> QED
  BY <1>1, <1>2 DEF KeyInv, CopiesDue, SignsFresh, KeyKept

(* Steps that neither take a copy, nor save one, nor sign.                 *)
LEMMA KeysUntouched ==
  ASSUME KeyInv, Base', UNCHANGED <<store, fresh, reused, tok, now>>,
         \A p \in Proc : req'[p].copy \subseteq req[p].copy /\ (req'[p].pc = "reload" => req[p].pc = "reload")
  PROVE  KeyInv'
<1>1. Copies' \subseteq Copies
  BY DEF Copies
<1>2. CopiesDue'
  BY <1>1 DEF KeyInv, CopiesDue, Due
<1>3. SignsFresh'
  BY DEF KeyInv, SignsFresh, Due, At
<1>4. KeyKept'
  BY DEF KeyInv, KeyKept, Minted
<1> QED
  BY <1>2, <1>3, <1>4 DEF KeyInv

LEMMA LoadKeys == ASSUME KeyInv, NEW p \in Proc, Load(p), Base' PROVE KeyInv'
<1>0. /\ req \in [Proc -> RequestRecord] /\ KeyStore(store) /\ Usable(store)
      /\ \A ks \in Copies : KeyStore(ks) /\ Usable(ks)
      /\ now \in Nat /\ fresh \in Nat
  BY DEF KeyInv, Base, Shaped, RecordsTyped, StoresTyped, CurrentUsable, Copies
<1>1. UNCHANGED <<store, fresh, reused, tok, now>>
  BY DEF Load, keyring
<1>2. CASE ~Due(store, now)
  <2>1. \A q \in Proc : req'[q].copy = req[q].copy
    BY <1>0, <1>2 DEF Load, Go, RequestRecord
  <2>2. CopiesDue'
    BY <1>1, <2>1 DEF KeyInv, CopiesDue, Copies, Due
  <2>3. SignsFresh'
    BY <1>1, <1>2 DEF SignsFresh, Due
  <2>4. KeyKept'
    BY <1>1 DEF KeyInv, KeyKept, Minted
  <2> QED
    BY <2>2, <2>3, <2>4 DEF KeyInv
<1>3. CASE Due(store, now)
  <2>1. /\ req'[p].copy = {store} /\ req'[p].pc = "save"
        /\ \A q \in Proc \ {p} : req'[q] = req[q]
    BY <1>0, <1>3 DEF Load, RequestRecord
  <2>2. \A ks \in Copies : store = ks
    <3> SUFFICES ASSUME NEW ks \in Copies, store # ks PROVE FALSE
      OBVIOUS
    <3>1. PICK secret \in 1..fresh : store = Rotated(ks, now, secret)
      BY DEF KeyInv, CopiesDue
    <3>2. ~Due(store, now)
      BY <1>0, <3>1, RotatedNotDue
    <3> QED
      BY <1>3, <3>2
  <2>3. \A ks \in Copies' : ks = store
    BY <2>1, <2>2 DEF Copies
  <2>4. CopiesDue'
    BY <1>1, <1>3, <2>3 DEF CopiesDue, Due
  <2>5. SignsFresh'
    BY <1>1, <2>1 DEF KeyInv, SignsFresh, Due, At
  <2>6. KeyKept'
    BY <1>1 DEF KeyInv, KeyKept, Minted
  <2> QED
    BY <2>4, <2>5, <2>6 DEF KeyInv
<1> QED
  BY <1>2, <1>3

(* A rotation prunes only keys whose tokens have expired, and a save by    *)
(* one who overlapped another replaces at most the key the other made.     *)
LEMMA SaveKeys == ASSUME KeyInv, NEW p \in Proc, Save(p), Base' PROVE KeyInv'
<1>0. /\ req \in [Proc -> RequestRecord] /\ KeyStore(store) /\ Usable(store)
      /\ \A ks \in Copies : KeyStore(ks) /\ Usable(ks)
      /\ now \in Nat /\ fresh \in Nat /\ tok \in [Session -> [id : Nat, secret : Nat, exp : Nat]]
  BY DEF KeyInv, Base, Shaped, RecordsTyped, StoresTyped, CurrentUsable, Copies
<1>1. PICK mine \in req[p].copy :
        /\ store' = Rotated(mine, now, fresh + 1)
        /\ reused' = reused \cup {k.id : k \in {k \in store.keys : k.id \in Kids(store') /\ k \notin store'.keys}}
  BY DEF Save
<1>2. /\ fresh' = fresh + 1 /\ UNCHANGED <<tok, now>>
      /\ req'[p].copy = {} /\ req'[p].pc = "reload" /\ \A q \in Proc \ {p} : req'[q] = req[q]
  BY <1>0 DEF Save, RequestRecord
<1>3. mine \in Copies /\ KeyStore(mine) /\ Usable(mine)
  BY <1>0 DEF Copies
<1>4. CopiesDue'
  <2>1. Copies' \subseteq Copies
    BY <1>2 DEF Copies
  <2>2. \A ks \in Copies' : ks = mine /\ Due(ks, now')
    BY <1>2, <1>3, <2>1 DEF KeyInv, CopiesDue
  <2>3. fresh + 1 \in 1..fresh'
    BY <1>0, <1>2
  <2> QED
    BY <1>1, <1>2, <2>2, <2>3 DEF CopiesDue
<1>5. SignsFresh'
  <2>1. ~Due(store', now)
    BY <1>0, <1>1, <1>3, RotatedNotDue
  <2> QED
    BY <1>2, <2>1 DEF SignsFresh, Due
<1>6. KeyKept'
  <2> SUFFICES ASSUME NEW s \in Minted, tok[s].exp > now, tok[s].id \notin reused'
               PROVE  \E k \in store'.keys : /\ k.id = tok[s].id /\ k.secret = tok[s].secret
                                             /\ tok[s].exp <= k.born + 3 * R
    BY <1>2 DEF KeyKept, Minted
  <2>1. PICK k \in store.keys : k.id = tok[s].id /\ k.secret = tok[s].secret /\ tok[s].exp <= k.born + 3 * R
    BY <1>1 DEF KeyInv, KeyKept
  <2> DEFINE id == Cardinality(mine.keys) + 1
  <2>2. store'.keys = {j \in mine.keys : j.id # id /\ j.born + 3 * R >= now}
                        \cup {[id |-> id, secret |-> fresh + 1, born |-> now]}
    BY <1>1 DEF Rotated
  <2>3. CASE k \in store'.keys
    BY <2>1, <2>3
  <2>4. CASE k \notin store'.keys
    <3>1. k.id # id
      <4>1. k.id \notin Kids(store')
        BY <1>1, <2>1, <2>4
      <4> QED
        BY <2>2, <4>1 DEF Kids
    <3>2. k \in mine.keys
      <4>1. CASE store = mine
        BY <4>1
      <4>2. ASSUME NEW secret \in 1..fresh, store = Rotated(mine, now, secret) PROVE k \in mine.keys
        BY <3>1, <4>2 DEF Rotated
      <4> QED
        BY <1>3, <4>1, <4>2 DEF KeyInv, CopiesDue
    <3>3. k.born + 3 * R < now
      <4>1. k.born \in Nat
        BY <1>0 DEF KeyStore, Key
      <4> QED
        BY <1>0, <2>2, <2>4, <3>1, <3>2, <4>1, Times
    <3>4. tok[s].exp \in Nat /\ k.born \in Nat
      BY <1>0 DEF KeyStore, Key, Minted
    <3> QED
      BY <1>0, <2>1, <3>3, <3>4, Times
  <2> QED
    BY <2>3, <2>4
<1> QED
  BY <1>4, <1>5, <1>6 DEF KeyInv

(* The key that signs is younger than a rotation period, and no token      *)
(* lives for more than two, while a key is kept for three.                 *)
LEMMA ReloadKeys == ASSUME KeyInv, NEW p \in Proc, Reload(p), Base' PROVE KeyInv'
<1>0. /\ req \in [Proc -> RequestRecord] /\ KeyStore(store) /\ Usable(store)
      /\ now \in Nat /\ tok \in [Session -> [id : Nat, secret : Nat, exp : Nat]]
  BY DEF KeyInv, Base, Shaped, RecordsTyped, StoresTyped, CurrentUsable
<1>1. UNCHANGED <<store, fresh, reused, now>>
  BY DEF Reload, keyring
<1>2. \A q \in Proc : req'[q].copy \subseteq req[q].copy /\ (req'[q].pc = "reload" => req[q].pc = "reload")
  <2>1. req[p].pc = "reload" /\ \A q \in Proc \ {p} : req'[q] = req[q]
    BY <1>0 DEF Reload, Done, At
  <2>2. req'[p] = Idle \/ req'[p].copy = req[p].copy
    BY <1>0 DEF Reload, Done, RequestRecord
  <2>3. Idle.copy = {}
    BY DEF Idle
  <2> QED BY <2>1, <2>2, <2>3
<1>3. CASE req[p].goal # "refresh"
  <2>1. UNCHANGED tok
    BY <1>3 DEF Reload
  <2> QED
    BY <1>1, <1>2, <2>1, KeysUntouched
<1>4. CASE req[p].goal = "refresh"
  <2>0. Current(store) \in store.keys /\ Current(store) \in Key
    BY <1>0, CurrentIsAKey
  <2>1. now < Current(store).born + R
    BY <1>0, <2>0, Times DEF KeyInv, SignsFresh, Due, Reload, Key
  <2>2. req[p].ttl \in Nat /\ req[p].ttl <= 2 * R
    BY <1>0, Times DEF RequestRecord
  <2>3. PICK s \in Session : tok' = [tok EXCEPT ![s] =
          [id |-> Current(store).id, secret |-> Current(store).secret, exp |-> now + req[p].ttl]]
    BY <1>4 DEF Reload
  <2>4. tok'[s].exp <= Current(store).born + 3 * R
    BY <1>0, <2>0, <2>1, <2>2, <2>3, Times DEF Key
  <2>5. \A r \in Session \ {s} : tok'[r] = tok[r]
    BY <1>0, <2>3
  <2>6. KeyKept'
    <3> SUFFICES ASSUME NEW r \in Session, tok'[r] # NoToken, tok'[r].exp > now, tok'[r].id \notin reused
                 PROVE  \E k \in store.keys : k.id = tok'[r].id /\ k.secret = tok'[r].secret
                                                /\ tok'[r].exp <= k.born + 3 * R
      BY <1>1 DEF KeyKept, Minted
    <3>1. CASE r = s
      BY <1>0, <2>0, <2>3, <2>4, <3>1
    <3>2. CASE r # s
      BY <2>5, <3>2 DEF KeyInv, KeyKept, Minted
    <3> QED
      BY <3>1, <3>2
  <2>7. CopiesDue' /\ SignsFresh'
    <3>1. Copies' \subseteq Copies
      BY <1>2 DEF Copies
    <3> QED
      BY <1>1, <1>2, <3>1 DEF KeyInv, CopiesDue, SignsFresh, Due, At
  <2> QED
    BY <2>6, <2>7 DEF KeyInv
<1> QED
  BY <1>3, <1>4

LEMMA KeysStay == KeyInv /\ [Next]_vars => KeyInv'
<1> SUFFICES ASSUME KeyInv, [Next]_vars PROVE KeyInv'
  OBVIOUS
<1>0. Base' /\ req \in [Proc -> RequestRecord]
  BY BaseStays DEF KeyInv, Base, Shaped
<1>1. CASE UNCHANGED vars
  BY <1>0, <1>1, KeysUntouched DEF vars, keyring
<1>2. CASE Tick
  <2>1. UNCHANGED <<store, fresh, reused, tok, req>> /\ now' = now + 1 /\ now \in Nat
    BY <1>2 DEF Tick, keyring, KeyInv, Base, RecordsTyped
  <2>2. \A p \in Proc : req[p] = Idle
    BY <1>2 DEF Tick, At, KeyInv, Base, Shaped, Shape
  <2>3. Copies' = {} /\ \A p \in Proc : ~At(p, "reload")'
    BY <2>1, <2>2 DEF Copies, Idle, At
  <2>4. \A s \in Minted : tok[s].exp \in Nat
    BY DEF KeyInv, Base, RecordsTyped, Minted
  <2>5. KeyKept'
    BY <2>1, <2>4 DEF KeyInv, KeyKept, Minted
  <2> QED
    BY <1>0, <2>3, <2>5 DEF KeyInv, CopiesDue, SignsFresh
<1>3. ASSUME NEW p \in Proc, UNCHANGED <<store, fresh, reused, tok, now>>, Done(p)
      PROVE KeyInv'
  BY <1>0, <1>3, KeysUntouched DEF Done, Idle
<1>4. ASSUME NEW p \in Proc, UNCHANGED <<store, fresh, reused, tok, now>>,
             NEW pc \in Point \ {"reload"}, Go(p, pc)
      PROVE KeyInv'
  BY <1>0, <1>4, KeysUntouched DEF Go, RequestRecord
<1>5. ASSUME NEW p \in Proc, NEW s \in Session, Exchange(p, s) \/ Logout(p, s) \/ Revoke(p, s)
      PROVE KeyInv'
  <2>1. UNCHANGED <<store, fresh, reused, tok, now>>
    BY <1>5 DEF Exchange, Logout, Revoke, keyring
  <2>2. \A q \in Proc : req'[q].copy \subseteq req[q].copy /\ (req'[q].pc = "reload" => req[q].pc = "reload")
    BY <1>0, <1>5 DEF Exchange, Logout, Revoke, RequestRecord
  <2> QED
    BY <1>0, <2>1, <2>2, KeysUntouched
<1>6. ASSUME NEW p \in Proc, Login(p) \/ OAuth(p) \/ Daily(p) \/ Erase(p) \/ \E s \in Session : EraseOne(p, s) PROVE KeyInv'
  <2>1. UNCHANGED <<store, fresh, reused, tok, now>>
    BY <1>6 DEF Login, OAuth, SignIn, Daily, Erase, EraseOne, keyring
  <2>2. \A q \in Proc : req'[q].copy \subseteq req[q].copy /\ (req'[q].pc = "reload" => req[q].pc = "reload")
    BY <1>0, <1>6 DEF Login, OAuth, SignIn, Daily, Erase, EraseOne, RequestRecord
  <2> QED
    BY <1>0, <2>1, <2>2, KeysUntouched
<1>7. ASSUME NEW p \in Proc, EraseList(p) \/ BreakOff(p) \/ Expire(p) \/ DelUnowned(p) PROVE KeyInv'
  BY <1>3, <1>7 DEF EraseList, BreakOff, Expire, DelUnowned, keyring
<1>8. ASSUME NEW p \in Proc, SetRefresh(p) \/ SetSession(p) \/ List(p) PROVE KeyInv'
  BY <1>4, <1>8 DEF SetRefresh, SetSession, List, keyring, Point
<1>9. ASSUME NEW p \in Proc, GetRefresh(p) \/ DelRefresh(p) \/ DelSession(p) \/ Unlist(p) PROVE KeyInv'
  BY <1>3, <1>4, <1>9 DEF GetRefresh, DelRefresh, DelSession, Unlist, keyring, Point
<1>10. ASSUME NEW p \in Proc, RevokeRefresh(p) \/ Find(p) PROVE KeyInv'
  BY <1>4, <1>10 DEF RevokeRefresh, Find, keyring, Point
<1>11. ASSUME NEW p \in Proc, Step(p) PROVE KeyInv'
  BY <1>0, <1>6, <1>7, <1>8, <1>9, <1>10, <1>11, LoadKeys, SaveKeys, ReloadKeys DEF Step
<1>12. ASSUME NEW p \in Proc, Request(p) PROVE KeyInv'
  BY <1>5, <1>6, <1>12 DEF Request
<1> QED
  BY <1>1, <1>2, <1>7, <1>11, <1>12 DEF Next

(* A refresh token that has not expired verifies, whatever rotations and   *)
(* prunes happened since, unless its key id was overwritten: for any time  *)
(* to live of no more than two of any rotation period.                     *)
THEOREM OpenTokensVerify == Spec => []OpenVerifies
<1>1. KeyInv => OpenVerifies
  <2> SUFFICES ASSUME KeyInv, NEW s \in Minted, tok[s].exp > now, tok[s].id \notin reused
               PROVE  Verifies(tok[s])
    BY DEF OpenVerifies
  <2>1. PICK k \in store.keys : k.id = tok[s].id /\ k.secret = tok[s].secret
    BY DEF KeyInv, KeyKept
  <2>2. KeyOf(store, tok[s].id) = k
    BY <2>1 DEF KeyOf, KeyInv, Base, CurrentUsable, Usable
  <2> QED
    BY <2>1, <2>2 DEF Verifies, Kids
<1> QED
  BY <1>1, InitKeys, KeysStay, PTL DEF Spec
-----------------------------------------------------------------------------
(* Sessions are handed out, opened and closed once                         *)

LEMMA InitLife == Init => LifeInv
<1> SUFFICES ASSUME Init PROVE LifeInv
  OBVIOUS
<1>1. Base /\ lineage = {} /\ given = {} /\ listed = {} /\ \A s \in Session : ~Held(s)
  BY InitBase DEF Init, Held
<1>2. \A p \in Proc : req[p] = Idle
  BY DEF Init
<1>3. Minted = {} /\ Todo = {}
  BY <1>2 DEF Init, Minted, Todo, Idle
<1>4. InOrder
  <2>1. 0 \in 0..Sessions /\ 1..0 = {}
    BY AccountsAssumption
  <2> QED
    BY <1>3, <2>1 DEF InOrder
<1> QED
  BY <1>1, <1>2, <1>3, <1>4 DEF LifeInv, NewOnce, OpenedOnce, KnownOpened, OldClosed, Opened, Idle, At, None

(* A step that makes no token and opens nothing.  A request may come to    *)
(* name, close and erase sessions that were opened.                        *)
Asking(r) == r.pc \in {"get", "delRefresh", "revoke"} \/ r.goal = "verify"
LEMMA LifeKept ==
  ASSUME LifeInv, Base', UNCHANGED <<tok, lineage>>,
         \A s \in Session : Held(s)' => Held(s),
         \A s \in given' \cup listed' : Opened(s),
         \A p \in Proc :
           /\ req'[p].new \in {req[p].new, None} /\ req'[p].todo \subseteq req[p].todo \cup listed
           /\ req'[p].pc = "setRefresh" => req[p].pc = "setRefresh"
           /\ req'[p].pc \in OpenSteps \ {"setRefresh"} => req[p].pc \in OpenSteps \ {"setRefresh"}
           /\ \/ req'[p].old = None
              \/ req'[p].old = req[p].old /\ (Asking(req[p]) => Asking(req'[p]) \/ ~Held(req[p].old)')
              \/ Opened(req'[p].old) /\ Asking(req'[p])
  PROVE  LifeInv'
<1>0. /\ \A p \in Proc : Shape(req[p]) /\ Shape(req'[p]) /\ req'[p] \in RequestRecord
      /\ \A s : Opened(s)' <=> Opened(s)
  BY DEF LifeInv, Base, Shaped, Opened
<1>1. InOrder' /\ NewOnce'
  BY DEF LifeInv, InOrder, NewOnce, Minted
<1>2. OpenedOnce'
  <2>1. \A p \in Proc : req'[p].pc \in OpenSteps => req'[p].new = req[p].new
    BY <1>0 DEF Shape
  <2> QED
    BY <1>0, <2>1 DEF LifeInv, OpenedOnce, Minted, OpenSteps, At
<1>3. KnownOpened'
  <2>1. \A s \in Todo' : Opened(s)
    BY DEF Todo, LifeInv, KnownOpened
  <2> QED
    BY <1>0, <2>1 DEF LifeInv, KnownOpened
<1>4. OldClosed'
  <2> SUFFICES ASSUME NEW p \in Proc, req'[p].old # None
               PROVE  Opened(req'[p].old) /\ (Held(req[p].old)' => Asking(req'[p]))
    BY <1>0 DEF OldClosed, Asking
  <2>1. CASE req'[p].old = req[p].old /\ (Asking(req[p]) => Asking(req'[p]) \/ ~Held(req[p].old)')
    <3>1. Opened(req[p].old) /\ (Held(req[p].old) => Asking(req[p])) /\ req[p].old \in Session
      BY <1>0, <2>1 DEF LifeInv, OldClosed, Asking, Base, Shaped, RequestRecord, None
    <3> QED
      BY <2>1, <3>1
  <2>2. CASE Opened(req'[p].old) /\ Asking(req'[p])
    BY <2>2
  <2> QED
    BY <2>1, <2>2
<1> QED
  BY <1>1, <1>2, <1>3, <1>4 DEF LifeInv

(* A token is made for the next session id, which nobody knows yet.        *)
LEMMA MintLife ==
  ASSUME LifeInv, Base', NEW p \in Proc, Reload(p), req[p].goal = "refresh"
  PROVE  LifeInv' /\ \E s \in Session \ Minted : /\ req' = [req EXCEPT ![p].pc = "setRefresh", ![p].new = s]
                                                 /\ Minted' = Minted \cup {s}
                                                 /\ tok'[s].exp = now + req[p].ttl
                                                 /\ \A r \in Session \ {s} : tok'[r] = tok[r]
<1> DEFINE s == Cardinality(Minted) + 1
<1>0. /\ req \in [Proc -> RequestRecord] /\ \A q \in Proc : Shape(req[q])
      /\ tok \in [Session -> [id : Nat, secret : Nat, exp : Nat]] /\ now \in Nat
  BY DEF LifeInv, Base, Shaped, RecordsTyped
<1>1. PICK m \in 0..Sessions : Minted = 1..m
  BY DEF LifeInv, InOrder
<1>2. s = m + 1
  <2>1. m \in Nat
    BY AccountsAssumption
  <2>2. Cardinality(1..m) = m
    BY <2>1, FS_Interval
  <2> QED
    BY <1>1, <2>2
<1>3. s \in Session /\ req' = [req EXCEPT ![p].pc = "setRefresh", ![p].new = s]
  BY DEF Reload
<1>4. tok' = [tok EXCEPT ![s] = [id |-> Current(store).id, secret |-> Current(store).secret, exp |-> now + req[p].ttl]]
  BY DEF Reload
<1> HIDE DEF s
<1>5. tok'[s].exp = now + req[p].ttl /\ tok'[s].exp # 0 /\ \A r \in Session \ {s} : tok'[r] = tok[r]
  BY <1>0, <1>3, <1>4, Times DEF RequestRecord
<1>6. s \notin Minted /\ Minted' = Minted \cup {s} /\ Minted' = 1..(m + 1)
  <2>1. s \notin Minted
    BY <1>1, <1>2
  <2>2. Minted' = Minted \cup {s}
    BY <1>3, <1>5 DEF Minted, NoToken
  <2> QED
    BY <1>1, <1>2, <2>1, <2>2
<1>7. /\ req'[p].pc = "setRefresh" /\ req'[p].new = s /\ req'[p].old = req[p].old
      /\ req'[p].goal = req[p].goal /\ req'[p].todo = req[p].todo
      /\ \A q \in Proc \ {p} : req'[q] = req[q]
  BY <1>0, <1>3 DEF RequestRecord
<1>8. UNCHANGED <<lineage, refresh, given, listed>>
  BY DEF Reload, records, history
<1>9. (\A r : Opened(r)' <=> Opened(r)) /\ (\A r : Held(r)' <=> Held(r)) /\ Todo' = Todo
  BY <1>7, <1>8 DEF Opened, Held, Todo
<1>10. InOrder'
  BY <1>2, <1>3, <1>6, AccountsAssumption DEF InOrder, Session
<1>11. NewOnce'
  BY <1>6, <1>7 DEF LifeInv, NewOnce
<1>12. OpenedOnce'
  <2>1. ~Opened(s)
    BY <1>3, <1>6 DEF LifeInv, OpenedOnce
  <2> QED
    BY <1>6, <1>7, <1>8, <1>9, <2>1 DEF LifeInv, OpenedOnce, At
<1>13. KnownOpened'
  BY <1>8, <1>9 DEF LifeInv, KnownOpened
<1>14. OldClosed'
  <2>1. req[p].pc = "reload"
    BY DEF Reload, At
  <2> QED
    BY <1>7, <1>9, <2>1 DEF LifeInv, OldClosed
<1> QED
  BY <1>3, <1>5, <1>6, <1>10, <1>11, <1>12, <1>13, <1>14 DEF LifeInv

(* A session is opened by the only request that knows it.                  *)
LEMMA OpenLife ==
  ASSUME LifeInv, Base', NEW p \in Proc, SetRefresh(p)
  PROVE  LifeInv'
<1> DEFINE s == req[p].new
<1>0. /\ req \in [Proc -> RequestRecord] /\ \A q \in Proc : Shape(req[q])
      /\ refresh \in [Session -> Nat] /\ now \in Nat
      /\ lineage \subseteq Session \X (Session \cup {None})
  BY DEF LifeInv, Base, Shaped, RecordsTyped
<1>1. req[p].pc = "setRefresh" /\ s \in Session /\ req[p].old \in Session \cup {None}
  BY <1>0 DEF SetRefresh, At, Shape, OpenSteps, RequestRecord
<1>2. /\ req'[p].pc = "setSession" /\ req'[p].new = s /\ req'[p].old = req[p].old
      /\ req'[p].goal = req[p].goal /\ req'[p].todo = req[p].todo
      /\ \A q \in Proc \ {p} : req'[q] = req[q]
  BY <1>0 DEF SetRefresh, Go, RequestRecord
<1>3. ~Opened(s) /\ s \in Minted /\ s # None
  BY <1>0, <1>1 DEF LifeInv, OpenedOnce, NewOnce, At, Shape, OpenSteps
<1>4. UNCHANGED <<tok, given, listed>> /\ lineage' = lineage \cup {<<s, req[p].old>>}
  BY DEF SetRefresh
<1>5. \A r : Opened(r)' <=> Opened(r) \/ r = s
  BY <1>1, <1>4 DEF Opened
<1>6. \A r \in Session : r # s => (Held(r)' <=> Held(r))
  BY <1>0 DEF SetRefresh, Held
<1> HIDE DEF s
<1>7. InOrder' /\ NewOnce'
  BY <1>2, <1>4 DEF LifeInv, InOrder, NewOnce, Minted, s
<1>8. OpenedOnce'
  <2>1. ASSUME NEW r \in Session, NEW o \in Session \cup {None}, NEW n \in Session \cup {None},
               <<r, o>> \in lineage', <<r, n>> \in lineage'
        PROVE  o = n
    <3>1. CASE r = s
      BY <1>3, <1>4, <2>1, <3>1 DEF Opened
    <3>2. CASE r # s
      BY <1>4, <2>1, <3>2 DEF LifeInv, OpenedOnce
    <3> QED
      BY <3>1, <3>2
  <2>2. \A r \in Session : Opened(r)' => r \in Minted'
    BY <1>3, <1>4, <1>5 DEF LifeInv, OpenedOnce, Minted
  <2>3. ASSUME NEW q \in Proc
        PROVE  /\ At(q, "setRefresh")' => ~Opened(req[q].new)'
               /\ req'[q].pc \in {"setSession", "list", "expire"} => Opened(req[q].new)'
    <3>1. CASE q = p
      BY <1>2, <1>5, <3>1 DEF At, s
    <3>2. CASE q # p
      <4>1. At(q, "setRefresh") => req[q].new # s
        BY <1>0, <3>2 DEF LifeInv, NewOnce, At, Shape, OpenSteps, s
      <4> QED
        BY <1>2, <1>5, <3>2, <4>1 DEF LifeInv, OpenedOnce, At
    <3> QED
      BY <3>1, <3>2
  <2> QED
    BY <2>1, <2>2, <2>3, <1>2 DEF OpenedOnce, s
<1>9. KnownOpened'
  <2>1. Todo' = Todo
    BY <1>2 DEF Todo
  <2> QED
    BY <1>4, <1>5, <1>6, <2>1 DEF LifeInv, KnownOpened
<1>10. OldClosed'
  <2> SUFFICES ASSUME NEW q \in Proc, req'[q].old # None
               PROVE  Opened(req[q].old)' /\ (Held(req[q].old)' => Asking(req'[q]))
    BY DEF OldClosed, Asking
  <2>1. req'[q].old = req[q].old /\ (Asking(req[q]) => Asking(req'[q]))
    BY <1>1, <1>2 DEF Asking
  <2>2. Opened(req[q].old) /\ (Held(req[q].old) => Asking(req[q]))
    BY <2>1 DEF LifeInv, OldClosed, Asking
  <2>3. req[q].old # s /\ req[q].old \in Session
    BY <1>0, <1>3, <2>1, <2>2 DEF RequestRecord
  <2> QED
    BY <1>5, <1>6, <2>1, <2>2, <2>3
<1> QED
  BY <1>7, <1>8, <1>9, <1>10 DEF LifeInv

(* The other steps, of a request that goes on, or ends, or starts with a   *)
(* session somebody knows.                                                 *)
LEMMA GoLife ==
  ASSUME LifeInv, Base', UNCHANGED <<tok, lineage>>, \A s \in Session : Held(s)' => Held(s),
         \A s \in given' \cup listed' : Opened(s),
         NEW p \in Proc, NEW pc \in Point, Go(p, pc),
         pc = "setRefresh" => At(p, "setRefresh"),
         pc \in OpenSteps \ {"setRefresh"} => req[p].pc \in OpenSteps \ {"setRefresh"},
         req[p].pc \in {"get", "delRefresh", "revoke"} => pc \in {"get", "delRefresh", "revoke"} \/ ~Held(req[p].old)'
  PROVE  LifeInv'
<1>1. /\ req'[p].pc = pc /\ \A q \in Proc \ {p} : req'[q] = req[q]
      /\ req'[p].new = req[p].new /\ req'[p].old = req[p].old
      /\ req'[p].goal = req[p].goal /\ req'[p].todo = req[p].todo
  BY DEF Go, LifeInv, Base, Shaped, RequestRecord
<1>2. Asking(req[p]) => Asking(req'[p]) \/ ~Held(req[p].old)'
  BY <1>1 DEF Asking
<1> QED
  BY <1>1, <1>2, LifeKept DEF At

LEMMA DoneLife ==
  ASSUME LifeInv, Base', UNCHANGED <<tok, lineage>>, \A s \in Session : Held(s)' => Held(s),
         \A s \in given' \cup listed' : Opened(s),
         NEW p \in Proc, Done(p)
  PROVE  LifeInv'
<1>1. req'[p] = Idle /\ \A q \in Proc \ {p} : req'[q] = req[q]
  BY DEF Done, LifeInv, Base, Shaped
<1> QED
  BY <1>1, LifeKept DEF Idle, OpenSteps

LEMMA AskLife ==
  ASSUME LifeInv, Base', UNCHANGED <<tok, lineage, refresh, listed>>, given' \subseteq given,
         NEW p \in Proc, At(p, "idle"), \A q \in Proc \ {p} : req'[q] = req[q],
         req'[p].pc \in {"load", "get", "revoke", "erase"}, req'[p].new = None,
         req'[p].todo \subseteq listed,
         req'[p].old = None \/ (Opened(req'[p].old) /\ Asking(req'[p]))
  PROVE  LifeInv'
<1>1. \A s \in given' \cup listed' : Opened(s)
  BY DEF LifeInv, KnownOpened
<1>2. \A s \in Session : Held(s)' => Held(s)
  BY DEF Held
<1>3. \A q \in Proc :
         /\ req'[q].new \in {req[q].new, None} /\ req'[q].todo \subseteq req[q].todo \cup listed
         /\ req'[q].pc = "setRefresh" => req[q].pc = "setRefresh"
         /\ req'[q].pc \in OpenSteps \ {"setRefresh"} => req[q].pc \in OpenSteps \ {"setRefresh"}
  BY DEF OpenSteps
<1>4. \A q \in Proc :
         \/ req'[q].old = None
         \/ req'[q].old = req[q].old /\ (Asking(req[q]) => Asking(req'[q]) \/ ~Held(req[q].old)')
         \/ Opened(req'[q].old) /\ Asking(req'[q])
  OBVIOUS
<1> QED
  BY <1>1, <1>2, <1>3, <1>4, LifeKept

LEMMA LifeStays == LifeInv /\ [Next]_vars => LifeInv'
<1> SUFFICES ASSUME LifeInv, [Next]_vars PROVE LifeInv'
  OBVIOUS
<1>0. /\ Base' /\ req \in [Proc -> RequestRecord] /\ \A p \in Proc : Shape(req[p])
      /\ refresh \in [Session -> Nat]
      /\ \A s \in given \cup listed : Opened(s)
  BY BaseStays DEF LifeInv, Base, Shaped, RecordsTyped, KnownOpened
<1> DEFINE Quiet == /\ UNCHANGED <<tok, lineage>> /\ \A s \in Session : Held(s)' => Held(s)
                    /\ \A s \in given' \cup listed' : Opened(s)
<1>1. CASE UNCHANGED vars
  BY <1>0, <1>1, LifeKept DEF vars, records, history, Held
<1>2. CASE Tick
  <2>1. \A s \in Session : Held(s)' => Held(s)
    BY <1>0, <1>2 DEF Tick, Unexpired, Held
  <2>2. UNCHANGED <<req, tok, lineage, given>> /\ listed' \subseteq listed
    BY <1>2 DEF Tick
  <2> QED
    BY <1>0, <2>1, <2>2, LifeKept
<1>3. ASSUME NEW p \in Proc, Quiet, Done(p) PROVE LifeInv'
  BY <1>0, <1>3, DoneLife
<1>4. ASSUME NEW p \in Proc, Load(p) \/ Save(p) PROVE LifeInv'
  <2>1. UNCHANGED <<tok, lineage, refresh, given, listed>> /\ req[p].pc \in {"load", "save"}
    BY <1>4 DEF Load, Save, At, records, history
  <2>2. /\ \A q \in Proc \ {p} : req'[q] = req[q]
        /\ req'[p].new = req[p].new /\ req'[p].old = req[p].old /\ req'[p].pc \in {"save", "reload"}
        /\ req'[p].goal = req[p].goal /\ req'[p].todo = req[p].todo
    BY <1>0, <1>4 DEF Load, Save, Go, RequestRecord
  <2>3. Asking(req[p]) => Asking(req'[p])
    BY <2>1, <2>2 DEF Asking
  <2> QED
    BY <1>0, <2>1, <2>2, <2>3, LifeKept DEF Held, OpenSteps
<1>5. ASSUME NEW p \in Proc, Reload(p) PROVE LifeInv'
  <2>1. UNCHANGED <<lineage, refresh, given, listed>> /\ req[p].pc = "reload"
    BY <1>5 DEF Reload, At, records, history
  <2>2. CASE req[p].goal = "refresh"
    BY <1>0, <1>5, <2>2, MintLife
  <2>3. CASE req[p].goal = "access"
    <3>1. /\ \A q \in Proc \ {p} : req'[q] = req[q]
          /\ req'[p].new = req[p].new /\ req'[p].old = req[p].old /\ req'[p].pc = "load"
          /\ req'[p].todo = req[p].todo /\ UNCHANGED tok
      BY <1>0, <1>5, <2>3 DEF Reload, RequestRecord
    <3>2. ~Asking(req[p])
      BY <2>1, <2>3 DEF Asking
    <3> QED
      BY <1>0, <2>1, <3>1, <3>2, LifeKept DEF Held, OpenSteps
  <2>4. CASE req[p].goal \notin {"access", "refresh"}
    <3>1. Done(p) /\ UNCHANGED tok
      BY <1>5, <2>4 DEF Reload
    <3> QED
      BY <1>0, <1>3, <2>1, <3>1 DEF Held
  <2> QED
    BY <2>2, <2>3, <2>4
<1>6. ASSUME NEW p \in Proc, SetSession(p) \/ List(p) \/ Expire(p) PROVE LifeInv'
  <2>1. UNCHANGED <<tok, lineage, refresh>> /\ req[p].pc \in OpenSteps \ {"setRefresh"}
    BY <1>6 DEF SetSession, List, Expire, At, OpenSteps, history
  <2>2. Opened(req[p].new)
    BY <2>1 DEF LifeInv, OpenedOnce, OpenSteps
  <2>3. Quiet
    BY <1>0, <1>6, <2>1, <2>2 DEF SetSession, List, Expire, Held
  <2>4. Done(p) \/ \E pc \in {"list", "expire"} : Go(p, pc)
    BY <1>6 DEF SetSession, List, Expire
  <2> QED
    BY <1>0, <1>3, <2>1, <2>3, <2>4, GoLife DEF OpenSteps, Point
<1>7. ASSUME NEW p \in Proc, GetRefresh(p) \/ Find(p) \/ DelSession(p) \/ DelUnowned(p) \/ Unlist(p) PROVE LifeInv'
  <2>1. Quiet
    BY <1>0, <1>7 DEF GetRefresh, Find, DelSession, DelUnowned, Unlist, records, history, Held
  <2>2. \/ Done(p)
        \/ req[p].pc = "get" /\ Go(p, "delRefresh")
        \/ req[p].pc \in CloseSteps /\ \E pc \in {"delSession", "delUnowned", "unlist", "load"} : Go(p, pc)
    BY <1>7 DEF GetRefresh, Find, DelSession, DelUnowned, Unlist, At, CloseSteps
  <2> QED
    BY <1>0, <1>3, <2>1, <2>2, GoLife DEF OpenSteps, CloseSteps, Point
<1>8. ASSUME NEW p \in Proc, DelRefresh(p) \/ RevokeRefresh(p) PROVE LifeInv'
  <2>1. req[p].old \in Session /\ req[p].pc \in {"delRefresh", "revoke"}
    BY <1>0, <1>8 DEF DelRefresh, RevokeRefresh, At, Shape, RequestRecord
  <2>2. \E pc \in {"delSession", "find"} : Go(p, pc)
    BY <1>8 DEF DelRefresh, RevokeRefresh
  <2>3. req'[p].old = req[p].old
    BY <1>0, <2>2 DEF Go, RequestRecord
  <2>4. /\ UNCHANGED <<tok, lineage, given, listed>>
        /\ refresh' = [refresh EXCEPT ![req[p].old] = 0]
    BY <1>8 DEF DelRefresh, RevokeRefresh, history
  <2>5. Quiet /\ ~Held(req[p].old)'
    BY <1>0, <2>1, <2>3, <2>4 DEF Held
  <2> QED
    BY <1>0, <2>2, <2>5, GoLife DEF OpenSteps, Point
<1>9. ASSUME NEW p \in Proc, EraseList(p) \/ BreakOff(p) PROVE LifeInv'
  BY <1>0, <1>3, <1>9 DEF EraseList, BreakOff, records, Held
<1>10. ASSUME NEW p \in Proc, NEW s \in Session, EraseOne(p, s) PROVE LifeInv'
  <2>1. UNCHANGED <<tok, lineage, refresh, given, listed>>
    BY <1>10 DEF EraseOne
  <2>2. /\ \A q \in Proc \ {p} : req'[q] = req[q]
        /\ req'[p].new = req[p].new /\ req'[p].old = req[p].old /\ req'[p].pc = req[p].pc
        /\ req'[p].goal = req[p].goal /\ req'[p].todo \subseteq req[p].todo
    BY <1>0, <1>10 DEF EraseOne, RequestRecord
  <2> QED
    BY <1>0, <2>1, <2>2, LifeKept DEF Held, Asking
<1>11. ASSUME NEW p \in Proc, Daily(p) \/ Login(p) \/ OAuth(p) \/ Erase(p) PROVE LifeInv'
  <2>1. UNCHANGED <<tok, lineage, refresh, listed>> /\ At(p, "idle") /\ req[p] = Idle /\ given' \subseteq given
    BY <1>0, <1>11 DEF Daily, Login, OAuth, SignIn, Erase, records, history, At, Shape
  <2>2. /\ \A q \in Proc \ {p} : req'[q] = req[q]
        /\ req'[p].new = None /\ req'[p].old = None /\ req'[p].todo \subseteq listed
        /\ req'[p].pc \in {"load", "get", "revoke", "erase"}
    BY <1>0, <1>11, <2>1 DEF Daily, Login, OAuth, SignIn, Erase, RequestRecord, Idle
  <2> QED
    BY <1>0, <2>1, <2>2, AskLife
<1>12. ASSUME NEW p \in Proc, NEW s \in Session, Exchange(p, s) \/ Logout(p, s) \/ Revoke(p, s) PROVE LifeInv'
  <2>1. UNCHANGED <<tok, lineage, refresh, listed>> /\ At(p, "idle") /\ req[p] = Idle /\ given' \subseteq given
    BY <1>0, <1>12 DEF Exchange, Logout, Revoke, records, history, At, Shape
  <2>2. Opened(s)
    BY <1>0, <1>12 DEF Exchange, Logout, Revoke, Shown
  <2>3. CASE UNCHANGED req
    BY <1>0, <2>1, <2>3, LifeKept DEF Held
  <2>4. CASE req' # req
    <3>1. /\ \A q \in Proc \ {p} : req'[q] = req[q]
          /\ req'[p].new = None /\ req'[p].old = s /\ req'[p].todo = {}
          /\ req'[p].pc \in {"get", "revoke"} \/ (req'[p].pc = "load" /\ req'[p].goal = "verify")
      BY <1>0, <1>12, <2>1, <2>4 DEF Exchange, Logout, Revoke, RequestRecord, Idle
    <3> QED
      BY <1>0, <2>1, <2>2, <3>1, AskLife DEF Asking
  <2> QED
    BY <2>3, <2>4
<1>13. ASSUME NEW p \in Proc, SetRefresh(p) PROVE LifeInv'
  BY <1>0, <1>13, OpenLife
<1>14. ASSUME NEW p \in Proc, Step(p) PROVE LifeInv'
  BY <1>4, <1>5, <1>6, <1>7, <1>8, <1>9, <1>10, <1>13, <1>14 DEF Step
<1>15. ASSUME NEW p \in Proc, Request(p) PROVE LifeInv'
  BY <1>11, <1>12, <1>15 DEF Request
<1> QED
  BY <1>1, <1>2, <1>9, <1>14, <1>15 DEF Next
-----------------------------------------------------------------------------
(* Accounts implements SessionLife                                         *)

LifeOf(s) == IF Held(s) THEN "open" ELSE IF Opened(s) THEN "closed" ELSE "none"
HeirOf(s) == IF \E o \in Session : <<s, o>> \in lineage
             THEN CHOOSE o \in Session : <<s, o>> \in lineage ELSE None
LivesNow  == [s \in Session |-> LifeOf(s)]
HeirsNow  == [s \in Session |-> HeirOf(s)]

(* Only setting refresh:<jti> opens a session.                             *)
LEMMA OthersClose ==
  ASSUME LifeInv, [Next]_vars, \A p \in Proc : ~SetRefresh(p)
  PROVE  UNCHANGED lineage /\ \A s \in Session : Held(s)' => Held(s)
<1>0. req \in [Proc -> RequestRecord] /\ refresh \in [Session -> Nat]
  BY DEF LifeInv, Base, Shaped, RecordsTyped
<1>1. CASE UNCHANGED <<refresh, lineage>>
  BY <1>1 DEF Held
<1>2. ASSUME NEW s, refresh' = [refresh EXCEPT ![s] = 0], UNCHANGED lineage
      PROVE  UNCHANGED lineage /\ \A r \in Session : Held(r)' => Held(r)
  BY <1>0, <1>2 DEF Held
<1>3. CASE Tick
  BY <1>0, <1>3 DEF Tick, Unexpired, Held
<1>4. ASSUME NEW p \in Proc, Step(p) PROVE UNCHANGED lineage /\ \A s \in Session : Held(s)' => Held(s)
  <2>1. CASE DelRefresh(p) \/ RevokeRefresh(p)
    BY <1>2, <2>1 DEF DelRefresh, RevokeRefresh, history
  <2>2. CASE Load(p) \/ Save(p) \/ Reload(p)
    BY <1>1, <2>2 DEF Load, Save, Reload, records, history
  <2>3. CASE SetSession(p) \/ List(p) \/ Expire(p)
    BY <1>1, <2>3 DEF SetSession, List, Expire, history
  <2>4. CASE GetRefresh(p) \/ DelSession(p) \/ Unlist(p) \/ Find(p) \/ DelUnowned(p)
    BY <1>1, <2>4 DEF GetRefresh, DelSession, Unlist, Find, DelUnowned, records, history
  <2>5. CASE EraseList(p) \/ \E s \in Session : EraseOne(p, s)
    BY <1>1, <2>5 DEF EraseList, EraseOne
  <2> QED
    BY <1>4, <2>1, <2>2, <2>3, <2>4, <2>5 DEF Step
<1>5. ASSUME NEW p \in Proc, Request(p) \/ BreakOff(p) PROVE UNCHANGED <<refresh, lineage>>
  BY <1>5 DEF Request, Daily, Login, OAuth, SignIn, Exchange, Logout, Revoke, Erase, BreakOff, records, history
<1>6. CASE UNCHANGED vars
  BY <1>1, <1>6 DEF vars, records, history
<1> QED
  BY <1>1, <1>3, <1>4, <1>5, <1>6 DEF Next

LEMMA CloseStep ==
  ASSUME LifeInv, UNCHANGED lineage, NEW S \in SUBSET Session, S # {},
         \A s \in S : Held(s) /\ ~Held(s)', \A s \in Session \ S : Held(s)' <=> Held(s)
  PROVE  Life!LifeNext
<1>1. UNCHANGED HeirsNow /\ \A s : Opened(s)' <=> Opened(s)
  BY DEF HeirsNow, HeirOf, Opened
<1>2. \A s \in S : LifeOf(s) = "open" /\ LifeOf(s)' = "closed"
  BY <1>1 DEF LifeOf, LifeInv, KnownOpened
<1>3. \A s \in Session \ S : LifeOf(s)' = LifeOf(s)
  BY <1>1 DEF LifeOf
<1>4. LivesNow' = [s \in Session |-> IF s \in S THEN "closed" ELSE LivesNow[s]]
  BY <1>2, <1>3 DEF LivesNow
<1>5. \A s \in S : LivesNow[s] = "open"
  BY <1>2 DEF LivesNow
<1>6. Life!Close(S)
  BY <1>1, <1>4, <1>5 DEF Life!Close, LivesNow, LifeOf, HeirsNow, HeirOf, Opened
<1> QED
  BY <1>6 DEF Life!LifeNext

LEMMA OpenStep ==
  ASSUME LifeInv, NEW p \in Proc, SetRefresh(p), NEW s, s = req[p].new, NEW o, o = req[p].old
  PROVE  Life!LifeNext
<1>0. /\ req[p] \in RequestRecord /\ Shape(req[p])
      /\ refresh \in [Session -> Nat] /\ now \in Nat
  BY DEF LifeInv, Base, Shaped, RecordsTyped
<1>1. req[p].pc = "setRefresh" /\ s \in Session /\ o \in Session \cup {None} /\ req[p].ttl \in Nat \ {0}
  BY <1>0, Times DEF SetRefresh, At, Shape, OpenSteps, RequestRecord
<1>2. ~Opened(s) /\ ~Held(s)
  BY <1>1 DEF LifeInv, OpenedOnce, KnownOpened, At
<1>3. o # None => Opened(o) /\ ~Held(o)
  BY <1>0, <1>1 DEF LifeInv, OldClosed, Shape, OpenSteps
<1>4. lineage' = lineage \cup {<<s, o>>} /\ refresh' = [refresh EXCEPT ![s] = now + req[p].ttl]
  BY DEF SetRefresh
<1>5. \A r \in Session : Held(r)' <=> Held(r) \/ r = s
  BY <1>0, <1>1, <1>4 DEF Held
<1>6. \A r : Opened(r)' <=> Opened(r) \/ r = s
  BY <1>1, <1>4 DEF Opened
<1>7. LivesNow' = [LivesNow EXCEPT ![s] = "open"]
  BY <1>5, <1>6 DEF LivesNow, LifeOf
<1>8. HeirsNow' = [HeirsNow EXCEPT ![s] = o]
  <2>1. \A r \in Session : r # s => HeirOf(r)' = HeirOf(r)
    <3> SUFFICES ASSUME NEW r \in Session, r # s PROVE HeirOf(r)' = HeirOf(r)
      OBVIOUS
    <3>1. \A n : <<r, n>> \in lineage' <=> <<r, n>> \in lineage
      BY <1>4
    <3> QED
      BY <3>1 DEF HeirOf
  <2>2. HeirOf(s)' = o
    <3>1. \A n \in Session : <<s, n>> \in lineage' <=> n = o
      BY <1>2, <1>4 DEF Opened
    <3>2. CASE o \in Session
      <4>1. \E n \in Session : <<s, n>> \in lineage'
        BY <3>1, <3>2
      <4>2. HeirOf(s)' \in Session /\ <<s, HeirOf(s)'>> \in lineage'
        BY <4>1 DEF HeirOf
      <4> QED
        BY <3>1, <4>2
    <3>3. CASE o \notin Session
      <4>1. o = None /\ ~\E n \in Session : <<s, n>> \in lineage'
        BY <1>1, <3>1, <3>3
      <4> QED
        BY <4>1 DEF HeirOf
    <3> QED
      BY <3>2, <3>3
  <2> QED
    BY <1>1, <2>1, <2>2 DEF HeirsNow
<1>9. LivesNow[s] = "none" /\ (o # 0 => LivesNow[o] = "closed")
  BY <1>1, <1>2, <1>3 DEF LivesNow, LifeOf, None
<1>10. Life!Open(s, o)
  BY <1>7, <1>8, <1>9 DEF Life!Open, LivesNow, LifeOf, HeirsNow, HeirOf, Opened
<1>11. o \in Session \cup {0}
  BY <1>1 DEF None
<1> QED
  BY <1>1, <1>10, <1>11 DEF Life!LifeNext

(* Sessions live once: a session is opened once, closed for good, and the  *)
(* one it replaces was closed before.                                      *)
THEOREM SessionsLiveOnce == Spec => LivesOnce
<1>1. Init => Life!LifeInit
  <2> SUFFICES ASSUME Init PROVE Life!LifeInit
    OBVIOUS
  <2>1. \A s \in Session : ~Held(s)
    BY DEF Init, Held
  <2> QED
    BY <2>1 DEF Init, Life!LifeInit, None
<1>2. LifeInv /\ [Next]_vars => Life!LifeNext \/ UNCHANGED <<LivesNow, HeirsNow>>
  <2> SUFFICES ASSUME LifeInv, [Next]_vars PROVE Life!LifeNext \/ UNCHANGED <<LivesNow, HeirsNow>>
    OBVIOUS
  <2>1. CASE \E p \in Proc : SetRefresh(p)
    BY <2>1, OpenStep
  <2>2. CASE \A p \in Proc : ~SetRefresh(p)
    <3> DEFINE S == {s \in Session : Held(s) /\ ~Held(s)'}
    <3>1. UNCHANGED lineage /\ \A s \in Session : Held(s)' => Held(s)
      BY <2>2, OthersClose
    <3>2. CASE S = {}
      <4>1. \A s \in Session : Held(s)' <=> Held(s)
        BY <3>1, <3>2
      <4> QED
        BY <3>1, <4>1 DEF LivesNow, LifeOf, HeirsNow, HeirOf, Opened
    <3>3. CASE S # {}
      BY <3>1, <3>3, CloseStep
    <3> QED
      BY <3>2, <3>3
  <2> QED
    BY <2>1, <2>2
<1> QED
  BY <1>1, <1>2, InitLife, LifeStays, PTL DEF Spec, LivesOnce, Life!LifeSpec, LivesNow, HeirsNow, LifeOf, HeirOf, Opened
-----------------------------------------------------------------------------
(* Signing out closes, and the listing is true                             *)

LEMMA InitSession == Init => SessionInv
<1> SUFFICES ASSUME Init PROVE SessionInv
  OBVIOUS
<1>1. /\ LifeInv /\ listed = {} /\ \A s \in Session : refresh[s] = 0 /\ session[s] = 0
      /\ \A p \in Proc : req[p] = Idle
  BY InitLife DEF Init
<1> QED
  BY <1>1 DEF SessionInv, Unseen, Expiries, SignedOut, OpenShown, ShownOpen, Held, Shown, Idle, Minted

(* What the steps below need of types.                                     *)
LEMMA SessionTypes ==
  ASSUME LifeInv
  PROVE  /\ req \in [Proc -> RequestRecord] /\ \A p \in Proc : Shape(req[p])
         /\ refresh \in [Session -> Nat] /\ session \in [Session -> Nat] /\ now \in Nat
         /\ tok \in [Session -> [id : Nat, secret : Nat, exp : Nat]]
         /\ listed \subseteq Session /\ given \subseteq Session
         /\ \A p \in Proc : req[p].ttl \in Nat \ {0} /\ req[p].old \in Session \cup {None}
         /\ \A p \in Proc : req[p].pc \in OpenSteps => req[p].new \in Session
BY Times DEF LifeInv, Base, Shaped, RecordsTyped, RequestRecord, Shape

(* Steps that only make requests go on, start with a session somebody      *)
(* knows, or break off.                                                    *)
LEMMA ThinkSession ==
  ASSUME SessionInv, LifeInv', UNCHANGED <<now, tok, refresh, session, listed, given, dropped>>,
         broken \subseteq broken',
         \A p \in Proc :
           /\ req'[p].old \in {req[p].old, None} \cup given \cup listed
           /\ req'[p].todo \subseteq req[p].todo \cup listed
           /\ req'[p].pc \in {"setSession", "list", "expire"} => req'[p].pc = req[p].pc
           /\ req'[p].new \in {None, req[p].new} /\ (req'[p].new # None => req'[p].ttl = req[p].ttl)
           /\ \/ {req[p].old, req[p].new} \ {None} \subseteq broken'
              \/ /\ req'[p].new = req[p].new /\ (req[p].pc = "revoke" => req'[p].pc = "revoke" /\ req'[p].old = req[p].old)
                 /\ req[p].pc \in {"find", "delSession", "delUnowned"} =>
                      req'[p].pc \in {"find", "delSession", "delUnowned"} /\ req'[p].old = req[p].old
  PROVE  SessionInv'
<1>0. /\ \A p \in Proc : Shape(req[p]) /\ Shape(req'[p]) /\ req'[p].new \in Session \cup {None}
                         /\ req[p].old \in Session \cup {None}
      /\ (\A s : Held(s)' <=> Held(s)) /\ Shown' = Shown
  BY SessionTypes DEF SessionInv, LifeInv, Base, Shaped, RequestRecord, Held, Shown
<1>1. Unseen'
  <2> SUFFICES ASSUME NEW p \in Proc, req'[p].pc \in {"setSession", "list"}
               PROVE  /\ \A q \in Proc : req'[p].new \notin given \cup listed \cup req'[q].todo \cup {req'[q].old}
                      /\ Held(req[p].new)' /\ (req'[p].pc = "list" => session[req'[p].new] # 0)
    BY DEF Unseen, At
  <2>1. req'[p].new = req[p].new /\ req'[p].new # None /\ req'[p].pc = req[p].pc
    BY <1>0 DEF Shape, OpenSteps
  <2>2. /\ \A q \in Proc : req[p].new \notin given \cup listed \cup req[q].todo \cup {req[q].old}
        /\ Held(req[p].new) /\ (req[p].pc = "list" => session[req[p].new] # 0)
    BY <2>1 DEF SessionInv, Unseen, At
  <2> QED
    BY <2>1, <2>2 DEF Held
<1>2. Expiries'
  BY DEF SessionInv, Expiries
<1>3. SignedOut'
  <2> SUFFICES ASSUME NEW s \in Minted \ (given \cup broken'), AcceptedByGuard(tok[s].secret), Held(s)
               PROVE  \E p \in Proc : req'[p].new = s \/ (req'[p].pc = "revoke" /\ req'[p].old = s)
    BY DEF SignedOut, Minted, At, Held, AcceptedByGuard
  <2>1. PICK p \in Proc : req[p].new = s \/ (req[p].pc = "revoke" /\ req[p].old = s)
    BY DEF SessionInv, SignedOut, At
  <2>2. s # None
    BY DEF Minted, Session, None
  <2> QED
    BY <2>1, <2>2
<1>4. OpenShown'
  <2> SUFFICES ASSUME NEW s \in Session \ (broken' \cup dropped), Held(s), InHand(s)' PROVE s \in Shown
    BY <1>0 DEF OpenShown, Held
  <2>1. InHand(s)
    <3> SUFFICES ASSUME NEW p \in Proc, req'[p].pc = "expire", req'[p].new = s PROVE InHand(s)
      BY DEF InHand, At
    <3>1. req[p].pc = "expire" /\ req[p].new = s
      BY <1>0 DEF Shape, OpenSteps
    <3> QED
      BY <3>1 DEF InHand, At
  <2> QED
    BY <2>1 DEF SessionInv, OpenShown
<1>5. ShownOpen'
  <2> SUFFICES ASSUME NEW s \in Shown \ broken', ~Held(s) PROVE Vanishing(s)'
    BY <1>0 DEF ShownOpen, Held
  <2>1. PICK p \in Proc : req[p].pc \in {"find", "delSession", "delUnowned"} /\ req[p].old = s
    BY DEF SessionInv, ShownOpen, Vanishing
  <2>2. s # None
    BY <1>0, <2>1 DEF Shape, CloseSteps
  <2> QED
    BY <2>1, <2>2 DEF Vanishing
<1> QED
  BY <1>1, <1>2, <1>3, <1>4, <1>5 DEF SessionInv

LEMMA MintSession ==
  ASSUME SessionInv, LifeInv', NEW p \in Proc, Reload(p), req[p].goal = "refresh"
  PROVE  SessionInv'
<1>0. LifeInv
  BY DEF SessionInv
<1>1. PICK s \in Session \ Minted : /\ req' = [req EXCEPT ![p].pc = "setRefresh", ![p].new = s]
                                    /\ Minted' = Minted \cup {s} /\ tok'[s].exp = now + req[p].ttl
                                    /\ \A r \in Session \ {s} : tok'[r] = tok[r]
  BY <1>0, MintLife DEF LifeInv
<1>2. /\ req'[p].pc = "setRefresh" /\ req'[p].new = s /\ req'[p].old = req[p].old
      /\ req'[p].todo = req[p].todo /\ req'[p].ttl = req[p].ttl
      /\ \A q \in Proc \ {p} : req'[q] = req[q]
  BY <1>0, <1>1, SessionTypes DEF RequestRecord
<1>3. /\ UNCHANGED <<now, refresh, session, listed, given, dropped, broken>>
      /\ req[p].pc = "reload"
  BY DEF Reload, At, records, history
<1>4. ~Held(s) /\ session[s] = 0 /\ \A q \in Proc : req[q].new # s
  <2>1. tok[s] = NoToken /\ s # None
    BY DEF Minted, Session, None
  <2> QED
    BY <1>0, <2>1 DEF LifeInv, OpenedOnce, KnownOpened, NewOnce, SessionInv, Expiries, NoToken
<1>5. Unseen'
  <2> SUFFICES ASSUME NEW q \in Proc, req'[q].pc \in {"setSession", "list"}
               PROVE  /\ \A o \in Proc : req'[q].new \notin given \cup listed \cup req'[o].todo \cup {req'[o].old}
                      /\ Held(req'[q].new) /\ (req'[q].pc = "list" => session[req'[q].new] # 0)
    BY <1>3 DEF Unseen, At, Held
  <2>1. req'[q] = req[q]
    BY <1>2
  <2> QED
    BY <1>2, <2>1 DEF SessionInv, Unseen, At
<1>6. Expiries'
  <2>1. ASSUME NEW r \in Session
        PROVE  /\ refresh[r] # 0 => refresh[r] = tok'[r].exp /\ refresh[r] > now
               /\ session[r] # 0 => session[r] = tok'[r].exp
    BY <1>1, <1>4 DEF SessionInv, Expiries, Held
  <2>2. ASSUME NEW q \in Proc, req'[q].new # None
        PROVE  tok'[req'[q].new].exp = now + req'[q].ttl
    <3>1. CASE q = p
      BY <1>1, <1>2, <3>1
    <3>2. CASE q # p
      <4>1. req[q].new \in Session \ {s}
        BY <1>0, <1>2, <1>4, <2>2, <3>2 DEF LifeInv, NewOnce, Minted
      <4>2. req'[q] = req[q] /\ tok[req[q].new].exp = now + req[q].ttl
        BY <1>2, <2>2, <3>2 DEF SessionInv, Expiries
      <4> QED
        BY <1>1, <4>1, <4>2
    <3> QED
      BY <3>1, <3>2
  <2> QED
    BY <1>3, <2>1, <2>2 DEF Expiries
<1>7. SignedOut'
  <2> SUFFICES ASSUME NEW r \in Minted' \ (given \cup broken), AcceptedByGuard(tok'[r].secret), Held(r)
               PROVE  \E q \in Proc : req'[q].new = r \/ (req'[q].pc = "revoke" /\ req'[q].old = r)
    BY <1>3 DEF SignedOut, At, Held, AcceptedByGuard
  <2>1. r \in Minted /\ tok'[r] = tok[r]
    BY <1>1, <1>4 DEF Minted
  <2>2. PICK q \in Proc : req[q].new = r \/ (req[q].pc = "revoke" /\ req[q].old = r)
    BY <2>1 DEF SessionInv, SignedOut, At
  <2>3. q # p
    <3>1. r # None
      BY <2>1 DEF Minted, Session, None
    <3>2. req[p].new = None
      BY <1>0, <1>3, SessionTypes DEF Shape, OpenSteps
    <3> QED
      BY <1>3, <2>2, <3>1, <3>2
  <2> QED
    BY <1>2, <2>2, <2>3
<1>8. OpenShown' /\ ShownOpen'
  <2>1. (\A r : Held(r)' <=> Held(r)) /\ Shown' = Shown
    BY <1>3 DEF Held, Shown
  <2>2. \A r : (InHand(r)' <=> InHand(r)) /\ (Vanishing(r)' <=> Vanishing(r))
    BY <1>2, <1>3 DEF InHand, Vanishing, At
  <2> QED
    BY <1>3, <2>1, <2>2 DEF SessionInv, OpenShown, ShownOpen
<1> QED
  BY <1>5, <1>6, <1>7, <1>8 DEF SessionInv

(* What a step of an open request does to the request.                     *)
LEMMA OpeningMove ==
  ASSUME LifeInv, NEW p \in Proc, NEW pc \in {"setSession", "list", "expire"}, Go(p, pc), req[p].pc \in OpenSteps
  PROVE  /\ req'[p].pc = pc /\ req'[p].new = req[p].new /\ req'[p].old = req[p].old
         /\ req'[p].todo = req[p].todo /\ req'[p].ttl = req[p].ttl
         /\ \A q \in Proc \ {p} : req'[q] = req[q] /\ (req[q].pc \in OpenSteps => req[q].new # req[p].new)
         /\ req[p].new \in Session /\ req[p].new # None
<1>1. /\ req'[p].pc = pc /\ req'[p].new = req[p].new /\ req'[p].old = req[p].old
      /\ req'[p].todo = req[p].todo /\ req'[p].ttl = req[p].ttl
      /\ \A q \in Proc \ {p} : req'[q] = req[q]
  BY SessionTypes DEF Go, RequestRecord
<1>2. \A q \in Proc : Shape(req[q]) /\ (req[q].pc \in OpenSteps => req[q].new \in Session /\ req[q].new # None)
  BY SessionTypes DEF Shape
<1> QED
  BY <1>1, <1>2 DEF LifeInv, NewOnce

LEMMA SetRefreshSession ==
  ASSUME SessionInv, LifeInv', NEW p \in Proc, SetRefresh(p), NEW s, s = req[p].new
  PROVE  SessionInv'
<1>0. LifeInv /\ req[p].pc = "setRefresh"
  BY DEF SessionInv, SetRefresh, At
<1>1. /\ req'[p].pc = "setSession" /\ req'[p].new = s /\ req'[p].old = req[p].old
      /\ req'[p].todo = req[p].todo /\ req'[p].ttl = req[p].ttl
      /\ \A q \in Proc \ {p} : req'[q] = req[q] /\ (req[q].pc \in OpenSteps => req[q].new # s)
      /\ s \in Session /\ s # None
  BY <1>0, OpeningMove DEF SetRefresh, OpenSteps
<1>2. UNCHANGED <<now, tok, session, listed, given, dropped, broken>>
  BY DEF SetRefresh
<1>3. ~Opened(s) /\ ~Held(s)
  BY <1>0, <1>1 DEF LifeInv, OpenedOnce, KnownOpened, At
<1>4. refresh'[s] = now + req[p].ttl /\ refresh'[s] > now /\ \A r \in Session \ {s} : refresh'[r] = refresh[r]
  BY <1>0, <1>1, SessionTypes DEF SetRefresh
<1>5. Held(s)' /\ \A r \in Session \ {s} : Held(r)' <=> Held(r)
  BY <1>0, <1>4, SessionTypes DEF Held
<1>6. \A q \in Proc : s \notin given \cup listed \cup req[q].todo \cup {req[q].old}
  BY <1>0, <1>1, <1>3 DEF LifeInv, KnownOpened, OldClosed, Todo
<1>7. Unseen'
  <2>1. \A q \in Proc : s \notin given' \cup listed' \cup req'[q].todo \cup {req'[q].old}
    BY <1>1, <1>2, <1>6
  <2>2. ASSUME NEW q \in Proc \ {p}, req'[q].pc \in {"setSession", "list"}
        PROVE  /\ \A o \in Proc : req'[q].new \notin given' \cup listed' \cup req'[o].todo \cup {req'[o].old}
               /\ Held(req[q].new)' /\ (At(q, "list") => session'[req'[q].new] # 0)
    <3>1. req[q].pc \in {"setSession", "list"} /\ req[q].new \in Session \ {s}
      BY <1>0, <1>1, <2>2, SessionTypes DEF OpenSteps
    <3> QED
      BY <1>1, <1>2, <1>5, <3>1 DEF SessionInv, Unseen
  <2> QED
    BY <1>1, <1>5, <2>1, <2>2 DEF Unseen, At
<1>8. Expiries'
  <2>1. tok[s].exp = now + req[p].ttl
    BY <1>1 DEF SessionInv, Expiries
  <2>2. \A r \in Session : /\ refresh'[r] # 0 => refresh'[r] = tok[r].exp /\ refresh'[r] > now
                           /\ session[r] # 0 => session[r] = tok[r].exp
    BY <1>4, <2>1 DEF SessionInv, Expiries
  <2>3. \A q \in Proc : req'[q].new # None => tok[req'[q].new].exp = now + req'[q].ttl
    BY <1>1 DEF SessionInv, Expiries
  <2> QED
    BY <1>2, <2>2, <2>3 DEF Expiries
<1>9. SignedOut'
  <2> SUFFICES ASSUME NEW r \in Minted \ (given \cup broken), AcceptedByGuard(tok[r].secret), Held(r)'
               PROVE  \E q \in Proc : req'[q].new = r \/ (req'[q].pc = "revoke" /\ req'[q].old = r)
    BY <1>2 DEF SignedOut, Minted, At, AcceptedByGuard
  <2>1. CASE r = s
    BY <1>1, <2>1
  <2>2. CASE r # s
    <3>1. PICK q \in Proc : req[q].new = r \/ (req[q].pc = "revoke" /\ req[q].old = r)
      BY <1>5, <2>2 DEF SessionInv, SignedOut, At, Minted
    <3> QED
      BY <1>0, <1>1, <3>1
  <2> QED
    BY <2>1, <2>2
<1>10. OpenShown'
  <2> SUFFICES ASSUME NEW r \in Session \ (broken \cup dropped), Held(r)', InHand(r)' PROVE r \in Shown
    BY <1>2 DEF OpenShown, Shown
  <2>1. r # s
    BY <1>1, <1>2, <1>6 DEF InHand, At, OpenSteps
  <2>2. InHand(r)
    BY <1>1, <1>2 DEF InHand, At
  <2> QED
    BY <1>5, <2>1, <2>2 DEF SessionInv, OpenShown
<1>11. ShownOpen'
  <2> SUFFICES ASSUME NEW r \in Shown \ broken, ~Held(r)' PROVE Vanishing(r)'
    BY <1>2 DEF ShownOpen, Shown
  <2>1. r \in Session \ {s}
    BY <1>0, <1>5, SessionTypes DEF Shown
  <2>2. PICK q \in Proc : req[q].pc \in {"find", "delSession", "delUnowned"} /\ req[q].old = r
    BY <1>5, <2>1 DEF SessionInv, ShownOpen, Vanishing
  <2> QED
    BY <1>0, <1>1, <2>2 DEF Vanishing
<1> QED
  BY <1>7, <1>8, <1>9, <1>10, <1>11 DEF SessionInv

LEMMA SetSessionSession ==
  ASSUME SessionInv, LifeInv', NEW p \in Proc, SetSession(p), NEW s, s = req[p].new
  PROVE  SessionInv'
<1>0. LifeInv /\ req[p].pc = "setSession" /\ session \in [Session -> Nat] /\ now \in Nat /\ req[p].ttl \in Nat \ {0}
  BY SessionTypes DEF SessionInv, SetSession, At
<1>1. /\ req'[p].pc = "list" /\ req'[p].new = s /\ req'[p].old = req[p].old
      /\ req'[p].todo = req[p].todo /\ req'[p].ttl = req[p].ttl
      /\ \A q \in Proc \ {p} : req'[q] = req[q] /\ (req[q].pc \in OpenSteps => req[q].new # s)
      /\ s \in Session /\ s # None
  BY <1>0, OpeningMove DEF SetSession, OpenSteps
<1>2. UNCHANGED <<now, tok, refresh, listed, given, dropped, broken>> /\ \A r : Held(r)' <=> Held(r)
  BY DEF SetSession, history, Held
<1>3. session'[s] = now + req[p].ttl /\ \A r \in Session \ {s} : session'[r] = session[r]
  BY <1>0, <1>1 DEF SetSession
<1>4. Held(s) /\ \A q \in Proc : s \notin given \cup listed \cup req[q].todo \cup {req[q].old}
  BY <1>0 DEF SessionInv, Unseen
<1>5. Unseen'
  <2>1. \A q \in Proc : s \notin given' \cup listed' \cup req'[q].todo \cup {req'[q].old}
    BY <1>1, <1>2, <1>4
  <2>2. ASSUME NEW q \in Proc \ {p}, req'[q].pc \in {"setSession", "list"}
        PROVE  /\ \A o \in Proc : req'[q].new \notin given' \cup listed' \cup req'[o].todo \cup {req'[o].old}
               /\ Held(req[q].new)' /\ (At(q, "list")' => session'[req'[q].new] # 0)
    <3>1. req'[q] = req[q] /\ req[q].new \in Session \ {s}
      BY <1>0, <1>1, <2>2, SessionTypes DEF OpenSteps
    <3>2. /\ \A o \in Proc : req[q].new \notin given \cup listed \cup req[o].todo \cup {req[o].old}
          /\ Held(req[q].new) /\ (At(q, "list") => session[req[q].new] # 0)
      BY <2>2, <3>1 DEF SessionInv, Unseen
    <3> QED
      BY <1>1, <1>2, <1>3, <3>1, <3>2 DEF At, Held
  <2>3. Held(req[p].new)' /\ session'[req'[p].new] # 0
    BY <1>0, <1>1, <1>2, <1>3, <1>4 DEF Held
  <2> QED
    BY <1>1, <2>1, <2>2, <2>3 DEF Unseen
<1>6. Expiries'
  <2>1. tok[s].exp = now + req[p].ttl
    BY <1>1 DEF SessionInv, Expiries
  <2>2. \A r \in Session : /\ refresh[r] # 0 => refresh[r] = tok[r].exp /\ refresh[r] > now
                           /\ session'[r] # 0 => session'[r] = tok[r].exp
    BY <1>3, <2>1 DEF SessionInv, Expiries
  <2>3. \A q \in Proc : req'[q].new # None => tok[req'[q].new].exp = now + req'[q].ttl
    BY <1>1 DEF SessionInv, Expiries
  <2> QED
    BY <1>2, <2>2, <2>3 DEF Expiries
<1>7. SignedOut'
  <2> SUFFICES ASSUME NEW r \in Minted \ (given \cup broken), AcceptedByGuard(tok[r].secret), Held(r)
               PROVE  \E q \in Proc : req'[q].new = r \/ (req'[q].pc = "revoke" /\ req'[q].old = r)
    BY <1>2 DEF SignedOut, Minted, At, AcceptedByGuard
  <2>1. PICK q \in Proc : req[q].new = r \/ (req[q].pc = "revoke" /\ req[q].old = r)
    BY DEF SessionInv, SignedOut, At
  <2> QED
    BY <1>0, <1>1, <2>1
<1>8. OpenShown'
  <2> SUFFICES ASSUME NEW r \in Session \ (broken \cup dropped), Held(r), InHand(r)' PROVE r \in listed /\ session'[r] # 0
    BY <1>2 DEF OpenShown, Shown
  <2>1. InHand(r)
    BY <1>1, <1>2 DEF InHand, At
  <2>2. r \in listed /\ session[r] # 0
    BY <2>1 DEF SessionInv, OpenShown, Shown
  <2> QED
    BY <1>3, <1>4, <2>2
<1>9. ShownOpen'
  <2> SUFFICES ASSUME NEW r \in listed, session'[r] # 0, r \notin broken, ~Held(r) PROVE Vanishing(r)'
    BY <1>2 DEF ShownOpen, Shown
  <2>1. r \in Session \ {s}
    BY <1>0, <1>4, SessionTypes
  <2>2. PICK q \in Proc : req[q].pc \in {"find", "delSession", "delUnowned"} /\ req[q].old = r
    BY <1>3, <2>1 DEF SessionInv, ShownOpen, Vanishing, Shown
  <2> QED
    BY <1>0, <1>1, <2>2 DEF Vanishing
<1> QED
  BY <1>5, <1>6, <1>7, <1>8, <1>9 DEF SessionInv

LEMMA ListSession ==
  ASSUME SessionInv, LifeInv', NEW p \in Proc, List(p), NEW s, s = req[p].new
  PROVE  SessionInv'
<1>0. LifeInv /\ req[p].pc = "list"
  BY DEF SessionInv, List, At
<1>1. /\ req'[p].pc = "expire" /\ req'[p].new = s /\ req'[p].old = req[p].old
      /\ req'[p].todo = req[p].todo /\ req'[p].ttl = req[p].ttl
      /\ \A q \in Proc \ {p} : req'[q] = req[q] /\ (req[q].pc \in OpenSteps => req[q].new # s)
      /\ s \in Session /\ s # None
  BY <1>0, OpeningMove DEF List, OpenSteps
<1>2. /\ UNCHANGED <<now, tok, refresh, session, given, dropped, broken>> /\ \A r : Held(r)' <=> Held(r)
      /\ listed' = listed \cup {s}
  BY DEF List, history, Held
<1>3. Held(s) /\ session[s] # 0
  BY <1>0 DEF SessionInv, Unseen, At
<1>4. Unseen'
  <2> SUFFICES ASSUME NEW q \in Proc, req'[q].pc \in {"setSession", "list"}
               PROVE  /\ \A o \in Proc : req'[q].new \notin given \cup listed' \cup req'[o].todo \cup {req'[o].old}
                      /\ Held(req[q].new)' /\ (At(q, "list")' => session[req'[q].new] # 0)
    BY <1>2 DEF Unseen
  <2>1. req'[q] = req[q] /\ req[q].new # s
    BY <1>1 DEF OpenSteps
  <2>2. /\ \A o \in Proc : req[q].new \notin given \cup listed \cup req[o].todo \cup {req[o].old}
        /\ Held(req[q].new) /\ (At(q, "list") => session[req[q].new] # 0)
    BY <2>1 DEF SessionInv, Unseen
  <2> QED
    BY <1>1, <1>2, <2>1, <2>2 DEF At, Held
<1>5. Expiries'
  <2>1. \A q \in Proc : req'[q].new # None => tok[req'[q].new].exp = now + req'[q].ttl
    BY <1>1 DEF SessionInv, Expiries
  <2> QED
    BY <1>2, <2>1 DEF SessionInv, Expiries
<1>6. SignedOut'
  <2> SUFFICES ASSUME NEW r \in Minted \ (given \cup broken), AcceptedByGuard(tok[r].secret), Held(r)
               PROVE  \E q \in Proc : req'[q].new = r \/ (req'[q].pc = "revoke" /\ req'[q].old = r)
    BY <1>2 DEF SignedOut, Minted, At, AcceptedByGuard
  <2>1. PICK q \in Proc : req[q].new = r \/ (req[q].pc = "revoke" /\ req[q].old = r)
    BY DEF SessionInv, SignedOut, At
  <2> QED
    BY <1>0, <1>1, <2>1
<1>7. OpenShown'
  <2> SUFFICES ASSUME NEW r \in Session \ (broken \cup dropped), Held(r), InHand(r)' PROVE r \in listed' /\ session[r] # 0
    BY <1>2 DEF OpenShown, Shown
  <2>1. r = s \/ InHand(r)
    BY <1>1, <1>2 DEF InHand, At
  <2> QED
    BY <1>2, <1>3, <2>1 DEF SessionInv, OpenShown, Shown
<1>8. ShownOpen'
  <2> SUFFICES ASSUME NEW r \in listed', session[r] # 0, r \notin broken, ~Held(r) PROVE Vanishing(r)'
    BY <1>2 DEF ShownOpen, Shown
  <2>1. PICK q \in Proc : req[q].pc \in {"find", "delSession", "delUnowned"} /\ req[q].old = r
    BY <1>2, <1>3 DEF SessionInv, ShownOpen, Vanishing, Shown
  <2> QED
    BY <1>0, <1>1, <2>1 DEF Vanishing
<1> QED
  BY <1>4, <1>5, <1>6, <1>7, <1>8 DEF SessionInv

LEMMA ExpireSession ==
  ASSUME SessionInv, LifeInv', NEW p \in Proc, Expire(p), NEW s, s = req[p].new, NEW o, o = req[p].old
  PROVE  SessionInv'
<1>0. LifeInv /\ req[p].pc = "expire" /\ req[p].goal = "refresh"
  BY SessionTypes DEF SessionInv, Expire, At, Shape, OpenSteps
<1>1. /\ req'[p] = Idle /\ \A q \in Proc \ {p} : req'[q] = req[q]
      /\ \A q \in Proc \ {p} : req[q].pc \in OpenSteps => req[q].new # s
      /\ s \in Session /\ s # None
  <2>1. s \in Session /\ s # None
    BY <1>0, SessionTypes DEF OpenSteps, Session, None
  <2>2. \A q \in Proc \ {p} : req[q].pc \in OpenSteps => req[q].new # s
    BY <1>0, <2>1 DEF LifeInv, NewOnce
  <2> QED
    BY <1>0, <2>1, <2>2, SessionTypes DEF Expire, Done
<1>2. /\ UNCHANGED <<now, tok, refresh, session, listed, dropped, broken>> /\ (\A r : Held(r)' <=> Held(r))
      /\ Shown' = Shown /\ given' = (given \ {o}) \cup {s}
  BY DEF Expire, history, Held, Shown
<1>3. o # None => ~Held(o)
  BY <1>0 DEF LifeInv, OldClosed
<1>4. Unseen'
  <2> SUFFICES ASSUME NEW q \in Proc, req'[q].pc \in {"setSession", "list"}
               PROVE  /\ \A n \in Proc : req'[q].new \notin given' \cup listed \cup req'[n].todo \cup {req'[n].old}
                      /\ Held(req[q].new)' /\ (At(q, "list")' => session[req'[q].new] # 0)
    BY <1>2 DEF Unseen
  <2>1. req'[q] = req[q] /\ req[q].new # s /\ req[q].new \in Session /\ req[q].new # None
    BY <1>0, <1>1, SessionTypes DEF OpenSteps, Idle, Session, None
  <2>2. /\ \A n \in Proc : req[q].new \notin given \cup listed \cup req[n].todo \cup {req[n].old}
        /\ Held(req[q].new) /\ (At(q, "list") => session[req[q].new] # 0)
    BY <2>1 DEF SessionInv, Unseen
  <2> QED
    BY <1>1, <1>2, <2>1, <2>2 DEF At, Held, Idle
<1>5. Expiries'
  <2>1. \A q \in Proc : req'[q].new # None => tok[req'[q].new].exp = now + req'[q].ttl
    BY <1>1 DEF SessionInv, Expiries, Idle
  <2> QED
    BY <1>2, <2>1 DEF SessionInv, Expiries
<1>6. SignedOut'
  <2> SUFFICES ASSUME NEW r \in Minted \ (given' \cup broken), AcceptedByGuard(tok[r].secret), Held(r)
               PROVE  \E q \in Proc : req'[q].new = r \/ (req'[q].pc = "revoke" /\ req'[q].old = r)
    BY <1>2 DEF SignedOut, Minted, At, AcceptedByGuard
  <2>1. r # s /\ r # o /\ r \notin given
    BY <1>2, <1>3 DEF Minted, Session, None
  <2>2. PICK q \in Proc : req[q].new = r \/ (req[q].pc = "revoke" /\ req[q].old = r)
    BY <2>1 DEF SessionInv, SignedOut, At
  <2> QED
    BY <1>0, <1>1, <2>1, <2>2
<1>7. OpenShown'
  <2> SUFFICES ASSUME NEW r \in Session \ (broken \cup dropped), Held(r), InHand(r)' PROVE r \in Shown
    BY <1>2 DEF OpenShown
  <2>1. InHand(s)
    BY <1>0 DEF InHand, At
  <2>2. InHand(r)
    BY <1>1, <1>2, <2>1 DEF InHand, At, Idle
  <2> QED
    BY <2>2 DEF SessionInv, OpenShown
<1>8. ShownOpen'
  <2> SUFFICES ASSUME NEW r \in Shown \ broken, ~Held(r) PROVE Vanishing(r)'
    BY <1>2 DEF ShownOpen
  <2>1. PICK q \in Proc : req[q].pc \in {"find", "delSession", "delUnowned"} /\ req[q].old = r
    BY DEF SessionInv, ShownOpen, Vanishing
  <2> QED
    BY <1>0, <1>1, <2>1 DEF Vanishing
<1> QED
  BY <1>4, <1>5, <1>6, <1>7, <1>8 DEF SessionInv

(* refresh:<jti> goes: by an exchange, a sign-out or a revocation.         *)
LEMMA CloseSession ==
  ASSUME SessionInv, LifeInv', NEW p \in Proc, DelRefresh(p) \/ RevokeRefresh(p), NEW s, s = req[p].old
  PROVE  SessionInv'
<1>0. LifeInv /\ req[p].pc \in {"delRefresh", "revoke"}
  BY DEF SessionInv, DelRefresh, RevokeRefresh, At
<1>1. /\ req'[p].pc \in {"delSession", "find"} /\ req'[p].new = None /\ req[p].new = None /\ req'[p].old = s
      /\ req'[p].todo = req[p].todo
      /\ \A q \in Proc \ {p} : req'[q] = req[q]
      /\ s \in Session /\ s # None
  <2>1. \E pc \in {"delSession", "find"} : req' = [req EXCEPT ![p] = [req[p] EXCEPT !.pc = pc]]
    BY DEF DelRefresh, RevokeRefresh, Go
  <2>2. req \in [Proc -> RequestRecord] /\ req[p] \in RequestRecord /\ Shape(req[p])
    BY SessionTypes, <1>0
  <2>3. req[p].new = None /\ s \in Session /\ s # None
    BY <1>0, <2>2 DEF Shape, OpenSteps, RequestRecord, None
  <2> QED
    BY <2>1, <2>2, <2>3 DEF RequestRecord
<1>2. /\ UNCHANGED <<now, tok, session, listed, given, dropped, broken>> /\ Shown' = Shown
      /\ refresh' = [refresh EXCEPT ![s] = 0]
  BY DEF DelRefresh, RevokeRefresh, history, Shown
<1>3. /\ ~Held(s)' /\ refresh'[s] = 0
      /\ \A r \in Session \ {s} : refresh'[r] = refresh[r] /\ (Held(r)' <=> Held(r))
  BY <1>0, <1>1, <1>2, SessionTypes DEF Held
<1>4. Unseen'
  <2> SUFFICES ASSUME NEW q \in Proc, req'[q].pc \in {"setSession", "list"}
               PROVE  /\ \A n \in Proc : req'[q].new \notin given \cup listed \cup req'[n].todo \cup {req'[n].old}
                      /\ Held(req[q].new)' /\ (At(q, "list")' => session[req'[q].new] # 0)
    BY <1>2 DEF Unseen
  <2>1. req'[q] = req[q] /\ req[q].new \in Session
    BY <1>0, <1>1, SessionTypes DEF OpenSteps
  <2>2. /\ \A n \in Proc : req[q].new \notin given \cup listed \cup req[n].todo \cup {req[n].old}
        /\ Held(req[q].new) /\ (At(q, "list") => session[req[q].new] # 0)
    BY <2>1 DEF SessionInv, Unseen
  <2>3. req[q].new # s
    BY <2>2
  <2> QED
    BY <1>1, <1>3, <2>1, <2>2, <2>3 DEF At
<1>5. Expiries'
  <2>1. \A q \in Proc : req'[q].new # None => tok[req'[q].new].exp = now + req'[q].ttl
    BY <1>1 DEF SessionInv, Expiries
  <2>2. \A r \in Session : refresh'[r] # 0 => refresh'[r] = tok[r].exp /\ refresh'[r] > now
    BY <1>3 DEF SessionInv, Expiries
  <2> QED
    BY <1>2, <2>1, <2>2 DEF SessionInv, Expiries
<1>6. SignedOut'
  <2> SUFFICES ASSUME NEW r \in Minted \ (given \cup broken), AcceptedByGuard(tok[r].secret), Held(r)'
               PROVE  \E q \in Proc : req'[q].new = r \/ (req'[q].pc = "revoke" /\ req'[q].old = r)
    BY <1>2 DEF SignedOut, Minted, At, AcceptedByGuard
  <2>1. r # s /\ r # None /\ Held(r)
    BY <1>3 DEF Minted, Session, None
  <2>2. PICK q \in Proc : req[q].new = r \/ (req[q].pc = "revoke" /\ req[q].old = r)
    BY <2>1 DEF SessionInv, SignedOut, At
  <2> QED
    BY <1>1, <2>1, <2>2
<1>7. OpenShown'
  <2> SUFFICES ASSUME NEW r \in Session \ (broken \cup dropped), Held(r)', InHand(r)' PROVE r \in Shown
    BY <1>2 DEF OpenShown
  <2>1. Held(r) /\ InHand(r)
    BY <1>1, <1>2, <1>3 DEF InHand, At
  <2> QED
    BY <2>1 DEF SessionInv, OpenShown
<1>8. ShownOpen'
  <2> SUFFICES ASSUME NEW r \in Shown \ broken, ~Held(r)' PROVE Vanishing(r)'
    BY <1>2 DEF ShownOpen
  <2>1. CASE r = s
    BY <1>1, <2>1 DEF Vanishing
  <2>2. CASE r # s
    <3>1. ~Held(r)
      BY <1>0, <1>3, <2>2, SessionTypes DEF Shown
    <3>2. PICK q \in Proc : req[q].pc \in {"find", "delSession", "delUnowned"} /\ req[q].old = r
      BY <3>1 DEF SessionInv, ShownOpen, Vanishing
    <3> QED
      BY <1>0, <1>1, <3>2 DEF Vanishing
  <2> QED
    BY <2>1, <2>2
<1> QED
  BY <1>4, <1>5, <1>6, <1>7, <1>8 DEF SessionInv

(* Details or the listing of sessions S go: of one that is closed, or of   *)
(* those of an account that is erased.                                     *)
LEMMA ForgetSession ==
  ASSUME SessionInv, LifeInv', UNCHANGED <<now, tok, refresh, given, dropped>>, broken \subseteq broken',
         NEW p \in Proc, \A q \in Proc \ {p} : req'[q] = req[q], NEW S \in SUBSET Session,
         S \subseteq listed \cup req[p].todo \cup {req[p].old},
         req[p].pc \in {"delSession", "delUnowned", "unlist", "erase"},
         req[p].pc # "erase" => S = {req[p].old},
         req'[p].pc \notin OpenSteps, req'[p].new = None,
         req'[p].old \in {req[p].old, None}, req'[p].todo \subseteq req[p].todo,
         \A s \in S : s \in broken' \/ ~(Held(s) \/ s \in Shown'),
         listed' \subseteq listed, \A s \in Session : session'[s] \in {session[s], 0},
         \A s \in Session \ S : session'[s] = session[s] /\ (s \in listed => s \in listed')
  PROVE  SessionInv'
<1>0. LifeInv /\ (\A s : Held(s)' <=> Held(s)) /\ Shown' \subseteq Shown /\ req[p].new = None
  BY SessionTypes DEF SessionInv, Held, Shown, Shape, OpenSteps
<1>1. Unseen'
  <2> SUFFICES ASSUME NEW q \in Proc, req'[q].pc \in {"setSession", "list"}
               PROVE  /\ \A n \in Proc : req'[q].new \notin given \cup listed' \cup req'[n].todo \cup {req'[n].old}
                      /\ Held(req[q].new)' /\ (At(q, "list")' => session'[req'[q].new] # 0)
    BY DEF Unseen
  <2>1. req'[q] = req[q] /\ req[q].new \in Session /\ req[q].new # None
    BY <1>0, SessionTypes DEF OpenSteps, Session, None
  <2>2. /\ \A n \in Proc : req[q].new \notin given \cup listed \cup req[n].todo \cup {req[n].old}
        /\ Held(req[q].new) /\ (At(q, "list") => session[req[q].new] # 0)
    BY <2>1 DEF SessionInv, Unseen
  <2>3. req[q].new \notin S
    BY <2>2
  <2> QED
    BY <1>0, <2>1, <2>2, <2>3 DEF At, Held
<1>2. Expiries'
  <2>1. \A q \in Proc : req'[q].new # None => tok[req'[q].new].exp = now + req'[q].ttl
    BY DEF SessionInv, Expiries
  <2>2. \A r \in Session : session'[r] # 0 => session'[r] = tok[r].exp
    BY DEF SessionInv, Expiries
  <2> QED
    BY <2>1, <2>2 DEF SessionInv, Expiries
<1>3. SignedOut'
  <2> SUFFICES ASSUME NEW r \in Minted \ (given \cup broken'), AcceptedByGuard(tok[r].secret), Held(r)
               PROVE  \E q \in Proc : req'[q].new = r \/ (req'[q].pc = "revoke" /\ req'[q].old = r)
    BY <1>0 DEF SignedOut, Minted, At, AcceptedByGuard
  <2>1. PICK q \in Proc : req[q].new = r \/ (req[q].pc = "revoke" /\ req[q].old = r)
    BY DEF SessionInv, SignedOut, At
  <2>2. r # None
    BY DEF Minted, Session, None
  <2> QED
    BY <1>0, <2>1, <2>2
<1>4. OpenShown'
  <2> SUFFICES ASSUME NEW r \in Session \ (broken' \cup dropped), Held(r), InHand(r)' PROVE r \in Shown'
    BY <1>0 DEF OpenShown
  <2>1. InHand(r)
    BY DEF InHand, At, OpenSteps
  <2>2. r \in Shown
    BY <2>1 DEF SessionInv, OpenShown
  <2>3. r \notin S
    OBVIOUS
  <2> QED
    BY <2>2, <2>3 DEF Shown
<1>5. ShownOpen'
  <2> SUFFICES ASSUME NEW r \in Shown' \ broken', ~Held(r) PROVE Vanishing(r)'
    BY <1>0 DEF ShownOpen
  <2>1. r \notin S
    OBVIOUS
  <2>2. PICK q \in Proc : req[q].pc \in {"find", "delSession", "delUnowned"} /\ req[q].old = r
    BY <1>0 DEF SessionInv, ShownOpen, Vanishing
  <2>3. q # p
    BY <2>1, <2>2
  <2> QED
    BY <2>2, <2>3 DEF Vanishing
<1> QED
  BY <1>1, <1>2, <1>3, <1>4, <1>5 DEF SessionInv

LEMMA LogoutSession ==
  ASSUME SessionInv, LifeInv', NEW p \in Proc, NEW s \in Session, Logout(p, s)
  PROVE  SessionInv'
<1>0. /\ LifeInv /\ req[p] = Idle /\ s \in given
  BY SessionTypes DEF SessionInv, Logout, At, Shape
<1>1. /\ UNCHANGED <<now, tok, refresh, session, listed, dropped, broken>> /\ (\A r : Held(r)' <=> Held(r))
      /\ Shown' = Shown /\ given' = given \ {s}
  BY DEF Logout, records, history, Held, Shown
<1>2. /\ \A q \in Proc \ {p} : req'[q] = req[q]
      /\ req'[p].new = None /\ req'[p].todo = {} /\ req'[p].old \in {None, s} /\ req'[p].pc \in {"idle", "revoke"}
      /\ AcceptedByGuard(tok[s].secret) /\ tok[s].exp > now => req'[p].pc = "revoke" /\ req'[p].old = s
  BY <1>0, SessionTypes DEF Logout, RequestRecord, Idle
<1>3. Unseen'
  <2> SUFFICES ASSUME NEW q \in Proc, req'[q].pc \in {"setSession", "list"}
               PROVE  /\ \A n \in Proc : req'[q].new \notin given' \cup listed \cup req'[n].todo \cup {req'[n].old}
                      /\ Held(req[q].new)' /\ (At(q, "list")' => session[req'[q].new] # 0)
    BY <1>1 DEF Unseen
  <2>1. req'[q] = req[q] /\ req[q].new # None
    BY <1>0, <1>2, SessionTypes DEF OpenSteps, Session, None
  <2>2. /\ \A n \in Proc : req[q].new \notin given \cup listed \cup req[n].todo \cup {req[n].old}
        /\ Held(req[q].new) /\ (At(q, "list") => session[req[q].new] # 0)
    BY <2>1 DEF SessionInv, Unseen
  <2> QED
    BY <1>0, <1>1, <1>2, <2>1, <2>2 DEF At, Held
<1>4. Expiries'
  <2>1. \A q \in Proc : req'[q].new # None => tok[req'[q].new].exp = now + req'[q].ttl
    BY <1>2 DEF SessionInv, Expiries
  <2> QED
    BY <1>1, <2>1 DEF SessionInv, Expiries
<1>5. SignedOut'
  <2> SUFFICES ASSUME NEW r \in Minted \ (given' \cup broken), AcceptedByGuard(tok[r].secret), Held(r)
               PROVE  \E q \in Proc : req'[q].new = r \/ (req'[q].pc = "revoke" /\ req'[q].old = r)
    BY <1>1 DEF SignedOut, Minted, At, AcceptedByGuard
  <2>1. CASE r = s
    <3>1. tok[s].exp > now
      BY <2>1 DEF SessionInv, Expiries, Held
    <3> QED
      BY <1>2, <2>1, <3>1
  <2>2. CASE r # s
    <3>1. PICK q \in Proc : req[q].new = r \/ (req[q].pc = "revoke" /\ req[q].old = r)
      BY <1>1, <2>2 DEF SessionInv, SignedOut, At
    <3>2. q # p
      BY <1>0, <3>1 DEF Idle, Minted, Session, None
    <3> QED
      BY <1>2, <3>1, <3>2
  <2> QED
    BY <2>1, <2>2
<1>6. OpenShown'
  <2> SUFFICES ASSUME NEW r \in Session \ (broken \cup dropped), Held(r), InHand(r)' PROVE r \in Shown
    BY <1>1 DEF OpenShown
  <2>1. InHand(r)
    BY <1>1, <1>2 DEF InHand, At
  <2> QED
    BY <2>1 DEF SessionInv, OpenShown
<1>7. ShownOpen'
  <2> SUFFICES ASSUME NEW r \in Shown \ broken, ~Held(r) PROVE Vanishing(r)'
    BY <1>1 DEF ShownOpen
  <2>1. PICK q \in Proc : req[q].pc \in {"find", "delSession", "delUnowned"} /\ req[q].old = r
    BY DEF SessionInv, ShownOpen, Vanishing
  <2>2. q # p
    BY <1>0, <2>1 DEF Idle
  <2> QED
    BY <1>2, <2>1, <2>2 DEF Vanishing
<1> QED
  BY <1>3, <1>4, <1>5, <1>6, <1>7 DEF SessionInv

(* Both records of a session expire together, with its token.              *)
LEMMA TickSession == ASSUME SessionInv, LifeInv', Tick PROVE SessionInv'
<1>0. LifeInv /\ \A p \in Proc : req[p] = Idle
  BY SessionTypes DEF SessionInv, Tick, At, Shape
<1>1. /\ UNCHANGED <<req, tok, given, broken>> /\ now' = now + 1 /\ dropped \subseteq dropped'
      /\ \/ UNCHANGED listed
         \/ listed' = {} /\ dropped' = dropped \cup listed
  BY DEF Tick
<1>2. \A s \in Session : /\ refresh'[s] = (IF refresh[s] > now + 1 THEN refresh[s] ELSE 0)
                         /\ session'[s] = (IF session[s] > now + 1 THEN session[s] ELSE 0)
  BY DEF Tick, Unexpired
<1>3. now \in Nat /\ refresh \in [Session -> Nat] /\ session \in [Session -> Nat]
      /\ tok \in [Session -> [id : Nat, secret : Nat, exp : Nat]]
  BY <1>0, SessionTypes
<1>4. \A p \in Proc : req'[p].pc = "idle" /\ req'[p].new = None
  BY <1>0, <1>1 DEF Idle
<1>5. Unseen'
  BY <1>4 DEF Unseen
<1>6. \A s \in Session : /\ refresh[s] # 0 => refresh[s] = tok[s].exp /\ refresh[s] > now
                         /\ session[s] # 0 => session[s] = tok[s].exp
  BY DEF SessionInv, Expiries
<1>7. Expiries'
  <2>1. \A s \in Session : /\ refresh'[s] # 0 => refresh'[s] = tok[s].exp /\ refresh'[s] > now + 1
                           /\ session'[s] # 0 => session'[s] = tok[s].exp
    BY <1>2, <1>3, <1>6
  <2> QED
    BY <1>1, <1>4, <2>1 DEF Expiries
<1>8. \A s \in Session : Held(s)' => Held(s)
  BY <1>2, <1>3 DEF Held
<1>9. SignedOut'
  <2> SUFFICES ASSUME NEW s \in Minted \ (given \cup broken), AcceptedByGuard(tok[s].secret), Held(s)' PROVE FALSE
    BY <1>1 DEF SignedOut, Minted, AcceptedByGuard
  <2>1. PICK p \in Proc : req[p].new = s \/ req[p].pc = "revoke"
    BY <1>8 DEF SessionInv, SignedOut, At, Minted
  <2> QED
    BY <1>0, <2>1 DEF Idle, Minted, Session, None
<1>10. OpenShown'
  <2> SUFFICES ASSUME NEW s \in Session \ (broken \cup dropped'), Held(s)', InHand(s)'
               PROVE  s \in listed' /\ session'[s] # 0
    BY <1>1 DEF OpenShown, Shown
  <2>1. s \in given
    BY <1>1, <1>4 DEF InHand, At
  <2>2. s \in listed /\ session[s] # 0
    BY <1>1, <1>8, <2>1 DEF SessionInv, OpenShown, InHand, Shown
  <2>3. session[s] = tok[s].exp /\ refresh'[s] # 0 /\ refresh'[s] = refresh[s] /\ refresh[s] > now + 1
    BY <1>2, <1>6, <2>2 DEF Held
  <2>4. session[s] = refresh[s]
    BY <1>3, <1>6, <2>3
  <2> QED
    BY <1>1, <1>2, <2>2, <2>3, <2>4
<1>11. ShownOpen'
  <2> SUFFICES ASSUME NEW s \in Session, s \in listed', session'[s] # 0, s \notin broken PROVE Held(s)'
    BY <1>0, <1>1, SessionTypes DEF ShownOpen, Shown
  <2>1. session[s] > now + 1 /\ session[s] # 0
    BY <1>2, <1>3
  <2>2. s \in Shown
    BY <1>1, <2>1 DEF Shown
  <2>3. Held(s)
    BY <1>0, <2>2 DEF SessionInv, ShownOpen, Vanishing, Idle
  <2>4. refresh[s] = session[s]
    BY <1>6, <2>1, <2>3 DEF Held
  <2> QED
    BY <1>2, <2>1, <2>4 DEF Held
<1> QED
  BY <1>5, <1>7, <1>9, <1>10, <1>11 DEF SessionInv

LEMMA SessionStays == SessionInv /\ [Next]_vars => SessionInv'
<1> SUFFICES ASSUME SessionInv, [Next]_vars PROVE SessionInv'
  OBVIOUS
<1>0. /\ LifeInv /\ LifeInv' /\ req \in [Proc -> RequestRecord]
      /\ \A p \in Proc : Shape(req[p]) /\ req[p].old \in Session \cup {None}
  BY LifeStays, SessionTypes DEF SessionInv
<1> DEFINE Still == UNCHANGED <<now, tok, refresh, session, listed, given, dropped>> /\ broken \subseteq broken'
           Goes(p) ==
             /\ \A q \in Proc \ {p} : req'[q] = req[q]
             /\ req'[p].old = req[p].old /\ req'[p].new = req[p].new
             /\ req'[p].todo = req[p].todo /\ req'[p].ttl = req[p].ttl
<1>1. CASE UNCHANGED vars
  <2>1. Still /\ UNCHANGED req
    BY <1>1 DEF vars, records, history
  <2> QED
    BY <1>0, <2>1, ThinkSession
<1>2. ASSUME NEW p \in Proc, Load(p) \/ Save(p) PROVE SessionInv'
  <2>1. Still /\ req[p].pc \in {"load", "save"}
    BY <1>2 DEF Load, Save, At, records, history
  <2>2. Goes(p) /\ req'[p].pc \in {"save", "reload"}
    BY <1>0, <1>2 DEF Load, Save, Go, RequestRecord
  <2> QED
    BY <1>0, <2>1, <2>2, ThinkSession
<1>3. ASSUME NEW p \in Proc, GetRefresh(p) \/ Find(p) PROVE SessionInv'
  <2>1. Still /\ req[p].pc \in {"get", "find"}
    BY <1>3 DEF GetRefresh, Find, At, records, history
  <2>2. CASE Done(p)
    <3>1. req'[p] = Idle /\ req[p].pc = "get" /\ \A q \in Proc \ {p} : req'[q] = req[q]
      BY <1>0, <1>3, <2>2 DEF GetRefresh, Find, Go, Done, At, RequestRecord, Idle
    <3>2. req[p].new = None
      BY <1>0, <3>1 DEF Shape, OpenSteps
    <3> QED
      BY <1>0, <2>1, <3>1, <3>2, ThinkSession DEF Idle
  <2>3. CASE ~Done(p)
    <3>1. Goes(p) /\ (req[p].pc = "get" => req'[p].pc = "delRefresh")
                  /\ (req[p].pc = "find" => req'[p].pc \in {"delSession", "delUnowned"})
      BY <1>0, <1>3, <2>3 DEF GetRefresh, Find, Go, At, RequestRecord
    <3> QED
      BY <1>0, <2>1, <3>1, ThinkSession
  <2> QED
    BY <2>2, <2>3
<1>4. ASSUME NEW p \in Proc, BreakOff(p) PROVE SessionInv'
  <2>1. /\ Still /\ {req[p].old, req[p].new} \ {None} \subseteq broken'
        /\ req'[p] = Idle /\ \A q \in Proc \ {p} : req'[q] = req[q]
    BY <1>0, <1>4 DEF BreakOff, Done, records, history
  <2> QED
    BY <1>0, <2>1, ThinkSession DEF Idle
<1>5. ASSUME NEW p \in Proc, Reload(p) PROVE SessionInv'
  <2>1. CASE req[p].goal = "refresh"
    BY <1>0, <1>5, <2>1, MintSession
  <2>2. CASE req[p].goal = "access"
    <3>1. Still /\ Goes(p) /\ req[p].pc = "reload" /\ req'[p].pc = "load"
      BY <1>0, <1>5, <2>2 DEF Reload, At, RequestRecord, records, history
    <3> QED
      BY <1>0, <3>1, ThinkSession
  <2>3. CASE req[p].goal \notin {"access", "refresh"}
    <3>1. /\ Still /\ req[p].pc = "reload" /\ req'[p] = Idle /\ \A q \in Proc \ {p} : req'[q] = req[q]
      BY <1>0, <1>5, <2>3 DEF Reload, At, Done, records, history
    <3>2. req[p].new = None
      BY <1>0, <3>1 DEF Shape, OpenSteps
    <3> QED
      BY <1>0, <3>1, <3>2, ThinkSession DEF Idle
  <2> QED
    BY <2>1, <2>2, <2>3
<1>6. ASSUME NEW p \in Proc, Daily(p) \/ Login(p) \/ OAuth(p) \/ Erase(p) PROVE SessionInv'
  <2>1. Still /\ req[p] = Idle
    BY <1>0, <1>6 DEF Daily, Login, OAuth, SignIn, Erase, records, history, At, Shape
  <2>2. /\ \A q \in Proc \ {p} : req'[q] = req[q]
        /\ req'[p].new = None /\ req'[p].old = None /\ req'[p].todo \subseteq listed
        /\ req'[p].pc \in {"load", "erase"}
    BY <1>0, <1>6, <2>1 DEF Daily, Login, OAuth, SignIn, Erase, RequestRecord, Idle
  <2> QED
    BY <1>0, <2>1, <2>2, ThinkSession DEF Idle
<1>7. ASSUME NEW p \in Proc, NEW s \in Session, Exchange(p, s) \/ Revoke(p, s) PROVE SessionInv'
  <2>1. Still /\ req[p] = Idle /\ s \in given \cup listed
    BY <1>0, <1>7 DEF Exchange, Revoke, Shown, records, history, At, Shape
  <2>2. /\ \A q \in Proc \ {p} : req'[q] = req[q]
        /\ req'[p].new = None /\ req'[p].old = s /\ req'[p].todo = {}
        /\ req'[p].pc \in {"load", "get", "revoke"}
    BY <1>0, <1>7, <2>1 DEF Exchange, Revoke, RequestRecord, Idle
  <2> QED
    BY <1>0, <2>1, <2>2, ThinkSession DEF Idle
<1>8. ASSUME NEW p \in Proc, DelSession(p) \/ DelUnowned(p) \/ Unlist(p) PROVE SessionInv'
  <2> DEFINE s == req[p].old
  <2>1. /\ req[p].pc \in {"delSession", "delUnowned", "unlist"} /\ s \in Session
        /\ UNCHANGED <<now, tok, refresh, given, dropped, broken>>
    BY <1>0, <1>8 DEF DelSession, DelUnowned, Unlist, At, Shape, CloseSteps, history
  <2>2. ~Held(s)
    BY <1>0, <2>1 DEF LifeInv, OldClosed, Shape, Session, None
  <2>3. /\ \A q \in Proc \ {p} : req'[q] = req[q]
        /\ req'[p].pc \in {"unlist", "idle", "load"} /\ req'[p].old \in {s, None}
        /\ req'[p].new \in {req[p].new, None} /\ req'[p].todo \subseteq req[p].todo
    BY <1>0, <1>8 DEF DelSession, DelUnowned, Unlist, Go, Done, Idle, RequestRecord
  <2>4. req'[p].new = None
    BY <1>0, <2>1, <2>3 DEF Shape, OpenSteps
  <2>5. \/ session' = [session EXCEPT ![s] = 0] /\ listed' = listed
        \/ session' = session /\ listed' = listed \ {s}
    BY <1>8 DEF DelSession, DelUnowned, Unlist
  <2>6. session \in [Session -> Nat]
    BY <1>0, SessionTypes
  <2> HIDE DEF s
  <2>7. /\ listed' \subseteq listed /\ \A r \in Session : session'[r] \in {session[r], 0}
        /\ \A r \in Session \ {s} : session'[r] = session[r] /\ (r \in listed => r \in listed')
        /\ s \notin Shown'
    BY <2>1, <2>5, <2>6 DEF Shown
  <2>8. SessionInv /\ LifeInv' /\ broken \subseteq broken' /\ {s} \in SUBSET Session
    BY <1>0, <2>1
  <2> QED
    BY <2>1, <2>2, <2>3, <2>4, <2>7, <2>8, ForgetSession DEF s, OpenSteps
<1>9. ASSUME NEW p \in Proc, NEW s \in Session, EraseOne(p, s) PROVE SessionInv'
  <2>1. /\ req[p].pc = "erase" /\ s \in req[p].todo /\ broken' = broken \cup {s}
        /\ UNCHANGED <<now, tok, refresh, given, dropped, listed>>
    BY <1>9 DEF EraseOne, At
  <2>2. /\ \A q \in Proc \ {p} : req'[q] = req[q]
        /\ req'[p].pc = "erase" /\ req'[p].old = req[p].old
        /\ req'[p].new = req[p].new /\ req'[p].todo \subseteq req[p].todo
    BY <1>0, <1>9, <2>1 DEF EraseOne, RequestRecord
  <2>3. req'[p].new = None
    BY <1>0, <2>1, <2>2 DEF Shape, OpenSteps
  <2>4. session \in [Session -> Nat] /\ session' = [session EXCEPT ![s] = 0]
    BY <1>0, <1>9, SessionTypes DEF EraseOne
  <2>5. /\ \A r \in Session : session'[r] \in {session[r], 0}
        /\ \A r \in Session \ {s} : session'[r] = session[r]
    BY <2>4
  <2> QED
    BY <1>0, <2>1, <2>2, <2>3, <2>5, ForgetSession DEF OpenSteps
<1>10. ASSUME NEW p \in Proc, EraseList(p) PROVE SessionInv'
  <2>1. /\ req[p].pc = "erase" /\ broken' = broken \cup listed /\ listed' = {}
        /\ UNCHANGED <<now, tok, refresh, given, dropped, session>> /\ listed \subseteq Session
    BY <1>0, <1>10, SessionTypes DEF EraseList, At
  <2>2. req'[p] = Idle /\ \A q \in Proc \ {p} : req'[q] = req[q]
    BY <1>0, <1>10 DEF EraseList, Done
  <2> QED
    BY <1>0, <2>1, <2>2, ForgetSession DEF OpenSteps, Idle
<1>11. ASSUME NEW p \in Proc, Step(p) PROVE SessionInv'
  <2>1. CASE SetRefresh(p) \/ SetSession(p) \/ List(p) \/ Expire(p) \/ DelRefresh(p) \/ RevokeRefresh(p)
    BY <1>0, <2>1, SetRefreshSession, SetSessionSession, ListSession, ExpireSession, CloseSession
  <2> QED
    BY <1>2, <1>3, <1>5, <1>8, <1>9, <1>10, <1>11, <2>1 DEF Step
<1>12. ASSUME NEW p \in Proc, Request(p) PROVE SessionInv'
  BY <1>0, <1>6, <1>7, <1>12, LogoutSession DEF Request
<1> QED
  BY <1>0, <1>1, <1>4, <1>11, <1>12, TickSession DEF Next

(* A session that was signed out of or exchanged is closed, if its token   *)
(* was signed with JWT_SECRET and no request at work on it broke off.      *)
THEOREM SignOutCloses == Spec => []LoggedOutIsClosed
<1>1. SessionInv => LoggedOutIsClosed
  <2> SUFFICES ASSUME SessionInv, NEW s \in Minted \ (given \cup Busy \cup broken),
                      AcceptedByGuard(tok[s].secret), Held(s)
               PROVE  FALSE
    BY DEF LoggedOutIsClosed
  <2>1. PICK p \in Proc : req[p].new = s \/ req[p].old = s
    BY DEF SessionInv, SignedOut
  <2>2. s # None
    BY DEF Minted, Session, None
  <2> QED
    BY <2>1, <2>2 DEF Busy, InFlight
<1> QED
  BY <1>1, InitSession, SessionStays, PTL DEF Spec

(* The listing shows the sessions that can be exchanged and no other,      *)
(* except those a request is at work on or broke off on, and open ones     *)
(* that were erased or whose list expired as a whole.                      *)
THEOREM ListingIsTrue == Spec => []ListingTrue
<1>1. SessionInv => ListingTrue
  <2> SUFFICES ASSUME SessionInv, NEW s \in Session \ (Busy \cup broken)
               PROVE  (Held(s) /\ s \in given \ dropped => s \in Shown) /\ (s \in Shown => Held(s))
    BY DEF ListingTrue
  <2>1. ~Vanishing(s)
    BY DEF Vanishing, Busy
  <2> QED
    BY <2>1 DEF SessionInv, OpenShown, ShownOpen, InHand
<1> QED
  BY <1>1, InitSession, SessionStays, PTL DEF Spec
-----------------------------------------------------------------------------
(* Proving who one is: Credentials. What the steps of its requests are.    *)
SignSteps     == {"lock?", "count", "expire", "lock", "find", "compare", "clear"}
TokenSteps    == {"get", "del", "save"}
Attempting(g) == g.at \in SignSteps
Consuming(g)  == g.at \in TokenSteps

(* What the proofs need of types: a request knows its address or its token.*)
FormRecord == [at : SignSteps \cup TokenSteps \cup {"idle", "create"}, ip : Ip \cup {Absent}, word : Word \cup {Absent}, hash : Word \cup {Absent},
         earned : BOOLEAN, token : Token \cup {Absent}]
FormTyped ==
  /\ form \in [Form -> FormRecord] /\ hash \in Word \cup {Absent}
  /\ \A f \in Form : /\ Attempting(form[f]) => form[f].ip \in Ip
                     /\ Consuming(form[f]) => form[f].token \in Token
CounterTyped ==
  /\ attempts \in [Ip -> Nat] /\ early \in [Ip -> Nat]
  /\ timed \subseteq Ip /\ locked \in BOOLEAN
TokenTyped == token \in [Token -> [kind : {"none", "verify", "reset"}, kept : BOOLEAN]] /\ used \subseteq Token

(* A request is about to give the counter of address i its TTL.            *)
Expiring(i) == \E f \in Form : AtStep(f, "expire") /\ form[f].ip = i
Locking(i)  == \E f \in Form : AtStep(f, "lock") /\ form[f].ip = i

(* A counter has a TTL or is about to, unless it is stuck; it counts no    *)
(* more than the minute saw; and one beyond the limit that has a TTL, or   *)
(* is about to, has locked the account.                                    *)
CounterEnds   == \A i \in Ip : attempts[i] > 0 => i \in timed \/ i \in stuck \/ Expiring(i)
CountsMinute  == \A i \in Ip : attempts[i] <= early[i] \/ i \in stuck
LockEarned    == \A f \in Form : AtStep(f, "lock") => form[f].earned
LockFollows   == \A i \in Ip : attempts[i] > Limit /\ (i \in timed \/ Expiring(i)) =>
                   locked \/ i \in missed \/ Locking(i)

(* A token about to be written with is gone; one somebody presents, or     *)
(* something was written with, was made.                                   *)
Spent == \A f \in Form : AtStep(f, "save") => ~token[form[f].token].kept
Made  == /\ \A k \in used : token[k].kind # "none"
         /\ \A f \in Form : Consuming(form[f]) => token[form[f].token].kind # "none"

LockInv  == FormTyped /\ CounterTyped /\ CounterEnds /\ CountsMinute /\ LockEarned /\ LockFollows
TokenInv == FormTyped /\ TokenTyped /\ Spent /\ Made /\ UsedIsSpent
-----------------------------------------------------------------------------
(* Both invariants hold at first.                                          *)
LEMMA InitHolds == FormInit => LockInv /\ TokenInv
<1> SUFFICES ASSUME FormInit PROVE LockInv /\ TokenInv
  OBVIOUS
<1>1. FormTyped
  BY DEF FormInit, FormRecord, FormTyped, Blank, Attempting, Consuming, SignSteps, TokenSteps
<1>2. CounterTyped
  BY DEF FormInit, CounterTyped
<1>3. TokenTyped /\ UsedIsSpent
  BY DEF FormInit, TokenTyped, UsedIsSpent, Unmade
<1>4. CounterEnds /\ CountsMinute /\ LockFollows
  BY CredentialsAssumption DEF FormInit, CounterEnds, CountsMinute, LockFollows
<1>5. LockEarned /\ Spent /\ Made
  BY DEF FormInit, LockEarned, Spent, Made, Blank, AtStep, Consuming, TokenSteps
<1> QED
  BY <1>1, <1>2, <1>3, <1>4, <1>5 DEF LockInv, TokenInv

(* Every request keeps knowing its address or its token.                   *)
LEMMA FormsStayTyped == FormTyped /\ [FormNext]_formVars => FormTyped'
<1> SUFFICES ASSUME FormTyped, [FormNext]_formVars PROVE FormTyped'
  OBVIOUS
<1>1. ASSUME NEW f \in Form, NEW at \in {"count", "find", "clear", "del", "save", "idle"}, GoTo(f, at), UNCHANGED hash,
             at \in {"count", "find", "clear"} => Attempting(form[f]),
             at \in {"del", "save"} => Consuming(form[f])
      PROVE FormTyped'
  BY <1>1 DEF GoTo, FormTyped, FormRecord, Attempting, Consuming, SignSteps, TokenSteps
<1>2. ASSUME NEW f \in Form, NEW g \in FormRecord, form' = [form EXCEPT ![f] = g], hash' \in Word \cup {Absent},
             Attempting(g) => g.ip \in Ip, Consuming(g) => g.token \in Token
      PROVE FormTyped'
  BY <1>2 DEF FormTyped, Attempting, Consuming
<1>0. ASSUME NEW f \in Form, Ended(f), hash' \in Word \cup {Absent} PROVE FormTyped'
  <2>1. Blank \in FormRecord /\ ~Attempting(Blank) /\ ~Consuming(Blank)
    BY DEF Blank, FormRecord, Attempting, Consuming, SignSteps, TokenSteps
  <2> QED
    BY <1>0, <1>2, <2>1 DEF Ended
<1>3. ASSUME NEW f \in Form, Register(f) PROVE FormTyped'
  <2>1. PICK w \in Word : form' = [form EXCEPT ![f] = [Blank EXCEPT !.at = "create", !.word = w]]
    BY <1>3 DEF Register
  <2>2. hash' \in Word \cup {Absent}
    BY <1>3 DEF Register, account, FormTyped
  <2> DEFINE g == [Blank EXCEPT !.at = "create", !.word = w]
  <2>3. g \in FormRecord /\ ~Attempting(g) /\ ~Consuming(g)
    BY DEF Blank, FormRecord, Attempting, Consuming, SignSteps, TokenSteps
  <2> QED
    BY <1>2, <2>1, <2>2, <2>3
<1>4. ASSUME NEW f \in Form, Create(f) PROVE FormTyped'
  <2>1. form[f].word \in Word \cup {Absent} /\ hash \in Word \cup {Absent}
    BY DEF FormTyped, FormRecord
  <2> QED
    BY <2>1, <1>0, <1>4 DEF Create
<1>5. ASSUME NEW f \in Form, Abort(f) PROVE FormTyped'
  BY <1>0, <1>5 DEF Abort, account, FormTyped
<1>6. ASSUME NEW f \in Form, Attempt(f) PROVE FormTyped'
  <2>1. PICK i \in Ip, w \in Word :
             form' = [form EXCEPT ![f] = [Blank EXCEPT !.at = "lock?", !.ip = i, !.word = w]]
    BY <1>6 DEF Attempt
  <2>2. hash' \in Word \cup {Absent}
    BY <1>6 DEF Attempt, account, FormTyped
  <2> DEFINE g == [Blank EXCEPT !.at = "lock?", !.ip = i, !.word = w]
  <2>3. g \in FormRecord /\ g.ip \in Ip /\ ~Consuming(g)
    BY DEF Blank, FormRecord, Consuming, SignSteps, TokenSteps
  <2> QED
    BY <1>2, <2>1, <2>2, <2>3
<1>7. ASSUME NEW f \in Form, AskLock(f) PROVE FormTyped'
  <2>1. Attempting(form[f]) /\ hash' = hash /\ hash \in Word \cup {Absent}
    BY <1>7 DEF AskLock, AtStep, Attempting, SignSteps, account, FormTyped
  <2> QED
    BY <1>0, <1>1, <1>7, <2>1 DEF AskLock
<1>8. ASSUME NEW f \in Form, Incr(f) PROVE FormTyped'
  <2>1. PICK at \in {"expire", "lock", "find"}, e \in BOOLEAN : form' = [form EXCEPT ![f].earned = e, ![f].at = at]
    BY <1>8 DEF Incr
  <2>2. form[f].at = "count" /\ hash' = hash
    BY <1>8 DEF Incr, AtStep, account
  <2> QED
    BY <2>1, <2>2 DEF FormTyped, FormRecord, Attempting, Consuming, SignSteps, TokenSteps
<1>9. ASSUME NEW f \in Form, SetTtl(f) \/ Lock(f) \/ Clear(f) PROVE FormTyped'
  <2>1. hash' = hash /\ hash \in Word \cup {Absent}
    BY <1>9 DEF SetTtl, Lock, Clear, account, FormTyped
  <2>2. CASE SetTtl(f)
    BY <1>1, <2>1, <2>2 DEF SetTtl, AtStep, Attempting, SignSteps
  <2>3. CASE Lock(f) \/ Clear(f)
    BY <1>0, <2>1, <2>3 DEF Lock, Clear
  <2> QED
    BY <1>9, <2>2, <2>3
<1>10. ASSUME NEW f \in Form, FindUser(f) PROVE FormTyped'
  <2>1. hash' = hash /\ hash \in Word \cup {Absent} /\ AtStep(f, "find")
    BY <1>10 DEF FindUser, account, FormTyped
  <2>2. CASE form' = [form EXCEPT ![f].hash = hash, ![f].at = "compare"]
    BY <2>1, <2>2 DEF FormTyped, FormRecord, Attempting, Consuming, SignSteps, TokenSteps, AtStep
  <2> QED
    BY <1>0, <1>10, <2>1, <2>2 DEF FindUser
<1>11. ASSUME NEW f \in Form, Compare(f) PROVE FormTyped'
  <2>1. hash' = hash /\ hash \in Word \cup {Absent} /\ Attempting(form[f])
    BY <1>11 DEF Compare, account, FormTyped, AtStep, Attempting, SignSteps
  <2> QED
    BY <1>0, <1>1, <1>11, <2>1 DEF Compare
<1>12. ASSUME NEW f \in Form, NEW kind, NEW w \in Word \cup {Absent}, Present(f, kind, w) PROVE FormTyped'
  <2>1. PICK k \in Token : form' = [form EXCEPT ![f] = [Blank EXCEPT !.at = "get", !.token = k, !.word = w]]
    BY <1>12 DEF Present
  <2>2. hash' \in Word \cup {Absent}
    BY <1>12 DEF Present, account, FormTyped
  <2> DEFINE g == [Blank EXCEPT !.at = "get", !.token = k, !.word = w]
  <2>3. g \in FormRecord /\ ~Attempting(g) /\ g.token \in Token
    BY DEF Blank, FormRecord, Attempting, SignSteps, TokenSteps
  <2> QED
    BY <1>2, <2>1, <2>2, <2>3
<1>13. ASSUME NEW f \in Form, GetToken(f) \/ DelToken(f) PROVE FormTyped'
  <2>1. hash' = hash /\ hash \in Word \cup {Absent} /\ Consuming(form[f])
    BY <1>13 DEF GetToken, DelToken, account, FormTyped, AtStep, Consuming, TokenSteps
  <2> QED
    BY <1>0, <1>1, <1>13, <2>1 DEF GetToken, DelToken
<1>14. ASSUME NEW f \in Form, WriteUser(f) PROVE FormTyped'
  <2>1. form[f].word \in Word \cup {Absent} /\ hash \in Word \cup {Absent}
    BY DEF FormTyped, FormRecord
  <2> QED
    BY <2>1, <1>0, <1>14 DEF WriteUser
<1>15. CASE UNCHANGED <<form, hash>>
  BY <1>15 DEF FormTyped
<1>16. ASSUME NEW f \in Form, RequestVerification(f) \/ RequestReset(f) PROVE UNCHANGED <<form, hash>>
  BY <1>16 DEF RequestVerification, RequestReset, Ask, account
<1>17. ASSUME NEW f \in Form, VerifyEmail(f) \/ ResetPassword(f) PROVE FormTyped'
  BY <1>12, <1>17 DEF VerifyEmail, ResetPassword
<1>18. ASSUME (\E i \in Ip : Minute(i)) \/ LockLapses \/ \E k \in Token : TokenLapses(k)
       PROVE UNCHANGED <<form, hash>>
  BY <1>18 DEF Minute, LockLapses, TokenLapses, account
<1> QED
  BY <1>3, <1>4, <1>5, <1>6, <1>7, <1>8, <1>9, <1>10, <1>11, <1>13, <1>14, <1>15, <1>16, <1>17, <1>18
     DEF FormNext, account, formVars

-----------------------------------------------------------------------------
(* Requests at the steps of S, now or next, stay as they are.              *)
Keeps(S) == \A g \in Form : form'[g].at \in S \/ form[g].at \in S => form'[g] = form[g]

(* Steps that neither begin or end an EXPIRE or a lock, nor touch a count. *)
LEMMA QuietSteps ==
  ASSUME FormTyped, NEW f \in Form,
         \/ Register(f) \/ Create(f) \/ Attempt(f) \/ AskLock(f) \/ FindUser(f) \/ Compare(f)
         \/ RequestVerification(f) \/ RequestReset(f) \/ VerifyEmail(f) \/ ResetPassword(f)
         \/ GetToken(f) \/ DelToken(f) \/ WriteUser(f)
  PROVE  Keeps({"expire", "lock"}) /\ UNCHANGED <<counters, stuck, missed>>
<1> USE DEF Keeps, AtStep, GoTo, Ended, Blank, FormTyped, FormRecord
<1>1. CASE Register(f)
  BY <1>1 DEF Register
<1>2. CASE Create(f)
  BY <1>2 DEF Create
<1>3. CASE Attempt(f)
  BY <1>3 DEF Attempt
<1>4. CASE AskLock(f)
  BY <1>4 DEF AskLock
<1>5. CASE FindUser(f)
  BY <1>5 DEF FindUser
<1>6. CASE Compare(f)
  BY <1>6 DEF Compare
<1>7. CASE RequestVerification(f) \/ RequestReset(f)
  BY <1>7 DEF RequestVerification, RequestReset, Ask
<1>8. ASSUME NEW kind, NEW w, Present(f, kind, w) 
      PROVE  Keeps({"expire", "lock"}) /\ UNCHANGED <<counters, stuck, missed>>
  BY <1>8 DEF Present
<1>9. CASE VerifyEmail(f) \/ ResetPassword(f)
  BY <1>8, <1>9 DEF VerifyEmail, ResetPassword
<1>10. CASE GetToken(f)
  BY <1>10 DEF GetToken
<1>11. CASE DelToken(f)
  BY <1>11 DEF DelToken
<1>12. CASE WriteUser(f)
  BY <1>12 DEF WriteUser
<1> QED
  BY <1>1, <1>2, <1>3, <1>4, <1>5, <1>6, <1>7, <1>9, <1>10, <1>11, <1>12

(* What the counters and the lock promise survives every step.             *)
LEMMA LockStep == LockInv /\ [FormNext]_formVars => LockInv'
<1> SUFFICES ASSUME LockInv, [FormNext]_formVars PROVE LockInv'
  OBVIOUS
<1> DEFINE Promise == CounterTyped /\ CounterEnds /\ CountsMinute /\ LockEarned /\ LockFollows
<1>0. FormTyped /\ Promise /\ FormTyped'
  BY FormsStayTyped DEF LockInv
<1> SUFFICES Promise'
  BY <1>0 DEF LockInv
<1>1. ASSUME Keeps({"expire", "lock"}), UNCHANGED <<counters, stuck, missed>> PROVE Promise'
  BY <1>0, <1>1 DEF Keeps, counters, CounterTyped, CounterEnds, CountsMinute, LockEarned, LockFollows,
                    Expiring, Locking, AtStep
<1>2. ASSUME NEW f \in Form, Incr(f) PROVE Promise'
  <2> DEFINE i == form[f].ip
             n == More(attempts[i])
  <2>1. /\ i \in Ip /\ AtStep(f, "count") /\ UNCHANGED <<timed, locked, stuck, missed>>
        /\ attempts' = [attempts EXCEPT ![i] = n] /\ early' = [early EXCEPT ![i] = More(@)]
        /\ \A g \in Form \ {f} : form'[g] = form[g]
        /\ form'[f].at = IF n = 1 THEN "expire" ELSE IF n > Limit THEN "lock" ELSE "find"
        /\ form'[f].ip = i /\ form'[f].earned = (early'[i] > Limit \/ i \in stuck)
    BY ZenonT(60), <1>0, <1>2 DEF Incr, FormTyped, FormRecord, Attempting, SignSteps, AtStep
  <2>2. n \in Nat /\ n > 0 /\ More(early[i]) \in Nat /\ (attempts[i] <= early[i] => n <= More(early[i]))
    BY <1>0, <2>1, CredentialsAssumption DEF CounterTyped, More
  <2>3. CounterTyped' /\ CountsMinute'
    BY <1>0, <2>1, <2>2 DEF CounterTyped, CountsMinute
  <2>4. \A j \in Ip : Expiring(j) => Expiring(j)'
    BY <2>1 DEF Expiring, AtStep
  <2>5. \A j \in Ip : Locking(j) => Locking(j)'
    BY <2>1 DEF Locking, AtStep
  <2>6. CounterEnds'
    <3> SUFFICES ASSUME NEW j \in Ip, attempts'[j] > 0 PROVE j \in timed \/ j \in stuck \/ Expiring(j)'
      BY <2>1 DEF CounterEnds
    <3>1. CASE attempts[j] > 0
      BY <1>0, <2>4, <3>1 DEF CounterEnds
    <3>2. CASE ~(attempts[j] > 0)
      <4>1. j = i /\ n = 1
        BY <1>0, <2>1, <3>2, CredentialsAssumption DEF CounterTyped, More
      <4> QED
        BY <2>1, <4>1 DEF Expiring, AtStep
    <3> QED
      BY <3>1, <3>2
  <2>7. LockEarned'
    <3>1. form'[f].at = "lock" => early'[i] > Limit \/ i \in stuck
      BY <1>0, <2>1, <2>2, CredentialsAssumption DEF CounterTyped, CountsMinute
    <3>2. form'[f].at = "lock" => form'[f].earned
      BY <2>1, <3>1, Zenon
    <3> QED
      BY <1>0, <2>1, <3>2 DEF LockEarned, AtStep
  <2>8. LockFollows'
    <3> SUFFICES ASSUME NEW j \in Ip, attempts'[j] > Limit, j \in timed \/ Expiring(j)'
                 PROVE  locked \/ j \in missed \/ Locking(j)'
      BY <2>1 DEF LockFollows
    <3>1. CASE j = i
      <4>1. form'[f].at = "lock"
        BY <1>0, <2>1, <2>2, <3>1, CredentialsAssumption DEF CounterTyped
      <4> QED
        BY <2>1, <3>1, <4>1 DEF Locking, AtStep
    <3>2. CASE j # i
      <4>1. attempts[j] > Limit /\ (j \in timed \/ Expiring(j))
        BY <1>0, <2>1, <3>2 DEF CounterTyped, Expiring, AtStep
      <4> QED
        BY <1>0, <2>5, <4>1 DEF LockFollows
    <3> QED
      BY <3>1, <3>2
  <2> QED
    BY <2>3, <2>6, <2>7, <2>8
<1>3. ASSUME NEW f \in Form, SetTtl(f) PROVE Promise'
  <2> DEFINE i == form[f].ip
  <2>1. /\ i \in Ip /\ AtStep(f, "expire") /\ UNCHANGED <<attempts, early, locked, stuck, missed>>
        /\ timed' = IF attempts[i] > 0 THEN timed \cup {i} ELSE timed
        /\ \A g \in Form \ {f} : form'[g] = form[g]
        /\ form'[f].at = "find"
    BY <1>0, <1>3 DEF SetTtl, GoTo, FormTyped, FormRecord, Attempting, SignSteps, AtStep
  <2>2. CounterTyped' /\ CountsMinute'
    BY <1>0, <2>1 DEF CounterTyped, CountsMinute
  <2>3. \A j \in Ip : Expiring(j) <=> Expiring(j)' \/ j = i
    BY <2>1 DEF Expiring, AtStep
  <2>4. \A j \in Ip : Locking(j) <=> Locking(j)'
    BY <2>1 DEF Locking, AtStep
  <2>5. CounterEnds'
    BY <1>0, <2>1, <2>3 DEF CounterEnds
  <2>6. LockEarned'
    BY <1>0, <2>1 DEF LockEarned, AtStep
  <2>7. LockFollows'
    BY <1>0, <2>1, <2>3, <2>4 DEF LockFollows
  <2> QED
    BY <2>2, <2>5, <2>6, <2>7
<1>4. ASSUME NEW f \in Form, Lock(f) PROVE Promise'
  <2>1. /\ AtStep(f, "lock") /\ UNCHANGED <<attempts, early, timed, stuck, missed>> /\ locked' = TRUE
        /\ \A g \in Form \ {f} : form'[g] = form[g]
        /\ form'[f].at = "idle"
    BY <1>0, <1>4 DEF Lock, Ended, FormTyped, Blank
  <2>2. CounterTyped' /\ CountsMinute' /\ LockFollows'
    BY <1>0, <2>1 DEF CounterTyped, CountsMinute, LockFollows
  <2>3. \A j \in Ip : Expiring(j) <=> Expiring(j)'
    BY <2>1 DEF Expiring, AtStep
  <2>4. CounterEnds' /\ LockEarned'
    BY <1>0, <2>1, <2>3 DEF CounterEnds, LockEarned, AtStep
  <2> QED
    BY <2>2, <2>4
<1>5. ASSUME NEW i \in Ip, ClearCounter(i), UNCHANGED locked, Keeps({"expire", "lock"}) PROVE Promise'
  <2>1. CounterTyped' /\ CountsMinute'
    BY <1>0, <1>5 DEF CounterTyped, CountsMinute, ClearCounter
  <2>2. \A j \in Ip : (Expiring(j) <=> Expiring(j)') /\ (Locking(j) <=> Locking(j)')
    BY <1>5 DEF Keeps, Expiring, Locking, AtStep
  <2>3. \A j \in Ip \ {i} : /\ attempts'[j] = attempts[j] /\ (j \in timed <=> j \in timed')
                            /\ (j \in stuck <=> j \in stuck') /\ (j \in missed <=> j \in missed')
    BY <1>0, <1>5 DEF ClearCounter, CounterTyped
  <2>4. attempts'[i] = 0
    BY <1>0, <1>5 DEF ClearCounter, CounterTyped
  <2>5. CounterEnds' /\ LockFollows'
    BY <1>0, <1>5, <2>2, <2>3, <2>4, CredentialsAssumption DEF CounterEnds, LockFollows
  <2>6. LockEarned'
    BY <1>0, <1>5 DEF LockEarned, Keeps, AtStep
  <2> QED
    BY <2>1, <2>5, <2>6
<1>6. ASSUME NEW f \in Form, Clear(f) PROVE Promise'
  <2>1. form[f].ip \in Ip /\ Keeps({"expire", "lock"})
    BY <1>0, <1>6 DEF Clear, Ended, Blank, Keeps, AtStep, FormTyped, FormRecord, Attempting, SignSteps
  <2> QED
    BY <1>5, <1>6, <2>1 DEF Clear
<1>7. ASSUME NEW i \in Ip, Minute(i) PROVE Promise'
  <2>1. Keeps({"expire", "lock"}) /\ UNCHANGED locked /\ ~Expiring(i)
    BY <1>7 DEF Minute, Keeps, Expiring, AtStep
  <2>2. CASE i \in timed
    BY <1>5, <1>7, <2>1, <2>2 DEF Minute
  <2>3. CASE i \notin timed
    <3>1. early' = [early EXCEPT ![i] = 0] /\ UNCHANGED <<form, attempts, timed, stuck, missed>>
      BY <1>7, <2>3 DEF Minute
    <3>2. attempts[i] = 0 \/ i \in stuck
      BY <1>0, <2>1, <2>3 DEF CounterEnds, CounterTyped
    <3>3. CounterTyped' /\ CountsMinute'
      BY <1>0, <2>1, <3>1, <3>2 DEF CounterTyped, CountsMinute
    <3>4. CounterEnds' /\ LockEarned' /\ LockFollows'
      BY <1>0, <2>1, <3>1 DEF CounterEnds, LockEarned, LockFollows, Expiring, Locking, AtStep
    <3> QED
      BY <3>3, <3>4
  <2> QED
    BY <2>2, <2>3
<1>8. ASSUME LockLapses PROVE Promise'
  BY <1>0, <1>8 DEF LockLapses, CounterTyped, CounterEnds, CountsMinute, LockEarned, LockFollows,
                    Expiring, Locking, AtStep
<1>9. ASSUME NEW f \in Form, Abort(f) PROVE Promise'
  <2>1. /\ UNCHANGED <<attempts, early, timed, locked>>
        /\ stuck' = (IF AtStep(f, "expire") THEN stuck \cup {form[f].ip} ELSE stuck)
        /\ missed' = (IF AtStep(f, "lock") THEN missed \cup {form[f].ip} ELSE missed)
        /\ \A g \in Form \ {f} : form'[g] = form[g]
        /\ form'[f].at = "idle"
    BY <1>0, <1>9 DEF Abort, Ended, FormTyped, Blank, counters
  <2>2. CounterTyped' /\ CountsMinute' /\ LockEarned'
    BY <1>0, <2>1 DEF CounterTyped, CountsMinute, LockEarned, AtStep
  <2>3. \A j \in Ip : /\ Expiring(j) => Expiring(j)' \/ j \in stuck'
                      /\ Expiring(j)' => Expiring(j)
                      /\ Locking(j) => Locking(j)' \/ j \in missed'
    BY <2>1 DEF Expiring, Locking, AtStep
  <2>4. CounterEnds' /\ LockFollows'
    BY <1>0, <2>1, <2>3 DEF CounterEnds, LockFollows
  <2> QED
    BY <2>2, <2>4
<1>10. ASSUME UNCHANGED formVars \/ \E k \in Token : TokenLapses(k) PROVE Promise'
  BY <1>1, <1>10 DEF formVars, TokenLapses, Keeps
<1>11. ASSUME NEW f \in Form,
         \/ Register(f) \/ Create(f) \/ Attempt(f) \/ AskLock(f) \/ FindUser(f) \/ Compare(f)
         \/ RequestVerification(f) \/ RequestReset(f) \/ VerifyEmail(f) \/ ResetPassword(f)
         \/ GetToken(f) \/ DelToken(f) \/ WriteUser(f)
       PROVE  Promise'
  BY <1>0, <1>1, <1>11, QuietSteps
<1> QED
  BY <1>2, <1>3, <1>4, <1>6, <1>7, <1>8, <1>9, <1>10, <1>11 DEF FormNext

(* A lock is earned, and whoever earned one is locked: Lock, Incr and      *)
(* LockLapses against the counter's TTL.                                   *)
THEOREM LocksAgreeHolds == FormSpec => []LocksAgree
<1>1. LockInv => LocksAgree
  BY DEF LockInv, LockEarned, LockFollows, LocksAgree, Locking, CounterTyped
<1> QED
  BY <1>1, InitHolds, LockStep, PTL DEF FormSpec
-----------------------------------------------------------------------------
(* What tokens promise survives every step.                                *)
LEMMA TokenStep == TokenInv /\ [FormNext]_formVars => TokenInv'
<1> SUFFICES ASSUME TokenInv, [FormNext]_formVars PROVE TokenInv'
  OBVIOUS
<1> DEFINE Promise == TokenTyped /\ Spent /\ Made /\ UsedIsSpent
<1>0. FormTyped /\ Promise /\ FormTyped'
  BY FormsStayTyped DEF TokenInv, LockInv
<1> SUFFICES Promise'
  BY <1>0 DEF TokenInv
<1>1. ASSUME NEW f \in Form, \A g \in Form \ {f} : form'[g] = form[g], UNCHANGED <<token, used>>,
             /\ Consuming(form'[f]) => Consuming(form[f]) /\ form'[f].token = form[f].token
             /\ form'[f].at # "save"
      PROVE  Promise'
  <2>1. TokenTyped' /\ UsedIsSpent'
    BY <1>0, <1>1 DEF TokenTyped, UsedIsSpent
  <2>2. Spent'
    BY <1>0, <1>1 DEF Spent, AtStep
  <2>3. \A g \in Form : Consuming(form'[g]) => Consuming(form[g]) /\ form'[g].token = form[g].token
    BY <1>1
  <2>4. \A g \in Form : Consuming(form'[g]) => token'[form'[g].token].kind # "none"
    BY <1>0, <1>1, <2>3 DEF Made
  <2>5. Made'
    BY <1>0, <1>1, <2>4 DEF Made, Consuming
  <2> QED
    BY <2>1, <2>2, <2>5
<1>2. ASSUME NEW f \in Form, Register(f) \/ Create(f) \/ Abort(f) \/ Attempt(f) \/ AskLock(f) PROVE Promise'
  <2>1. /\ \A g \in Form \ {f} : form'[g] = form[g]
        /\ form'[f].at \in {"create", "idle", "lock?", "count"}
    <3> USE DEF GoTo, Ended, Blank, FormTyped, FormRecord
    <3>1. CASE Register(f)
      BY <1>0, <3>1 DEF Register
    <3>2. CASE Attempt(f)
      BY <1>0, <3>2 DEF Attempt
    <3>3. CASE AskLock(f)
      BY <1>0, <3>3 DEF AskLock
    <3>4. CASE Create(f) \/ Abort(f)
      BY <1>0, <3>4 DEF Create, Abort
    <3> QED
      BY <1>2, <3>1, <3>2, <3>3, <3>4
  <2>2. UNCHANGED <<token, used>>
    BY <1>2 DEF Register, Create, Abort, Attempt, AskLock, account
  <2> QED
    BY <1>1, <2>1, <2>2 DEF Consuming, TokenSteps
<1>3. ASSUME NEW f \in Form, Incr(f) \/ SetTtl(f) \/ Lock(f) \/ FindUser(f) \/ Compare(f) \/ Clear(f) PROVE Promise'
  <2>1. /\ \A g \in Form \ {f} : form'[g] = form[g]
        /\ form'[f].at \in {"expire", "lock", "find", "compare", "clear", "idle"}
    BY <1>0, <1>3 DEF Incr, SetTtl, Lock, FindUser, Compare, Clear, GoTo, Ended, Blank, FormTyped, FormRecord
  <2>2. UNCHANGED <<token, used>>
    BY <1>3 DEF Incr, SetTtl, Lock, FindUser, Compare, Clear, account
  <2> QED
    BY <1>1, <2>1, <2>2 DEF Consuming, TokenSteps
<1>4. ASSUME NEW f \in Form, RequestVerification(f) \/ RequestReset(f) PROVE Promise'
  <2>1. PICK k \in Token, kind \in {"verify", "reset"} :
          /\ token[k] = Unmade /\ token' = [token EXCEPT ![k] = [kind |-> kind, kept |-> TRUE]]
          /\ UNCHANGED <<form, used>>
    BY <1>4 DEF RequestVerification, RequestReset, Ask, account
  <2>2. token[k].kind = "none" /\ k \notin used
    BY <1>0, <2>1 DEF Unmade, Made
  <2>3. \A f2 \in Form : Consuming(form[f2]) => form[f2].token \in Token \ {k}
    BY <1>0, <2>2 DEF Made, FormTyped
  <2>4. TokenTyped' /\ UsedIsSpent' /\ Made'
    BY <1>0, <2>1, <2>2, <2>3 DEF TokenTyped, UsedIsSpent, Made
  <2>5. Spent'
    BY <1>0, <2>1, <2>3 DEF Spent, TokenTyped, AtStep, Consuming, TokenSteps
  <2> QED
    BY <2>4, <2>5
<1>5. ASSUME NEW f \in Form, NEW kind \in {"verify", "reset"}, NEW w, Present(f, kind, w) PROVE Promise'
  <2>1. PICK k \in Token : /\ token[k].kind = kind
                           /\ form' = [form EXCEPT ![f] = [Blank EXCEPT !.at = "get", !.token = k, !.word = w]]
                           /\ UNCHANGED <<token, used>>
    BY <1>5 DEF Present, account
  <2>2. form'[f].at = "get" /\ form'[f].token = k /\ \A g \in Form \ {f} : form'[g] = form[g]
    BY <1>0, <2>1 DEF FormTyped, Blank
  <2> QED
    BY <1>0, <2>1, <2>2 DEF TokenTyped, Spent, Made, UsedIsSpent, AtStep
<1>6. ASSUME NEW f \in Form, VerifyEmail(f) \/ ResetPassword(f) PROVE Promise'
  BY <1>5, <1>6 DEF VerifyEmail, ResetPassword
<1>7. ASSUME NEW f \in Form, GetToken(f) PROVE Promise'
  <2>1. /\ \A g \in Form \ {f} : form'[g] = form[g]
        /\ Consuming(form[f]) /\ UNCHANGED <<token, used>>
        /\ form'[f].at = "idle" \/ (form'[f].at = "del" /\ form'[f].token = form[f].token)
    BY <1>0, <1>7 DEF GetToken, GoTo, Ended, Blank, FormTyped, FormRecord, AtStep, Consuming, TokenSteps, account
  <2> QED
    BY <1>1, <2>1 DEF Consuming, TokenSteps
<1>8. ASSUME NEW k \in Token, token' = [token EXCEPT ![k].kept = FALSE] 
      PROVE  /\ token' \in [Token -> [kind : {"none", "verify", "reset"}, kept : BOOLEAN]]
             /\ \A l \in Token : token'[l].kind = token[l].kind /\ (~token[l].kept => ~token'[l].kept)
             /\ ~token'[k].kept
  BY <1>0, <1>8 DEF TokenTyped
<1>9. ASSUME NEW f \in Form, DelToken(f) PROVE Promise'
  <2> DEFINE k == form[f].token
  <2>1. /\ Consuming(form[f]) /\ k \in Token /\ token' = [token EXCEPT ![k].kept = FALSE]
        /\ UNCHANGED used /\ \A g \in Form \ {f} : form'[g] = form[g]
        /\ form'[f].token = k
    BY <1>0, <1>9 DEF DelToken, GoTo, FormTyped, FormRecord, AtStep, Consuming, TokenSteps, account
  <2>2. TokenTyped' /\ UsedIsSpent'
    BY <1>0, <1>8, <2>1 DEF TokenTyped, UsedIsSpent
  <2>3. Made'
    BY <1>0, <1>8, <2>1 DEF TokenTyped, Made, FormTyped
  <2>4. Spent'
    BY ZenonT(60), <1>0, <1>8, <2>1 DEF Spent, AtStep, FormTyped, Consuming, TokenSteps
  <2> QED
    BY <2>2, <2>3, <2>4
<1>10. ASSUME NEW f \in Form, WriteUser(f) PROVE Promise'
  <2>1. /\ form[f].at = "save" /\ Consuming(form[f]) /\ form[f].token \in Token
        /\ used' = used \cup {form[f].token} /\ UNCHANGED token
        /\ \A g \in Form \ {f} : form'[g] = form[g]
        /\ form'[f].at = "idle"
    BY <1>0, <1>10 DEF WriteUser, Ended, Blank, FormTyped, FormRecord, AtStep, Consuming, TokenSteps
  <2>2. ~token[form[f].token].kept /\ token[form[f].token].kind # "none"
    BY <1>0, <2>1 DEF Spent, Made, AtStep
  <2> QED
    BY <1>0, <2>1, <2>2 DEF TokenTyped, Spent, Made, UsedIsSpent, AtStep, Consuming, TokenSteps
<1>11. ASSUME NEW k \in Token, TokenLapses(k) PROVE Promise'
  <2>1. token' = [token EXCEPT ![k].kept = FALSE] /\ UNCHANGED <<form, used>>
    BY <1>11 DEF TokenLapses, account
  <2> QED
    BY <1>0, <1>8, <2>1 DEF TokenTyped, Spent, Made, UsedIsSpent, AtStep, FormTyped, Consuming, TokenSteps
<1>12. ASSUME UNCHANGED <<form, token, used>> PROVE Promise'
  BY <1>0, <1>12 DEF TokenTyped, Spent, Made, UsedIsSpent, AtStep
<1>13. ASSUME (\E i \in Ip : Minute(i)) \/ LockLapses \/ UNCHANGED formVars PROVE UNCHANGED <<form, token, used>>
  BY <1>13 DEF Minute, LockLapses, account, formVars
<1> QED
  BY <1>2, <1>3, <1>4, <1>6, <1>7, <1>9, <1>10, <1>11, <1>12, <1>13 DEF FormNext

(* Nothing is verified or reset with a token that can still be presented:  *)
(* DelToken before WriteUser, and no token is made twice.                       *)
THEOREM UsedIsSpentHolds == FormSpec => []UsedIsSpent
<1>1. TokenInv => UsedIsSpent
  BY DEF TokenInv
<1> QED
  BY <1>1, InitHolds, TokenStep, PTL DEF FormSpec
=============================================================================
