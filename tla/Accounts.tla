------------------------------ MODULE Accounts ------------------------------
(***************************************************************************)
(* Signing in: the key store of JwtKeysService and the sessions of         *)
(* AuthService, for one user.                                              *)
(*                                                                         *)
(* A session is a refresh token in the client's hands and three traces in  *)
(* Redis, written and removed one call at a time: refresh:<jti> (it may be *)
(* exchanged), session:<jti> (its details) and a member of                 *)
(* user-sessions:<user> (it is listed).  Tokens are signed with the key of *)
(* the day, and every signature may rotate the keys first.  Requests of    *)
(* all API instances interleave between any two awaits.                    *)
(*                                                                         *)
(* Time runs only between requests, which take seconds.  Secrets are numbers, 0 is JWT_SECRET; a key id     *)
(* "k<n>" is the number n.                                                 *)
(***************************************************************************)
EXTENDS Naturals, FiniteSets

CONSTANTS
  Proc,      \* requests that may run at once
  Sessions,  \* bound: session ids handed out
  Span,      \* bound: how long the clock runs
  R,         \* JWT_ROTATE_DAYS, 30
  Short,     \* JWT_REFRESH_TTL, 7 days
  Long,      \* rememberMe, 30 days
  Starts     \* what a behaviour starts with: a key store, its time and the number
             \* of its rotations, the endpoints in play, and a bound on the
             \* requests that break off

Session == 1..Sessions
None == 0

(* A key store is its set of keys and the id of the current one.           *)
Key == [id : Nat, secret : Nat, born : Nat]
KeyStore(ks) == ks \in [cur : Nat, keys : SUBSET Key] /\ IsFiniteSet(ks.keys)

(* getCurrent reads keys[currentKid].secret: the current id must name a    *)
(* key, and no id two.                                                     *)
Usable(ks) == /\ \E k \in ks.keys : k.id = ks.cur
              /\ \A j, k \in ks.keys : j.id = k.id => j = k

(* ensureInitialized: the first key, k1, holds JWT_SECRET.                 *)
NewStore == [cur |-> 1, keys |-> {[id |-> 1, secret |-> 0, born |-> 0]}]

(* A key is kept for three rotation periods: no token may outlive two,     *)
(* which JWT_ROTATE_DAYS under 15 would let a thirty-day token do.         *)
ASSUME AccountsAssumption ==
  /\ Sessions \in Nat /\ Span \in Nat
  /\ {R, Short, Long} \subseteq Nat \ {0} /\ Short <= 2 * R /\ Long <= 2 * R
  /\ \A start \in Starts : /\ {start.now, start.fresh, start.quota} \subseteq Nat
                            /\ KeyStore(start.store) /\ Usable(start.store)

VARIABLES
  now, store,    \* the clock; jwt:keys
  req,           \* the running requests
  refresh,       \* per session: when refresh:<jti> expires, 0 if absent
  session,       \* per session: when session:<jti> expires, 0 if absent
  listed, until, \* user-sessions:<user> and when it expires
  tok, given,    \* the refresh tokens signed, and those clients hold
  quota, load,   \* broken-off requests left; the start of this behaviour
  reused,        \* history: key ids whose secret was overwritten
  fresh,         \* history: secrets handed out
  lineage,       \* history: sessions opened, each with the one it replaced
  dropped,       \* history: sessions no list names since it expired as a whole
  broken         \* history: sessions a broken-off request or an erasure touched

keyring == <<store, reused, fresh>>
records == <<refresh, session, listed, until>>
history == <<lineage, dropped, broken>>
vars == <<now, load, req, tok, given, quota, keyring, records, history>>

NoToken == [id |-> 0, secret |-> 0, exp |-> 0]
Idle == [pc |-> "idle", goal |-> "none", old |-> None, new |-> None, ttl |-> Short,
         copy |-> {}, acc |-> 0, todo |-> {}]

Kids(ks) == {k.id : k \in ks.keys}
KeyOf(ks, id) == CHOOSE k \in ks.keys : k.id = id
Current(ks) == KeyOf(ks, ks.cur)

(* ensureRotation: a key in use for a rotation period is followed by a new *)
(* one, named after the number of keys kept; keys older than three periods *)
(* go.                                                                     *)
Due(ks, t) == t >= Current(ks).born + R
RotatedFirstPruned(ks, t, secret) ==   \* mutant: the oldest is given up at once
  LET id == Cardinality(ks.keys) + 1
  IN  [cur |-> id, keys |-> {[id |-> id, secret |-> secret, born |-> t]}]
RotatedOffByOne(ks, t, secret) ==   \* mutant: the id is taken after the prune
  LET kept == {k \in ks.keys : k.born + 3 * R >= t}
      id   == Cardinality(ks.keys) + 1
  IN  [cur |-> id, keys |-> kept \cup
        {[id |-> Cardinality(kept) + 1, secret |-> secret, born |-> t]}]
Rotated(ks, t, secret) ==
  LET id   == Cardinality(ks.keys) + 1
      kept == {k \in ks.keys : k.id # id /\ k.born + 3 * R >= t}
  IN  [cur |-> id, keys |-> kept \cup {[id |-> id, secret |-> secret, born |-> t]}]

Init ==
  /\ load \in Starts
  /\ now = load.now /\ store = load.store /\ fresh = load.fresh /\ quota = load.quota
  /\ req = [p \in Proc |-> Idle]
  /\ refresh = [s \in Session |-> 0] /\ session = [s \in Session |-> 0]
  /\ listed = {} /\ until = 0 /\ tok = [s \in Session |-> NoToken] /\ given = {}
  /\ reused = {} /\ lineage = {} /\ dropped = {} /\ broken = {}
-----------------------------------------------------------------------------
(* Tokens and keys                                                         *)

At(p, pc) == req[p].pc = pc
Go(p, pc) == req' = [req EXCEPT ![p].pc = pc]
Done(p)   == req' = [req EXCEPT ![p] = Idle]

(* JwtKeysService.verify: the key named in the token, or else the current. *)
Verifies(t) ==
  /\ t.exp > now
  /\ IF t.id \in Kids(store) THEN KeyOf(store, t.id).secret = t.secret
     ELSE Current(store).secret = t.secret
(* AuthGuard, logout and the gateway verify with JWT_SECRET alone.         *)
AcceptedByGuard(secret) == secret = 0

Held(s) == refresh[s] # 0
Minted == {s \in Session : tok[s] # NoToken}
InFlight == {req[p].new : p \in Proc} \ {None}

(* getCurrent: load, rotate and save if due, load again.  The copy that is *)
(* saved is the one that was loaded.                                       *)
Load(p) ==
  /\ At(p, "load")
  /\ IF Due(store, now) THEN req' = [req EXCEPT ![p].copy = {store}, ![p].pc = "save"]
     ELSE Go(p, "reload")
  /\ UNCHANGED <<now, load, tok, given, quota, keyring, records, history>>

Save(p) ==
  /\ At(p, "save")
  /\ \E mine \in req[p].copy :
       LET ks == Rotated(mine, now, fresh + 1)
       IN  /\ store' = ks
           /\ reused' = reused \cup
                {k.id : k \in {k \in store.keys : k.id \in Kids(ks) /\ k \notin ks.keys}}
  /\ fresh' = fresh + 1 /\ req' = [req EXCEPT ![p].pc = "reload", ![p].copy = {}]
  /\ UNCHANGED <<now, load, tok, given, quota, records, history>>

(* The second load; the key signs the access token, then the refresh token *)
(* with its new jti.  The daily check wanted only the rotation; a token    *)
(* whose key is gone is verified with the current one, in vain.            *)
Reload(p) ==
  /\ At(p, "reload")
  /\ CASE req[p].goal = "access" ->
            /\ req' = [req EXCEPT ![p].pc = "load", ![p].goal = "refresh",
                                  ![p].acc = Current(store).secret]
            /\ UNCHANGED tok
       [] req[p].goal = "refresh" ->
            LET s == Cardinality(Minted) + 1
                k == Current(store)
            IN  /\ s \in Session
                /\ req' = [req EXCEPT ![p].pc = "setRefresh", ![p].new = s]
                /\ tok' = [tok EXCEPT ![s] =
                     [id |-> k.id, secret |-> k.secret, exp |-> now + req[p].ttl]]
       [] OTHER -> Done(p) /\ UNCHANGED tok
  /\ UNCHANGED <<now, load, given, quota, keyring, records, history>>

(* The daily timer of every instance.                                      *)
Daily(p) ==
  /\ "daily" \in load.ops /\ At(p, "idle") /\ Due(store, now)
  /\ req' = [req EXCEPT ![p].pc = "load", ![p].goal = "check"]
  /\ UNCHANGED <<now, load, tok, given, quota, keyring, records, history>>
-----------------------------------------------------------------------------
(* Opening a session                                                       *)

(* Once the credentials are right, a new session: generateTokenPair.       *)
SignIn(p, ttl) ==
  /\ "login" \in load.ops /\ At(p, "idle")
  /\ Cardinality(Minted) < Sessions
  /\ req' = [req EXCEPT ![p].pc = "load", ![p].goal = "access", ![p].ttl = ttl]
  /\ UNCHANGED <<now, load, tok, given, quota, keyring, records, history>>

SetRefresh(p) ==
  /\ At(p, "setRefresh") /\ Go(p, "setSession")
  /\ refresh' = [refresh EXCEPT ![req[p].new] = now + req[p].ttl]
  /\ lineage' = lineage \cup {<<req[p].new, req[p].old>>}
  /\ UNCHANGED <<now, load, tok, given, quota, keyring, session, listed, until, dropped, broken>>

Login(p) == \E ttl \in {Short, Long} : SignIn(p, ttl)   \* rememberMe or not
OAuth(p) == SignIn(p, Short)                          \* a new user is created first

SetSessionDefault(p) ==   \* mutant: rememberMe not passed on to session:<jti>
  /\ At(p, "setSession") /\ Go(p, "list")
  /\ session' = [session EXCEPT ![req[p].new] = now + Short]
  /\ UNCHANGED <<now, load, tok, given, quota, keyring, refresh, listed, until, history>>
SetSession(p) ==
  /\ At(p, "setSession") /\ Go(p, "list")
  /\ session' = [session EXCEPT ![req[p].new] = now + req[p].ttl]
  /\ UNCHANGED <<now, load, tok, given, quota, keyring, refresh, listed, until, history>>

List(p) ==
  /\ At(p, "list") /\ Go(p, "expire")
  /\ listed' = listed \cup {req[p].new}
  /\ UNCHANGED <<now, load, tok, given, quota, keyring, refresh, session, until, history>>

(* The whole set gets this session's TTL; the response's cookie replaces   *)
(* the old token.                                                          *)
Expire(p) ==
  /\ At(p, "expire") /\ Done(p)
  /\ until' = (IF listed = {} THEN until ELSE now + req[p].ttl)
  /\ given' = (given \ {req[p].old}) \cup {req[p].new}
  /\ UNCHANGED <<now, load, tok, quota, keyring, refresh, session, listed, history>>
-----------------------------------------------------------------------------
(* Exchanging a session: rotateRefreshToken                                *)

Exchange(p, s) ==
  /\ "refresh" \in load.ops /\ At(p, "idle") /\ s \in given
  /\ Cardinality(Minted) < Sessions
  /\ IF Verifies(tok[s])
     THEN req' = [req EXCEPT ![p].pc = "get", ![p].goal = "access", ![p].old = s]
     ELSE /\ tok[s].id \notin Kids(store)
          /\ req' = [req EXCEPT ![p].pc = "load", ![p].goal = "verify", ![p].old = s]
  /\ UNCHANGED <<now, load, tok, given, quota, keyring, records, history>>

(* Refresh expired, or go on.                                              *)
GetRefresh(p) ==
  /\ At(p, "get")
  /\ IF Held(req[p].old) THEN Go(p, "delRefresh") ELSE Done(p)
  /\ UNCHANGED <<now, load, tok, given, quota, keyring, records, history>>

(* The token pair it makes has the default TTL, whatever the old one had.  *)
DelRefreshNot(p) ==   \* mutant: only the details go
  /\ At(p, "delRefresh") /\ Go(p, "delSession")
  /\ UNCHANGED <<now, load, tok, given, quota, keyring, records, history>>
DelRefresh(p) ==
  /\ At(p, "delRefresh") /\ Go(p, "delSession")
  /\ refresh' = [refresh EXCEPT ![req[p].old] = 0]
  /\ UNCHANGED <<now, load, tok, given, quota, keyring, session, listed, until, history>>

DelSession(p) ==
  /\ At(p, "delSession") /\ Go(p, "unlist")
  /\ session' = [session EXCEPT ![req[p].old] = 0]
  /\ UNCHANGED <<now, load, tok, given, quota, keyring, refresh, listed, until, history>>

(* srem; a set that lost its last member is gone with its TTL.             *)
Unlist(p) ==
  /\ At(p, "unlist")
  /\ listed' = listed \ {req[p].old}
  /\ until' = (IF listed' = {} THEN 0 ELSE until)
  /\ IF req[p].goal = "access" THEN Go(p, "load") ELSE Done(p)
  /\ UNCHANGED <<now, load, tok, given, quota, keyring, refresh, session, history>>
-----------------------------------------------------------------------------
(* Closing sessions                                                        *)

(* logout: the cookie goes in any case, the session if JWT_SECRET verifies *)
(* the token.                                                              *)
LogoutListed(p, s) ==   \* mutant: revokes only what the listing has
  /\ "logout" \in load.ops /\ At(p, "idle") /\ s \in given
  /\ given' = given \ {s}
  /\ IF AcceptedByGuard(tok[s].secret) /\ s \in listed
     THEN req' = [req EXCEPT ![p].pc = "revoke", ![p].goal = "logout", ![p].old = s]
     ELSE UNCHANGED req
  /\ UNCHANGED <<now, load, tok, quota, keyring, records, history>>
Logout(p, s) ==
  /\ "logout" \in load.ops /\ At(p, "idle") /\ s \in given
  /\ given' = given \ {s}
  /\ IF AcceptedByGuard(tok[s].secret) /\ tok[s].exp > now
     THEN req' = [req EXCEPT ![p].pc = "revoke", ![p].goal = "logout", ![p].old = s]
     ELSE UNCHANGED req
  /\ UNCHANGED <<now, load, tok, quota, keyring, records, history>>

(* sessions/revoke, for a session of the listing.                          *)
Shown == {s \in listed : session[s] # 0}
Revoke(p, s) ==
  /\ "revoke" \in load.ops /\ At(p, "idle") /\ s \in Shown
  /\ req' = [req EXCEPT ![p].pc = "revoke", ![p].goal = "revoke", ![p].old = s]
  /\ UNCHANGED <<now, load, tok, given, quota, keyring, records, history>>

(* revokeRefresh: refresh:, then who owns session:, session:, the listing. *)
RevokeRefresh(p) ==
  /\ At(p, "revoke") /\ Go(p, "find")
  /\ refresh' = [refresh EXCEPT ![req[p].old] = 0]
  /\ UNCHANGED <<now, load, tok, given, quota, keyring, session, listed, until, history>>

Find(p) ==
  /\ At(p, "find")
  /\ Go(p, IF session[req[p].old] # 0 THEN "delSession" ELSE "delUnowned")
  /\ UNCHANGED <<now, load, tok, given, quota, keyring, records, history>>

(* No owner found: the record is deleted all the same, the listing stays.  *)
DelUnowned(p) ==
  /\ At(p, "delUnowned") /\ Done(p)
  /\ session' = [session EXCEPT ![req[p].old] = 0]
  /\ UNCHANGED <<now, load, tok, given, quota, keyring, refresh, listed, until, history>>

(* privacy/delete, its last part: the details of the listed sessions, then *)
(* the list.  refresh:<jti> is left.                                       *)
Erase(p) ==
  /\ "erase" \in load.ops /\ At(p, "idle") /\ listed # {}
  /\ req' = [req EXCEPT ![p].pc = "erase", ![p].goal = "erase", ![p].todo = listed]
  /\ UNCHANGED <<now, load, tok, given, quota, keyring, records, history>>

EraseOne(p, s) ==
  /\ At(p, "erase") /\ s \in req[p].todo
  /\ session' = [session EXCEPT ![s] = 0] /\ broken' = broken \cup {s}
  /\ req' = [req EXCEPT ![p].todo = @ \ {s}]
  /\ UNCHANGED <<now, load, tok, given, quota, keyring, refresh, listed, until, lineage, dropped>>

EraseList(p) ==
  /\ At(p, "erase") /\ req[p].todo = {} /\ Done(p)
  /\ listed' = {} /\ until' = 0 /\ broken' = broken \cup listed
  /\ UNCHANGED <<now, load, tok, given, quota, keyring, refresh, session, lineage, dropped>>
-----------------------------------------------------------------------------
(* A Redis call fails or the instance stops: the request ends where it is. *)
BreakOff(p) ==
  /\ quota > 0 /\ ~At(p, "idle") /\ Done(p) /\ quota' = quota - 1
  /\ broken' = broken \cup ({req[p].old, req[p].new} \ {None})
  /\ UNCHANGED <<now, load, tok, given, keyring, records, lineage, dropped>>

(* Weeks pass while no request runs: records and the list expire.          *)
Unexpired(record) == [s \in Session |-> IF record[s] > now + 1 THEN record[s] ELSE 0]
Tick ==
  /\ now < load.now + Span /\ \A p \in Proc : At(p, "idle")
  /\ now' = now + 1
  /\ IF until <= now' THEN listed' = {} /\ until' = 0 /\ dropped' = dropped \cup listed
     ELSE UNCHANGED <<listed, until, dropped>>
  /\ refresh' = Unexpired(refresh) /\ session' = Unexpired(session)
  /\ UNCHANGED <<load, req, tok, given, quota, keyring, lineage, broken>>

Step(p) ==
  \/ Load(p) \/ Save(p) \/ Reload(p)
  \/ SetRefresh(p) \/ SetSession(p) \/ List(p) \/ Expire(p)
  \/ GetRefresh(p) \/ DelRefresh(p) \/ DelSession(p) \/ Unlist(p)
  \/ RevokeRefresh(p) \/ Find(p) \/ DelUnowned(p) \/ EraseList(p)
  \/ \E s \in Session : EraseOne(p, s)
Request(p) ==
  \/ Daily(p) \/ Login(p) \/ OAuth(p)
  \/ \E s \in Session : Exchange(p, s) \/ Logout(p, s) \/ Revoke(p, s)
  \/ Erase(p)
Next == Tick \/ \E p \in Proc : Step(p) \/ Request(p) \/ BreakOff(p)

Spec == Init /\ [][Next]_vars
-----------------------------------------------------------------------------
(* The properties                                                          *)

Point == {"idle", "load", "save", "reload", "setRefresh", "setSession", "list", "expire",
          "get", "delRefresh", "delSession", "unlist", "revoke", "find", "delUnowned", "erase"}

(* Types: clocks and expiries are numbers, requests name sessions that     *)
(* exist, and every copy of the key store is a key store.                  *)
TypeOK ==
  /\ now \in Nat /\ load \in Starts /\ quota \in Nat /\ fresh \in Nat /\ until \in Nat /\ KeyStore(store)
  /\ refresh \in [Session -> Nat] /\ session \in [Session -> Nat]
  /\ tok \in [Session -> [id : Nat, secret : Nat, exp : Nat]]
  /\ lineage \subseteq Session \X (Session \cup {None})
  /\ listed \cup given \cup dropped \cup broken \subseteq Session /\ reused \subseteq Nat
  /\ \A p \in Proc :
       /\ req[p].pc \in Point /\ req[p].ttl \in Nat /\ req[p].todo \subseteq Session
       /\ {req[p].old, req[p].new} \subseteq Session \cup {None}
       /\ \A ks \in req[p].copy : KeyStore(ks)

(* Whatever rotations, prunes and stale saves did, the current id names    *)
(* exactly one key, in the store and in every copy about to be saved:      *)
(* getCurrent always finds a secret, and verify a single one.              *)
CurrentUsable == Usable(store) /\ \A p \in Proc : \A ks \in req[p].copy : Usable(ks)

(* A refresh token that has not expired verifies, however often the keys   *)
(* were rotated and pruned since, unless its key id was overwritten: a     *)
(* prune never takes the key of a token that lives.                        *)
OpenVerifies ==
  \A s \in Minted : tok[s].exp > now /\ tok[s].id \notin reused => Verifies(tok[s])

(* A user's listing shows the sessions that can be exchanged: an open      *)
(* session is in it, with its details, and what it offers for revocation   *)
(* is open. Excepted are sessions a request is at work on or broke off on, *)
(* and open ones whose account was erased or whose list expired as a       *)
(* whole, with a shorter sign-in's TTL.                                    *)
Busy == {req[p].old : p \in Proc} \cup InFlight
ListingTrue ==
  \A s \in Session \ (Busy \cup broken) :
    /\ Held(s) /\ s \in given \ dropped => s \in Shown
    /\ s \in Shown => Held(s)

(* A session no client holds any more, because it was signed out of or     *)
(* exchanged, is closed, unless a request at work on it broke off or its   *)
(* token was not signed with JWT_SECRET: from the first rotation on, a     *)
(* sign-out revokes nothing, and this says nothing of it.                  *)
LoggedOutIsClosed ==
  \A s \in Minted \ (given \cup Busy \cup broken) : AcceptedByGuard(tok[s].secret) => ~Held(s)

(* Sessions live once: opened, closed, and replaced only when closed, with *)
(* two exchanges of one token at once and requests breaking off anywhere.  *)
Life == INSTANCE SessionLife WITH
  life <- [s \in Session |-> IF Held(s) THEN "open"
             ELSE IF \E o \in Session \cup {None} : <<s, o>> \in lineage THEN "closed" ELSE "none"],
  heirOf <- [s \in Session |-> IF \E o \in Session : <<s, o>> \in lineage
             THEN CHOOSE o \in Session : <<s, o>> \in lineage ELSE None]
LivesOnce == Life!LifeSpec

(* "Access token: JWT Bearer" (docs/api/auth-and-rate-limits.md:5): the    *)
(* access token a request is about to hand out is one AuthGuard accepts.   *)
AccessAccepted == \A p \in Proc : At(p, "expire") => AcceptedByGuard(req[p].acc)
=============================================================================
