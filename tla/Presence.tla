------------------------------ MODULE Presence ------------------------------
(***************************************************************************)
(* Who is where in one document: presence events and section claims, which *)
(* the gateway passes on to the room and keeps in Redis under TTLs for     *)
(* those who join later, and what each page makes of them.                 *)
(*                                                                         *)
(* A handler takes a step per call it awaits; what it emits is handled by  *)
(* the pages of its instance at once (a socket keeps its order) and goes   *)
(* through Redis to the others, where it may be lost. A tick stands for    *)
(* half a minute and comes between handlers, never in one. Rate limits and *)
(* the 60 ms throttle drop messages, so any message may not be sent.       *)
(* Positions are left out; the page's joining is told in full in DocRoom.  *)
(* Clocks agree. The members' SADD and EXPIRE are one step: a member whose *)
(* record is gone is not listed. So is the reading of the records, or of   *)
(* the claims, that a list is made of.                                     *)
(***************************************************************************)
EXTENDS Integers, FiniteSets, Sequences

CONSTANTS User, Client,      \* a client is one open page: a tab
          UserOf,            \* UserOf[c]: whose tab it is
          Instance, Home,    \* Home[c]: the instance its socket is on
          MaxClaims,         \* claims ever made
          PresenceTtl,       \* PRESENCE_TTL_SEC (60 s), in ticks
          PageTtl,           \* how long a page shows who is not heard of (60 s)
          ClaimTtls,         \* the times claims are made for
          SetFloor,          \* the least life of the set of claims (120 s)
          None,
          Loads              \* what a behaviour does: its tabs, its messages, how
                             \* many, how many joins, leaves, faults, ticks

ASSUME PresenceAssumption ==
  /\ UserOf \in [Client -> User] /\ Home \in [Client -> Instance]
  /\ PresenceTtl \in Nat \ {0} /\ PageTtl \in Nat \ {0}
  /\ ClaimTtls \subseteq Nat \ {0} /\ SetFloor \in Nat
  /\ MaxClaims \in Nat /\ None \notin Nat /\ None \notin [ts : Nat, typing : BOOLEAN]
  /\ \A l \in Loads : l.tabs \subseteq Client /\ {l.sends, l.joins, l.leaves, l.faults, l.time} \subseteq Nat

VARIABLES now,
          page,         \* page[c]: what the tab holds, see Blank
          joining,      \* joining[c]: the rest of its doc:join
          leaving,      \* leaving[c]: the rest of its disconnect
          task,         \* task[c]: the message of c being handled
          members,      \* ws:presence:doc:<doc>:users, and when it lapses;
                        \* None: it has no TTL, or is not there
          record,       \* record[u]: ws:presence:doc:<doc>:<user>, or None
          claimKey,     \* claimKey[k]: ws:section:doc:<doc>:<claim>, or None
          claimSet,     \* ws:section:doc:<doc>, and when it lapses
          wire,         \* wire[i]: published, not yet received by i
          lastSent,     \* history: when a user's presence was last accepted
          done,         \* how many messages, joins, leaves, faults there were
          load

redis == <<members, record, claimKey, claimSet>>
count == <<lastSent, done, load>>
vars  == <<now, page, joining, leaving, task, redis, wire, count>>

Claim   == 1..MaxClaims
Idle    == [at |-> "idle"]
Largest(a, b) == IF a < b THEN b ELSE a

Empty   == [all |-> {}, till |-> None]

Blank == [on |-> FALSE, people |-> [u \in User |-> None], typing |-> {}, claims |-> {}]

Init ==
  /\ load \in Loads
  /\ now = 0 /\ done = [sends |-> 0, joins |-> 0, leaves |-> 0, faults |-> 0]
  /\ page = [c \in Client |-> Blank]
  /\ joining = [c \in Client |-> Idle]
  /\ leaving = [c \in Client |-> Idle]
  /\ task = [c \in Client |-> Idle]
  /\ members = Empty
  /\ record = [u \in User |-> None]
  /\ claimKey = [k \in Claim |-> None]
  /\ claimSet = Empty
  /\ wire = [i \in Instance |-> <<>>]
  /\ lastSent = [u \in User |-> None]

-----------------------------------------------------------------------------
(* The page: the lists the editor keeps.                                   *)

Shown(p) == {u \in User : p.people[u] # None}

OnPresence(p, e) ==
  [p EXCEPT !.people[e.user] = [ts |-> e.ts, typing |-> e.typing],
            !.typing = IF e.typing THEN @ \cup {e.user} ELSE @ \ {e.user}]

\* mutant: who is listed counts as seen now
OnListAsNow(p, list) ==
  [p EXCEPT !.people = [u \in User |->
     IF list[u] = None THEN @[u] ELSE [ts |-> now, typing |-> list[u].typing]]]

OnList(p, list) ==
  [p EXCEPT !.people = [u \in User |->
     IF list[u] = None THEN @[u] ELSE [ts |-> list[u].ts, typing |-> list[u].typing]]]

OnClaimed(p, e)  == [p EXCEPT !.claims = @ \cup {e.claim}]
OnReleased(p, e) == [p EXCEPT !.claims = @ \ {e.claim}]

On(p, e) == CASE e.type = "presence" -> OnPresence(p, e)
              [] e.type = "claimed"  -> OnClaimed(p, e)
              [] e.type = "released" -> OnReleased(p, e)

\* mutant: the typing marks stay
CleanPeople(p, t) ==
  [p EXCEPT !.people = [u \in User |-> IF @[u] # None /\ t - @[u].ts < PageTtl THEN @[u] ELSE None]]

\* Every two seconds: typing marks and those unheard of for a minute go.
Clean(p, t) ==
  [p EXCEPT !.people = [u \in User |-> IF @[u] # None /\ t - @[u].ts < PageTtl THEN @[u] ELSE None],
            !.typing = {}]

-----------------------------------------------------------------------------
(* What a behaviour has left of its load.                                  *)

More(what) == done[what] < load[what] /\ done' = [done EXCEPT ![what] = @ + 1]
Fault      == More("faults")

-----------------------------------------------------------------------------
(* Emitting to the room: every other socket of it on this instance, and    *)
(* the other instances' channel, where the publication may fail.           *)

Heard(i, e, except) ==
  [c \in Client |-> IF page[c].on /\ Home[c] = i /\ c # except THEN On(page[c], e) ELSE page[c]]

Emit(c, e) ==
  /\ page' = Heard(Home[c], e, c)
  /\ \/ /\ wire' = [i \in Instance |-> IF i = Home[c] THEN wire[i] ELSE Append(wire[i], e)]
        /\ UNCHANGED done
     \/ Fault /\ UNCHANGED wire

\* The subscriber gets it, or chaos drops it.
Receive(i) ==
  /\ wire[i] # <<>>
  /\ \/ page' = Heard(i, Head(wire[i]), None) /\ UNCHANGED done
     \/ Fault /\ UNCHANGED page
  /\ wire' = [wire EXCEPT ![i] = Tail(@)]
  /\ UNCHANGED <<now, joining, leaving, task, redis, lastSent, load>>

-----------------------------------------------------------------------------
(* Presence messages.                                                      *)

Step(c, at) == task' = [task EXCEPT ![c].at = at]
Quiet(c)    == task[c] = Idle
May(c, op)  == page[c].on /\ Quiet(c) /\ op \in load.ops /\ More("sends")

Post(c, typing) ==
  /\ May(c, "presence")
  /\ task' = [task EXCEPT ![c] = [at |-> "member", type |-> "presence",
                                  user |-> UserOf[c], ts |-> now, typing |-> typing]]
  /\ lastSent' = [lastSent EXCEPT ![UserOf[c]] = now]
  /\ UNCHANGED <<now, page, joining, leaving, redis, wire, load>>

\* A caret that moves, in a page or by a key that was pressed, and the end of
\* typing are sent without the mark, a key with it.
Move(c) == Post(c, FALSE)
Key(c)  == \E typing \in BOOLEAN : Post(c, typing)

KeepMember(c) ==
  /\ task[c].at = "member"
  /\ members' = [all |-> members.all \cup {UserOf[c]}, till |-> now + PresenceTtl]
  /\ Step(c, "record")
  /\ UNCHANGED <<now, page, joining, leaving, record, claimKey, claimSet, wire, count>>

KeepRecord(c) ==
  /\ task[c].at = "record"
  /\ record' = [record EXCEPT ![UserOf[c]] =
                  [ts |-> task[c].ts, typing |-> task[c].typing, till |-> now + PresenceTtl]]
  /\ Step(c, "emit")
  /\ UNCHANGED <<now, page, joining, leaving, members, claimKey, claimSet, wire, count>>

\* Redis fails: the rest is not stored, and the event goes out all the same.
KeepFails(c) ==
  /\ task[c].at \in {"member", "record"} /\ Fault
  /\ Step(c, "emit")
  /\ UNCHANGED <<now, page, joining, leaving, redis, wire, lastSent, load>>

Tell(c) ==
  /\ task[c].at = "emit"
  /\ \/ Emit(c, task[c])
     \/ task[c].type = "presence" /\ Fault /\ UNCHANGED <<page, wire>>  \* dropped by chaos
  /\ task' = [task EXCEPT ![c] = Idle]
  /\ UNCHANGED <<now, joining, leaving, redis, lastSent, load>>

-----------------------------------------------------------------------------
(* Section claims.                                                         *)

MakeClaim(c) ==
  /\ May(c, "claim")
  /\ done.sends + 1 \in Claim
  /\ \E ttl \in ClaimTtls :
       task' = [task EXCEPT ![c] = [at |-> "key", type |-> "claimed", claim |-> done.sends + 1, ttl |-> ttl]]
  /\ UNCHANGED <<now, page, joining, leaving, redis, wire, lastSent, load>>

\* "kept" is history: the set was last given a life that covers the claim's.
KeepClaim(c) ==
  /\ task[c].at = "key"
  /\ claimKey' = [claimKey EXCEPT ![task[c].claim] =
                    [by |-> UserOf[c], till |-> now + task[c].ttl, kept |-> FALSE]]
  /\ Step(c, "list")
  /\ UNCHANGED <<now, page, joining, leaving, members, record, claimSet, wire, count>>

\* The set keeps the life it has; one that begins has no end yet.
ListClaim(c) ==
  /\ task[c].at = "list"
  /\ claimSet' = [claimSet EXCEPT !.all = @ \cup {task[c].claim}]
  /\ Step(c, "life")
  /\ UNCHANGED <<now, page, joining, leaving, members, record, claimKey, wire, count>>

Covered(t) ==
  [k \in Claim |-> IF claimKey[k] = None \/ k \notin claimSet.all THEN claimKey[k]
                   ELSE [claimKey[k] EXCEPT !.kept = claimKey[k].till <= t]]

\* mutant: the set lives as long as the claim that was added last
ExtendBriefly(c) ==
  /\ task[c].at = "life"
  /\ claimSet' = IF claimSet.all = {} THEN claimSet ELSE [claimSet EXCEPT !.till = now + task[c].ttl]
  /\ claimKey' = Covered(now + Largest(task[c].ttl, SetFloor))
  /\ Step(c, "emit")
  /\ UNCHANGED <<now, page, joining, leaving, members, record, wire, count>>

Extend(c) ==
  /\ task[c].at = "life"
  /\ LET end == now + Largest(task[c].ttl, SetFloor)
     IN /\ claimSet' = IF claimSet.all = {} THEN claimSet ELSE [claimSet EXCEPT !.till = end]
        /\ claimKey' = Covered(end)
  /\ Step(c, "emit")
  /\ UNCHANGED <<now, page, joining, leaving, members, record, wire, count>>

Release(c) ==
  /\ May(c, "release")
  /\ \E k \in Claim :
       /\ k <= done.sends
       /\ task' = [task EXCEPT ![c] = [at |-> "check", type |-> "released", claim |-> k]]
  /\ UNCHANGED <<now, page, joining, leaving, redis, wire, lastSent, load>>

\* A claim of another's is kept, but the refusal is caught with every other
\* error and its release is announced nevertheless.
CheckOwner(c) ==
  /\ task[c].at = "check"
  /\ LET key == claimKey[task[c].claim]
     IN Step(c, IF key = None \/ key.by = UserOf[c] THEN "free" ELSE "emit")
  /\ UNCHANGED <<now, page, joining, leaving, redis, wire, count>>

FreeClaim(c) ==
  /\ task[c].at = "free"
  /\ claimKey' = [claimKey EXCEPT ![task[c].claim] = None]
  /\ claimSet' = LET rest == claimSet.all \ {task[c].claim}
                 IN IF rest = {} THEN Empty ELSE [claimSet EXCEPT !.all = rest]
  /\ Step(c, "emit")
  /\ UNCHANGED <<now, page, joining, leaving, members, record, wire, count>>

ClaimFails(c) ==
  /\ task[c].at \in {"key", "list", "life", "check", "free"} /\ Fault
  /\ Step(c, "emit")
  /\ UNCHANGED <<now, page, joining, leaving, redis, wire, lastSent, load>>

-----------------------------------------------------------------------------
(* Joining: the socket enters the room, then is sent the two lists, each   *)
(* read as a set of keys and then key by key, where the keys are read in   *)
(* one step. An empty list is not sent.                                    *)

Join(c) ==
  /\ c \in load.tabs /\ ~page[c].on /\ joining[c] = Idle /\ More("joins")
  /\ page' = [page EXCEPT ![c].on = TRUE]
  /\ joining' = [joining EXCEPT ![c] = [at |-> "members", got |-> {}]]
  /\ UNCHANGED <<now, leaving, task, redis, wire, lastSent, load>>

JoinStep(c, at, got) ==
  /\ joining' = [joining EXCEPT ![c] = [at |-> at, got |-> got]]
  /\ UNCHANGED <<now, leaving, task, redis, wire, lastSent, load>>

ReadMembers(c) ==
  /\ joining[c].at = "members" /\ UNCHANGED <<page, done>>
  /\ JoinStep(c, "people", members.all)

Listed(us) == [u \in User |-> IF u \in us THEN record[u] ELSE None]

SendPeople(c) ==
  /\ joining[c].at = "people"
  /\ page' = [page EXCEPT ![c] = IF @.on THEN OnList(@, Listed(joining[c].got)) ELSE @]
  /\ JoinStep(c, "claimSet", {}) /\ UNCHANGED done

ReadClaimSet(c) ==
  /\ joining[c].at = "claimSet" /\ UNCHANGED <<page, done>>
  /\ JoinStep(c, "claims", claimSet.all)

\* The list replaces the claims the page has.
OnClaimList(p, live) == [p EXCEPT !.claims = live]

SendClaims(c) ==
  /\ joining[c].at = "claims"
  /\ LET live == {k \in joining[c].got : claimKey[k] # None}
     IN page' = [page EXCEPT ![c] = IF @.on /\ live # {} THEN OnClaimList(@, live) ELSE @]
  /\ joining' = [joining EXCEPT ![c] = Idle]
  /\ UNCHANGED <<now, leaving, task, redis, wire, count>>

JoinFails(c) ==
  /\ joining[c] # Idle /\ Fault /\ UNCHANGED page
  /\ IF joining[c].at \in {"members", "people"}
     THEN JoinStep(c, "claimSet", {})
     ELSE /\ joining' = [joining EXCEPT ![c] = Idle]
          /\ UNCHANGED <<now, leaving, task, redis, wire, lastSent, load>>

\* The tab closes or its socket drops: the gateway forgets the user, though
\* another tab of his may be open.
Leave(c) ==
  /\ page[c].on /\ leaving[c] = Idle /\ More("leaves")
  /\ page' = [page EXCEPT ![c] = Blank]
  /\ leaving' = [leaving EXCEPT ![c] = [at |-> "member"]]
  /\ UNCHANGED <<now, joining, task, redis, wire, lastSent, load>>

DropMember(c) ==
  /\ leaving[c].at = "member"
  /\ members' = [members EXCEPT !.all = @ \ {UserOf[c]}]
  /\ leaving' = [leaving EXCEPT ![c].at = "record"]
  /\ UNCHANGED <<now, page, joining, task, record, claimKey, claimSet, wire, count>>

DropRecord(c) ==
  /\ leaving[c].at = "record"
  /\ record' = [record EXCEPT ![UserOf[c]] = None]
  /\ leaving' = [leaving EXCEPT ![c] = Idle]
  /\ UNCHANGED <<now, page, joining, task, members, claimKey, claimSet, wire, count>>

DropFails(c) ==
  /\ leaving[c] # Idle /\ Fault
  /\ leaving' = [leaving EXCEPT ![c] = Idle]
  /\ UNCHANGED <<now, page, joining, task, redis, wire, lastSent, load>>

-----------------------------------------------------------------------------
(* Half a minute passes: keys and sets lapse, pages clean up.              *)

Lapse(set, t) == IF set.till = None \/ t < set.till THEN set ELSE Empty
KeyLapse(key, t) == IF key # None /\ t < key.till THEN key ELSE None

Still ==
  /\ \A c \in Client : task[c] = Idle /\ joining[c] = Idle /\ leaving[c] = Idle
  /\ \A i \in Instance : wire[i] = <<>>

Tick ==
  /\ Still /\ now < load.time
  /\ now' = now + 1
  /\ members' = Lapse(members, now')
  /\ claimSet' = Lapse(claimSet, now')
  /\ record' = [u \in User |-> KeyLapse(record[u], now')]
  /\ claimKey' = [k \in Claim |-> KeyLapse(claimKey[k], now')]
  /\ page' = [c \in Client |-> Clean(page[c], now')]
  /\ UNCHANGED <<joining, leaving, task, wire, count>>

Next ==
  \/ Tick \/ \E i \in Instance : Receive(i)
  \/ \E c \in Client :
       \/ Move(c) \/ Key(c) \/ KeepMember(c) \/ KeepRecord(c) \/ KeepFails(c) \/ Tell(c)
       \/ MakeClaim(c) \/ KeepClaim(c) \/ ListClaim(c) \/ Extend(c) \/ Release(c) \/ CheckOwner(c)
       \/ FreeClaim(c) \/ ClaimFails(c)
       \/ Join(c) \/ ReadMembers(c) \/ SendPeople(c) \/ ReadClaimSet(c) \/ SendClaims(c)
       \/ JoinFails(c) \/ Leave(c) \/ DropMember(c) \/ DropRecord(c) \/ DropFails(c)

Spec == Init /\ [][Next]_vars

-----------------------------------------------------------------------------
(* Properties.                                                             *)

\* The shape of the state.
TypeOK ==
  /\ now \in 0..load.time /\ \A what \in DOMAIN done : done[what] \in 0..load[what]
  /\ \A c \in Client : page[c].typing \subseteq User /\ page[c].claims \subseteq Claim
  /\ members.all \subseteq User /\ claimSet.all \subseteq Claim
  /\ \A u \in User : record[u] # None => record[u].ts <= now /\ now < record[u].till

\* A page shows a user only within a minute of a presence message of his
\* that the gateway accepted (of the two times to live the longer), whatever
\* lists a joining page is sent from Redis, and whichever of his tabs come and
\* go; and only users it shows are marked as typing.
Horizon == Largest(PresenceTtl, PageTtl)
ShownIsRecent ==
  \A c \in Client :
    /\ \A u \in Shown(page[c]) : lastSent[u] # None /\ now - lastSent[u] < Horizon
    /\ page[c].typing \subseteq Shown(page[c])

\* The set a joining page learns the claims from has a life of its own, set
\* anew by every claim to its own time, two minutes at the least. A claim stays
\* in the set while it holds, but for two: one whose EXPIRE did not come, unless
\* a later claim's did, and one that outlives what the latest claim gave the set.
LiveClaimsListed ==
  \A k \in Claim : claimKey[k] # None /\ claimKey[k].kept => k \in claimSet.all
=============================================================================
