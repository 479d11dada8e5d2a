------------------------------ MODULE Throttle ------------------------------
(***************************************************************************)
(* What is let through: the rate-limiting middleware in front of the REST  *)
(* API and the limit on socket messages, for one address and one user.     *)
(*                                                                         *)
(* Windows are counters in Redis, shared by the instances: the call that   *)
(* finds one at zero gives it its TTL with a second command.  Requests at  *)
(* work are counted in the memory of each instance, up when a request      *)
(* enters and down on the response's finish event.  A call takes a step    *)
(* per command it awaits; its checks belong to the step before them.       *)
(*                                                                         *)
(* The middleware runs before any guard has set req.user, so all its keys  *)
(* are the address's and nobody bypasses it as an administrator.           *)
(***************************************************************************)
EXTENDS Naturals, FiniteSets

CONSTANTS
  Call,          \* requests and messages that may be at work at once
  Node, NodeOf,  \* NodeOf[c]: the API instance that serves c
  Allowed,       \* Allowed[w]: what a window lets through, RATE_*, COMMENT_RATE_PER_MIN,
                 \* WS_MSGS_PER_SEC, EMERGENCY_RATE_LIMIT_PER_IP, BOT_PATH_VARIETY_THRESHOLD
  Patience,      \* Patience[kind]: refusals before the address is blocked (50, 20)
  MaxHere,       \* MAX_CONCURRENT_PER_IP
  Mixes,         \* the kinds of calls a behaviour may have
  Arrivals,      \* bound: calls ever made
  Upsets         \* bound: failed commands, lost connections and crashes

Kind   == {"plain", "docs", "comment", "message"}
Window == {"emergency", "address", "docs", "comment", "message", "abuse", "paths"}

ASSUME ThrottleAssumption ==
  /\ IsFiniteSet(Call) /\ NodeOf \in [Call -> Node] /\ MaxHere \in Nat
  /\ Allowed \in [Window -> Nat] /\ Patience \in [{"docs", "comment"} -> Nat]
  /\ \A mix \in Mixes : mix \subseteq Kind
  /\ Arrivals \in Nat /\ Upsets \in Nat

VARIABLES
  counter,   \* per window: its value in Redis, 0 if absent; for paths, its members
  timed,     \* the windows that have a TTL
  blocked,   \* block:ip, always set with a TTL
  inflight,  \* per instance: the requests it counts as at work
  call,      \* what each call is doing
  kinds,     \* the kinds of calls of this behaviour
  made, upset,
  passed,    \* history: calls each window let through since it began
  leaked,    \* history: per instance, requests that will never finish
  orphans    \* history: windows cut off from the call that began them

windows     == <<counter, timed, passed, orphans>>
slots       == <<inflight, leaked>>
throttleVars == <<windows, slots, blocked, call, kinds, made, upset>>

(* slot: whether the finish event will count it down, or is about to.      *)
Resting == [at |-> "idle", kind |-> "plain", win |-> "address", slot |-> "none"]

ThrottleInit ==
  /\ counter = [w \in Window |-> 0] /\ timed = {} /\ passed = [w \in Window |-> 0] /\ orphans = {}
  /\ blocked = FALSE /\ call = [c \in Call |-> Resting] /\ made = 0 /\ upset = 0
  /\ kinds \in Mixes
  /\ inflight = [n \in Node |-> 0] /\ leaked = [n \in Node |-> 0]

AtWork(c, at)    == call[c].at = at
Upset            == upset < Upsets /\ upset' = upset + 1
Doing(c, at, w)  == [call[c] EXCEPT !.at = at, !.win = w]
(* The response is sent; its finish event follows.                         *)
Sent(slot)       == IF slot = "held" THEN "answered" ELSE slot
Over(c)          == [Resting EXCEPT !.slot = Sent(call[c].slot)]
-----------------------------------------------------------------------------
(* A call arrives: a request asks for block:ip, a message is counted.      *)
Arrival(c, kind) ==
  /\ call[c] = Resting /\ kind \in kinds /\ made < Arrivals /\ made' = made + 1
  /\ call' = [call EXCEPT ![c] =
       IF kind = "message" THEN [Resting EXCEPT !.kind = kind, !.win = "message", !.at = "count"]
       ELSE [Resting EXCEPT !.kind = kind, !.at = "ask"]]
  /\ UNCHANGED <<windows, slots, blocked, kinds, upset>>

(* The throttle of this instance: one more, or refused and not counted.    *)
EnterListening(c) ==   \* mutant: the listener is registered before the check
  LET n == NodeOf[c] IN
  IF inflight[n] < MaxHere
  THEN /\ inflight' = [inflight EXCEPT ![n] = @ + 1]
       /\ call' = [call EXCEPT ![c] = [Doing(c, "count", "address") EXCEPT !.slot = "held"]]
  ELSE /\ call' = [call EXCEPT ![c] = [Resting EXCEPT !.slot = "answered"]]
       /\ UNCHANGED inflight
Enter(c) ==
  LET n == NodeOf[c] IN
  IF inflight[n] < MaxHere
  THEN /\ inflight' = [inflight EXCEPT ![n] = @ + 1]
       /\ call' = [call EXCEPT ![c] = [Doing(c, "count", "address") EXCEPT !.slot = "held"]]
  ELSE call' = [call EXCEPT ![c] = Resting] /\ UNCHANGED inflight

(* What comes after a window that had room: the windows of its kind, then  *)
(* the count of paths. A comment's text may be refused in between.         *)
Through(c, w) ==
  CASE w = "emergency" -> Enter(c)
    [] w = "message"   -> call' = [call EXCEPT ![c] = Resting] /\ UNCHANGED inflight
    [] w = "address" /\ call[c].kind # "plain" ->
         call' = [call EXCEPT ![c] = Doing(c, "count", call[c].kind)] /\ UNCHANGED inflight
    [] w = "comment" -> /\ \E r \in {Doing(c, "add", "paths"), Over(c)} : call' = [call EXCEPT ![c] = r]
                        /\ UNCHANGED inflight
    [] OTHER           -> call' = [call EXCEPT ![c] = Doing(c, "add", "paths")] /\ UNCHANGED inflight

(* A refusal is answered at once; those of documents and comments are then *)
(* counted against the address.                                            *)
Refused(c, w) ==
  /\ call' = [call EXCEPT ![c] =
       IF w \in {"docs", "comment"}
       THEN [Doing(c, "count", "abuse") EXCEPT !.slot = Sent(@)] ELSE Over(c)]
  /\ UNCHANGED inflight

(* The abuse counter refuses nothing; past its mark the address is blocked.*)
Noted(c, val) ==
  /\ call' = [call EXCEPT ![c] =
       IF val > Patience[call[c].kind] THEN Doing(c, "block", "abuse") ELSE Over(c)]
  /\ UNCHANGED inflight

Judged(c, w, val) ==
  IF w = "abuse" THEN Noted(c, val) /\ UNCHANGED passed
  ELSE IF val <= Allowed[w]
  THEN Through(c, w) /\ passed' = [passed EXCEPT ![w] = @ + 1]
  ELSE Refused(c, w) /\ UNCHANGED passed
-----------------------------------------------------------------------------
(* GET block:ip, then the emergency limit if there is one.                 *)
Ask(c) ==
  /\ AtWork(c, "ask")
  /\ IF blocked THEN call' = [call EXCEPT ![c] = Resting] /\ UNCHANGED inflight
     ELSE IF Allowed["emergency"] > 0
     THEN call' = [call EXCEPT ![c] = Doing(c, "count", "emergency")] /\ UNCHANGED inflight
     ELSE Enter(c)
  /\ UNCHANGED <<windows, blocked, leaked, kinds, made, upset>>

(* bump: INCR, and EXPIRE only after the first.                            *)
Count(c) ==
  LET w   == call[c].win
      val == counter[w] + 1
  IN  /\ AtWork(c, "count")
      /\ counter' = [counter EXCEPT ![w] = val]
      /\ IF val = 1 THEN call' = [call EXCEPT ![c].at = "expire"] /\ UNCHANGED <<inflight, passed>>
         ELSE Judged(c, w, val)
      /\ UNCHANGED <<timed, orphans, blocked, leaked, kinds, made, upset>>

SetWindowNever(c) ==   \* mutant: the counter is judged and keeps no TTL
  /\ AtWork(c, "expire") /\ Judged(c, call[c].win, 1)
  /\ UNCHANGED <<counter, timed, orphans, blocked, leaked, kinds, made, upset>>
SetWindow(c) ==
  /\ AtWork(c, "expire") /\ Judged(c, call[c].win, 1)
  /\ timed' = timed \cup {call[c].win}
  /\ UNCHANGED <<counter, orphans, blocked, leaked, kinds, made, upset>>

(* tooManyDistinctPaths: a member per request, named by the millisecond,   *)
(* the TTL anew each time, and the number of members.                      *)
AddPath(c) ==
  /\ AtWork(c, "add")
  /\ \E same \in {0, 1} :
       /\ same <= counter["paths"]
       /\ counter' = [counter EXCEPT !["paths"] = @ + 1 - same]
  /\ call' = [call EXCEPT ![c].at = "span"]
  /\ UNCHANGED <<timed, passed, orphans, slots, blocked, kinds, made, upset>>

SpanPaths(c) ==
  /\ AtWork(c, "span")
  /\ timed' = IF counter["paths"] > 0 THEN timed \cup {"paths"} ELSE timed
  /\ call' = [call EXCEPT ![c].at = "size"]
  /\ UNCHANGED <<counter, passed, orphans, slots, blocked, kinds, made, upset>>

SizePaths(c) ==
  /\ AtWork(c, "size")
  /\ call' = [call EXCEPT ![c].at = IF counter["paths"] > Allowed["paths"] THEN "block" ELSE "handle"]
  /\ UNCHANGED <<windows, slots, blocked, kinds, made, upset>>

(* SET block:ip EX; after too many paths the answer comes only now.        *)
Block(c) ==
  /\ AtWork(c, "block") /\ blocked' = TRUE
  /\ call' = [call EXCEPT ![c] = Over(c)]
  /\ UNCHANGED <<windows, slots, kinds, made, upset>>

(* Guards, handler and answer.                                             *)
Handle(c) ==
  /\ AtWork(c, "handle")
  /\ call' = [call EXCEPT ![c] = Over(c)]
  /\ UNCHANGED <<windows, slots, blocked, kinds, made, upset>>

(* The finish event; without it, when the client hangs up, the request is  *)
(* counted for good.                                                       *)
Finish(c) ==
  /\ call[c].slot = "answered"
  /\ inflight' = [inflight EXCEPT ![NodeOf[c]] = IF @ = 0 THEN 0 ELSE @ - 1]
  /\ call' = [call EXCEPT ![c].slot = "none"]
  /\ UNCHANGED <<windows, leaked, blocked, kinds, made, upset>>

HangUp(c) ==
  /\ call[c].slot # "none" /\ Upset
  /\ leaked' = [leaked EXCEPT ![NodeOf[c]] = @ + 1]
  /\ call' = [call EXCEPT ![c].slot = "none"]
  /\ UNCHANGED <<windows, inflight, blocked, kinds, made>>
-----------------------------------------------------------------------------
(* Faults and time. A failed command ends a message. In a request nobody   *)
(* catches it, and the process ends as in a crash.                         *)
Beginning(c) ==
  IF AtWork(c, "expire") THEN {call[c].win}
  ELSE IF AtWork(c, "span") THEN {"paths"} \ timed ELSE {}

MessageFails(c) ==
  /\ call[c].kind = "message" /\ ~AtWork(c, "idle") /\ Upset
  /\ orphans' = orphans \cup Beginning(c)
  /\ call' = [call EXCEPT ![c] = Resting]
  /\ UNCHANGED <<counter, timed, passed, slots, blocked, kinds, made>>

NodeFails(n) ==
  /\ Upset
  /\ orphans' = orphans \cup UNION {Beginning(c) : c \in {c \in Call : NodeOf[c] = n}}
  /\ call' = [c \in Call |-> IF NodeOf[c] = n THEN Resting ELSE call[c]]
  /\ inflight' = [inflight EXCEPT ![n] = 0] /\ leaked' = [leaked EXCEPT ![n] = 0]
  /\ UNCHANGED <<counter, timed, passed, blocked, kinds, made>>

WindowEnds(w) ==
  /\ w \in timed /\ timed' = timed \ {w}
  /\ counter' = [counter EXCEPT ![w] = 0] /\ passed' = [passed EXCEPT ![w] = 0]
  /\ UNCHANGED <<orphans, slots, blocked, call, kinds, made, upset>>

BlockEnds == blocked /\ blocked' = FALSE /\ UNCHANGED <<windows, slots, call, kinds, made, upset>>

ThrottleNext ==
  \/ \E c \in Call :
       \/ \E kind \in Kind : Arrival(c, kind)
       \/ Ask(c) \/ Count(c) \/ SetWindow(c) \/ AddPath(c) \/ SpanPaths(c) \/ SizePaths(c)
       \/ Block(c) \/ Handle(c) \/ Finish(c) \/ HangUp(c) \/ MessageFails(c)
  \/ \E n \in Node : NodeFails(n)
  \/ \E w \in Window : WindowEnds(w)
  \/ BlockEnds

ThrottleSpec == ThrottleInit /\ [][ThrottleNext]_throttleVars
-----------------------------------------------------------------------------
(* The properties                                                          *)

(* An instance never has more requests of an address at work than it may,  *)
(* and counts exactly those, until they are finished, and the ones whose   *)
(* client hung up: a refused request is never counted down, and an answer  *)
(* that is followed by more commands is counted down once.                 *)
SlotsHold ==
  \A n \in Node :
    /\ inflight[n] = leaked[n] + Cardinality({c \in Call : NodeOf[c] = n /\ call[c].slot # "none"})
    /\ inflight[n] <= MaxHere

(* A window lets through what it may and no more, whichever instances the  *)
(* calls come to, and ends: a counter that has no TTL is about to get it   *)
(* from the call that began it, or that call was cut off just then.        *)
WindowsHold ==
  \A w \in Window :
    /\ passed[w] <= Allowed[w]
    /\ counter[w] > 0 /\ w \notin timed \cup orphans => \E c \in Call : w \in Beginning(c)
=============================================================================
