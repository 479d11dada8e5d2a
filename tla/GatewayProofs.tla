--------------------------- MODULE GatewayProofs ---------------------------
(***************************************************************************)
(* What the gateway keeps in Redis under a time to live: the properties of *)
(* Throttle, for any number of calls, instances and any limits, and of     *)
(* Presence, for any users, tabs, instances and claims, any times to live  *)
(* and any loads.                                                          *)
(***************************************************************************)
EXTENDS Presence, Throttle, FiniteSetTheorems, SequenceTheorems, TLAPS

(* ------------------------------ Throttle ------------------------------ *)

Counting == {"count", "expire"}
Stage    == {"idle", "ask", "count", "expire", "add", "span", "size", "block", "handle"}
Doings   == [at : Stage, kind : Kind, win : Window, slot : {"none", "held", "answered"}]

(* Where a call may be, seen from its kind and its window: no request is   *)
(* counted before it enters, and messages never are.                       *)
Shape(r) ==
  /\ r \in Doings
  /\ r.at = "idle" => r.kind = "plain"
  /\ r.at = "ask" => r.slot = "none" /\ r.kind # "message"
  /\ r.at \in Counting => /\ r.win # "paths"
                          /\ r.win = "emergency" => r.slot = "none" /\ r.kind # "message"
                          /\ r.win = "message" <=> r.kind = "message"
  /\ r.kind = "message" => r.slot = "none" /\ r.at \in Counting

CallTyped == call \in [Call -> Doings] /\ \A c \in Call : Shape(call[c])
SlotTyped == inflight \in [Node -> Nat] /\ leaked \in [Node -> Nat]
WindowTyped == counter \in [Window -> Nat] /\ passed \in [Window -> Nat] /\ timed \subseteq Window

(* A call is about to give window w its TTL; it is the only one.           *)
Begins(c, w) == AtWork(c, "expire") /\ call[c].win = w

(* A window that is being begun was counted up and has no TTL, and the one *)
(* that begins it has not been let through.                                *)
BegunOnce == \A c, d \in Call, w \in Window : Begins(c, w) /\ Begins(d, w) => c = d
Begun == \A c \in Call, w \in Window : Begins(c, w) =>
           /\ w \notin timed /\ counter[w] > passed[w]
           /\ passed[w] < Allowed[w] \/ Allowed[w] = 0
Filled == \A w \in Window : /\ passed[w] <= Allowed[w] /\ passed[w] <= counter[w]
                            /\ w \in timed => counter[w] > 0
Ends == \A w \in Window : counter[w] > 0 /\ w \notin timed \cup orphans => \E c \in Call : w \in Beginning(c)

SlotInv   == CallTyped /\ SlotTyped /\ SlotsHold
WindowInv == CallTyped /\ WindowTyped /\ BegunOnce /\ Begun /\ Filled /\ Ends

LEMMA InitHolds == ThrottleInit => SlotInv /\ WindowInv
<1> SUFFICES ASSUME ThrottleInit PROVE SlotInv /\ WindowInv
  OBVIOUS
<1>1. CallTyped
  BY DEF ThrottleInit, CallTyped, Shape, Doings, Resting, Stage, Kind, Window, Counting
<1>2. SlotTyped /\ WindowTyped
  BY DEF ThrottleInit, SlotTyped, WindowTyped
<1>3. SlotsHold
  <2> SUFFICES ASSUME NEW n \in Node PROVE inflight[n] = leaked[n] + 0 /\ inflight[n] <= MaxHere
                                           /\ {c \in Call : NodeOf[c] = n /\ call[c].slot # "none"} = {}
    BY FS_EmptySet DEF SlotsHold
  <2> QED
    BY ThrottleAssumption DEF ThrottleInit, Resting
<1>4. BegunOnce /\ Begun /\ Filled /\ Ends
  BY ThrottleAssumption DEF ThrottleInit, BegunOnce, Begun, Filled, Ends, Begins, AtWork, Resting
<1> QED
  BY <1>1, <1>2, <1>3, <1>4 DEF SlotInv, WindowInv
-----------------------------------------------------------------------------
(* What a step does to the call that takes it. Its slot stays taken or     *)
(* free, or is taken where there is room.                                  *)
SlotStep(c, r) ==
  \/ (r.slot = "none" <=> call[c].slot = "none") /\ UNCHANGED inflight
  \/ /\ call[c].slot = "none" /\ r.slot # "none" /\ inflight[NodeOf[c]] < MaxHere
     /\ inflight' = [inflight EXCEPT ![NodeOf[c]] = @ + 1]

(* The call goes on: counted where it may be, and nothing else begun.      *)
Goes(c, r) == /\ Shape(r) /\ r.at \notin {"expire", "span"}
              /\ call' = [call EXCEPT ![c] = r]
              /\ SlotStep(c, r)

LEMMA EnterGoes ==
  ASSUME CallTyped, NEW c \in Call, call[c].slot = "none", call[c].kind # "message", Enter(c)
  PROVE  \E r : Goes(c, r)
<1>1. call[c] \in Doings
  BY DEF CallTyped
<1>2. CASE inflight[NodeOf[c]] < MaxHere
  <2> DEFINE r == [Doing(c, "count", "address") EXCEPT !.slot = "held"]
  <2>1. Shape(r) /\ r.at = "count" /\ r.slot = "held"
    BY <1>1 DEF Shape, Doing, Doings, Stage, Kind, Window, Counting
  <2>2. call' = [call EXCEPT ![c] = r] /\ inflight' = [inflight EXCEPT ![NodeOf[c]] = @ + 1]
    BY <1>2 DEF Enter
  <2> QED
    BY <1>2, <2>1, <2>2 DEF Goes, SlotStep
<1>3. CASE ~(inflight[NodeOf[c]] < MaxHere)
  <2>1. Shape(Resting) /\ Resting.at = "idle" /\ Resting.slot = "none"
    BY DEF Shape, Resting, Doings, Stage, Kind, Window, Counting
  <2>2. call' = [call EXCEPT ![c] = Resting] /\ UNCHANGED inflight
    BY <1>3 DEF Enter
  <2> QED
    BY <2>1, <2>2 DEF Goes, SlotStep
<1> QED
  BY <1>2, <1>3

LEMMA OverShape ==
  ASSUME NEW c \in Call, call[c] \in Doings
  PROVE  Over(c).at = "idle" /\ Shape(Over(c)) /\ (Over(c).slot = "none" <=> call[c].slot = "none")
BY DEF Over, Sent, Resting, Shape, Doings, Stage, Kind, Window, Counting

LEMMA ThroughGoes ==
  ASSUME CallTyped, NEW c \in Call, NEW w \in Window, call[c].win = w, call[c].at \in Counting, w # "abuse",
         Through(c, w)
  PROVE  \E r : Goes(c, r)
<1>0. call[c] \in Doings /\ Shape(call[c]) /\ w # "paths"
  BY DEF CallTyped, Shape
<1>1. CASE w = "emergency"
  BY <1>0, <1>1, EnterGoes DEF Through, Shape
<1>2. CASE w = "message"
  <2>1. Shape(Resting) /\ Resting.at = "idle" /\ Resting.slot = "none" /\ call[c].slot = "none"
    BY <1>0, <1>2 DEF Shape, Resting, Doings, Stage, Kind, Window, Counting
  <2>2. call' = [call EXCEPT ![c] = Resting] /\ UNCHANGED inflight
    BY <1>2 DEF Through
  <2> QED
    BY <2>1, <2>2 DEF Goes, SlotStep
<1>3. CASE w = "address" /\ call[c].kind # "plain"
  <2> DEFINE r == Doing(c, "count", call[c].kind)
  <2>1. Shape(r) /\ r.at = "count" /\ r.slot = call[c].slot
    BY <1>0, <1>3 DEF Shape, Doing, Doings, Stage, Kind, Window, Counting
  <2>2. call' = [call EXCEPT ![c] = r] /\ UNCHANGED inflight
    BY <1>3 DEF Through
  <2> QED
    BY <2>1, <2>2 DEF Goes, SlotStep
<1>4. CASE w = "comment" \/ w = "docs" \/ (w = "address" /\ call[c].kind = "plain")
  <2> DEFINE r == Doing(c, "add", "paths")
  <2>1. Shape(r) /\ r.at = "add" /\ r.slot = call[c].slot
    BY <1>0, <1>4 DEF Shape, Doing, Doings, Stage, Kind, Window, Counting
  <2>2. /\ call' = [call EXCEPT ![c] = r] \/ call' = [call EXCEPT ![c] = Over(c)]
        /\ UNCHANGED inflight
    BY <1>4 DEF Through
  <2> QED
    BY <1>0, <2>1, <2>2, OverShape DEF Goes, SlotStep
<1> QED
  BY <1>0, <1>1, <1>2, <1>3, <1>4 DEF Window

LEMMA JudgedGoes ==
  ASSUME CallTyped, NEW c \in Call, NEW w \in Window, call[c].win = w, call[c].at \in Counting,
         NEW val \in Nat, Judged(c, w, val)
  PROVE  \E r : Goes(c, r)
<1>0. call[c] \in Doings /\ Shape(call[c])
  BY DEF CallTyped
<1>1. CASE w = "abuse"
  <2> DEFINE r == Doing(c, "block", "abuse")
  <2>1. Shape(r) /\ r.at = "block" /\ r.slot = call[c].slot
    BY <1>0, <1>1 DEF Shape, Doing, Doings, Stage, Kind, Window, Counting
  <2>2. /\ call' = [call EXCEPT ![c] = r] \/ call' = [call EXCEPT ![c] = Over(c)]
        /\ UNCHANGED inflight
    BY <1>1 DEF Judged, Noted
  <2> QED
    BY <1>0, <2>1, <2>2, OverShape DEF Goes, SlotStep
<1>2. CASE w # "abuse" /\ val <= Allowed[w]
  BY <1>2, ThroughGoes DEF Judged
<1>3. CASE w # "abuse" /\ ~(val <= Allowed[w])
  <2> DEFINE r == [Doing(c, "count", "abuse") EXCEPT !.slot = Sent(@)]
  <2>1. w \in {"docs", "comment"} => Shape(r) /\ r.at = "count" /\ (r.slot = "none" <=> call[c].slot = "none")
    BY <1>0 DEF Shape, Doing, Doings, Stage, Kind, Window, Counting, Sent
  <2>2. /\ call' = [call EXCEPT ![c] = IF w \in {"docs", "comment"} THEN r ELSE Over(c)]
        /\ UNCHANGED inflight
    BY <1>3 DEF Judged, Refused
  <2> QED
    BY <1>0, <2>1, <2>2, OverShape DEF Goes, SlotStep
<1> QED
  BY <1>1, <1>2, <1>3
-----------------------------------------------------------------------------
(* The slots.                                                              *)
Holders(n) == {c \in Call : NodeOf[c] = n /\ call[c].slot # "none"}

LEMMA SlotsKept ==
  ASSUME SlotInv, NEW c \in Call, NEW r, Shape(r), call' = [call EXCEPT ![c] = r],
         SlotStep(c, r), UNCHANGED leaked
  PROVE  SlotInv'
<1>1. /\ call'[c] = r /\ \A d \in Call \ {c} : call'[d] = call[d]
      /\ CallTyped'
  BY DEF SlotInv, CallTyped, Shape
<1>2. NodeOf[c] \in Node /\ \A n \in Node : IsFiniteSet(Holders(n)) /\ Cardinality(Holders(n)) \in Nat
  BY ThrottleAssumption, FS_Subset, FS_CardinalityType DEF Holders
<1>3. CASE (r.slot = "none" <=> call[c].slot = "none") /\ UNCHANGED inflight
  <2>1. \A n \in Node : Holders(n)' = Holders(n)
    BY <1>1, <1>3 DEF Holders
  <2> QED
    BY <1>1, <1>3, <2>1 DEF SlotInv, SlotTyped, SlotsHold, Holders
<1>4. CASE /\ call[c].slot = "none" /\ r.slot # "none" /\ inflight[NodeOf[c]] < MaxHere
           /\ inflight' = [inflight EXCEPT ![NodeOf[c]] = @ + 1]
  <2>1. /\ c \notin Holders(NodeOf[c]) /\ Holders(NodeOf[c])' = Holders(NodeOf[c]) \cup {c}
        /\ \A n \in Node \ {NodeOf[c]} : Holders(n)' = Holders(n)
    BY <1>1, <1>4 DEF Holders
  <2>2. Cardinality(Holders(NodeOf[c])') = Cardinality(Holders(NodeOf[c])) + 1
    BY <1>2, <2>1, FS_AddElement
  <2>3. \A n \in Node : inflight'[n] = IF n = NodeOf[c] THEN inflight[n] + 1 ELSE inflight[n]
    BY <1>2, <1>4 DEF SlotInv, SlotTyped
  <2>4. SlotTyped'
    BY <1>2, <1>4 DEF SlotInv, SlotTyped
  <2>5. SlotsHold'
    <3> SUFFICES ASSUME NEW n \in Node
                 PROVE inflight'[n] = leaked[n] + Cardinality(Holders(n)') /\ inflight'[n] <= MaxHere
      BY DEF SlotsHold, Holders
    <3>1. inflight[n] = leaked[n] + Cardinality(Holders(n)) /\ inflight[n] <= MaxHere
      BY DEF SlotInv, SlotsHold, Holders
    <3>2. CASE n = NodeOf[c]
      BY <1>2, <1>4, <2>2, <2>3, <3>1, <3>2, ThrottleAssumption DEF SlotInv, SlotTyped
    <3>3. CASE n # NodeOf[c]
      BY <2>1, <2>3, <3>1, <3>3
    <3> QED
      BY <3>2, <3>3
  <2> QED
    BY <1>1, <2>4, <2>5 DEF SlotInv
<1> QED
  BY <1>3, <1>4 DEF SlotStep

(* A call gives its slot up: it is counted down, or never will be.         *)
LEMMA SlotGivenUp ==
  ASSUME SlotInv, NEW c \in Call, call[c].slot # "none", call' = [call EXCEPT ![c].slot = "none"],
         \/ /\ inflight' = [inflight EXCEPT ![NodeOf[c]] = IF @ = 0 THEN 0 ELSE @ - 1]
            /\ UNCHANGED leaked
         \/ /\ leaked' = [leaked EXCEPT ![NodeOf[c]] = @ + 1]
            /\ UNCHANGED inflight
  PROVE  SlotInv'
<1>0. call[c] \in Doings /\ Shape(call[c]) /\ NodeOf[c] \in Node
  BY ThrottleAssumption DEF SlotInv, CallTyped
<1>1. /\ call'[c].slot = "none" /\ \A d \in Call \ {c} : call'[d] = call[d]
      /\ CallTyped'
  <2>1. Shape([call[c] EXCEPT !.slot = "none"])
    BY <1>0 DEF Shape, Doings
  <2> QED
    BY <2>1 DEF SlotInv, CallTyped, Shape
<1>2. \A n \in Node : IsFiniteSet(Holders(n)) /\ Cardinality(Holders(n)) \in Nat
  BY ThrottleAssumption, FS_Subset, FS_CardinalityType DEF Holders
<1>3. /\ c \in Holders(NodeOf[c]) /\ Holders(NodeOf[c])' = Holders(NodeOf[c]) \ {c}
      /\ \A n \in Node \ {NodeOf[c]} : Holders(n)' = Holders(n)
  BY <1>1 DEF Holders
<1>4. /\ Cardinality(Holders(NodeOf[c])') = Cardinality(Holders(NodeOf[c])) - 1
      /\ Cardinality(Holders(NodeOf[c])) # 0
  <2>1. ASSUME NEW H, NEW d \in H, IsFiniteSet(H)
        PROVE  Cardinality(H \ {d}) = Cardinality(H) - 1 /\ Cardinality(H) # 0
    <3>1. Cardinality(H \ {d}) = Cardinality(H) - 1
      BY <2>1, FS_RemoveElement
    <3>2. Cardinality(H) # 0
      BY <2>1, FS_EmptySet
    <3> QED BY <3>1, <3>2
  <2> QED BY <1>0, <1>2, <1>3, <2>1
<1>5. \A n \in Node : inflight[n] = leaked[n] + Cardinality(Holders(n)) /\ inflight[n] <= MaxHere
  BY DEF SlotInv, SlotsHold, Holders
<1>6. SlotTyped'
  BY <1>0 DEF SlotInv, SlotTyped
<1>7. ASSUME NEW n \in Node
      PROVE  inflight'[n] = leaked'[n] + Cardinality(Holders(n)') /\ inflight'[n] <= MaxHere
  <2>1. CASE n # NodeOf[c]
    <3>1. inflight'[n] = inflight[n] /\ leaked'[n] = leaked[n]
      BY <1>0, <2>1 DEF SlotInv, SlotTyped
    <3> QED
      BY <1>3, <1>5, <2>1, <3>1
  <2>2. CASE n = NodeOf[c]
    <3> DEFINE k == Cardinality(Holders(n))
    <3>1. k \in Nat /\ k # 0 /\ Cardinality(Holders(n)') = k - 1
      BY <1>2, <1>4, <2>2
    <3>2. inflight[n] = leaked[n] + k /\ inflight[n] <= MaxHere /\ inflight[n] \in Nat /\ leaked[n] \in Nat
      BY <1>5 DEF SlotInv, SlotTyped
    <3>3. \/ inflight'[n] = (IF inflight[n] = 0 THEN 0 ELSE inflight[n] - 1) /\ leaked'[n] = leaked[n]
          \/ inflight'[n] = inflight[n] /\ leaked'[n] = leaked[n] + 1
      BY <2>2 DEF SlotInv, SlotTyped
    <3> HIDE DEF k
    <3> QED
      BY <3>1, <3>2, <3>3, ThrottleAssumption
  <2> QED
    BY <2>1, <2>2
<1> QED
  BY <1>1, <1>6, <1>7 DEF SlotInv, SlotsHold, Holders

LEMMA ArrivalShape ==
  ASSUME SlotInv, NEW c \in Call, NEW kind \in Kind, Arrival(c, kind)
  PROVE  \E r : Goes(c, r)
<1> DEFINE r == IF kind = "message" THEN [Resting EXCEPT !.kind = kind, !.win = "message", !.at = "count"]
                ELSE [Resting EXCEPT !.kind = kind, !.at = "ask"]
<1>0. call[c].slot = "none"
  BY DEF Arrival, Resting
<1>1. Shape(r) /\ r.at \in {"ask", "count"} /\ r.slot = "none"
  BY DEF Resting, Shape, Doings, Stage, Kind, Window, Counting
<1>2. call' = [call EXCEPT ![c] = r] /\ UNCHANGED inflight
  BY DEF Arrival, slots
<1> QED
  BY <1>0, <1>1, <1>2 DEF Goes, SlotStep

LEMMA AskGoes ==
  ASSUME CallTyped, NEW c \in Call, Ask(c)
  PROVE  \E r : Goes(c, r)
<1>0. call[c] \in Doings /\ Shape(call[c]) /\ call[c].at = "ask"
  BY DEF CallTyped, Ask, AtWork
<1>1. CASE blocked
  <2>1. Shape(Resting) /\ Resting.at = "idle" /\ Resting.slot = "none"
    BY DEF Shape, Resting, Doings, Stage, Kind, Window, Counting
  <2>2. call' = [call EXCEPT ![c] = Resting] /\ UNCHANGED inflight
    BY <1>1 DEF Ask
  <2> QED
    BY <1>0, <2>1, <2>2 DEF Goes, SlotStep, Shape
<1>2. CASE ~blocked /\ Allowed["emergency"] > 0
  <2> DEFINE r == Doing(c, "count", "emergency")
  <2>1. Shape(r) /\ r.at = "count" /\ r.slot = call[c].slot
    BY <1>0 DEF Shape, Doing, Doings, Stage, Kind, Window, Counting
  <2>2. call' = [call EXCEPT ![c] = r] /\ UNCHANGED inflight
    BY <1>2 DEF Ask
  <2> QED
    BY <2>1, <2>2 DEF Goes, SlotStep
<1>3. CASE ~blocked /\ ~(Allowed["emergency"] > 0)
  <2>1. Enter(c)
    BY <1>3 DEF Ask
  <2> QED
    BY <1>0, <2>1, EnterGoes DEF Shape
<1> QED
  BY <1>1, <1>2, <1>3

(* The commands of the count of paths, the block and the handler.          *)
LEMMA RestGoes ==
  ASSUME CallTyped, NEW c \in Call, SizePaths(c) \/ Block(c) \/ Handle(c)
  PROVE  \E r : Goes(c, r)
<1>0. call[c] \in Doings /\ Shape(call[c])
  BY DEF CallTyped
<1>1. CASE SizePaths(c)
  <2> DEFINE r == [call[c] EXCEPT !.at = IF counter["paths"] > Allowed["paths"] THEN "block" ELSE "handle"]
  <2>1. Shape(r) /\ r.at \in {"block", "handle"} /\ r.slot = call[c].slot
    BY <1>0, <1>1 DEF SizePaths, AtWork, Shape, Doings, Stage, Counting
  <2>2. call' = [call EXCEPT ![c] = r] /\ UNCHANGED inflight
    BY <1>1 DEF SizePaths, slots
  <2> QED
    BY <2>1, <2>2 DEF Goes, SlotStep
<1>2. CASE Block(c) \/ Handle(c)
  <2>1. call' = [call EXCEPT ![c] = Over(c)] /\ UNCHANGED inflight
    BY <1>2 DEF Block, Handle, slots
  <2> QED
    BY <1>0, <2>1, OverShape DEF Goes, SlotStep
<1> QED
  BY <1>1, <1>2

(* A command whose answer only moves the call on.                          *)
LEMMA AtMoves ==
  ASSUME CallTyped, NEW c \in Call,
         \/ Count(c) /\ counter[call[c].win] + 1 = 1
         \/ AddPath(c) \/ SpanPaths(c)
  PROVE  \E r : /\ Shape(r) /\ call' = [call EXCEPT ![c] = r] /\ SlotStep(c, r)
                /\ r.at \in Stage /\ r.win = call[c].win
<1>0. call[c] \in Doings /\ Shape(call[c])
  BY DEF CallTyped
<1>1. PICK at \in {"expire", "span", "size"} :
        /\ call' = [call EXCEPT ![c] = [call[c] EXCEPT !.at = at]] /\ UNCHANGED inflight
        /\ at = "expire" => call[c].at = "count"
        /\ at # "expire" => call[c].at \in {"add", "span"}
  BY DEF Count, AddPath, SpanPaths, AtWork, slots
<1> DEFINE r == [call[c] EXCEPT !.at = at]
<1>2. Shape(r) /\ r.at \in Stage /\ r.win = call[c].win /\ r.slot = call[c].slot
  BY <1>0, <1>1 DEF Shape, Doings, Stage, Counting
<1> QED
  BY <1>1, <1>2 DEF SlotStep

LEMMA NodeFailsSlots ==
  ASSUME SlotInv, NEW m \in Node, NodeFails(m)
  PROVE  SlotInv'
<1>1. Shape(Resting) /\ Resting.slot = "none"
  BY DEF Shape, Resting, Doings, Stage, Kind, Window, Counting
<1>2. CallTyped' /\ \A c \in Call : call'[c] = IF NodeOf[c] = m THEN Resting ELSE call[c]
  BY <1>1 DEF SlotInv, CallTyped, NodeFails, Shape
<1>3. SlotTyped' /\ inflight'[m] = 0 /\ leaked'[m] = 0
      /\ \A n \in Node \ {m} : inflight'[n] = inflight[n] /\ leaked'[n] = leaked[n]
  BY DEF SlotInv, SlotTyped, NodeFails
<1>4. Holders(m)' = {} /\ \A n \in Node \ {m} : Holders(n)' = Holders(n)
  BY <1>1, <1>2 DEF Holders
<1>5. SlotsHold'
  <2> SUFFICES ASSUME NEW n \in Node
               PROVE inflight'[n] = leaked'[n] + Cardinality(Holders(n)') /\ inflight'[n] <= MaxHere
    BY DEF SlotsHold, Holders
  <2>1. inflight[n] = leaked[n] + Cardinality(Holders(n)) /\ inflight[n] <= MaxHere
    BY DEF SlotInv, SlotsHold, Holders
  <2>2. CASE n = m
    <3>1. Cardinality(Holders(m)') = 0
      BY <1>4, FS_EmptySet
    <3>2. 0 <= MaxHere
      BY ThrottleAssumption
    <3> QED
      BY <1>3, <2>2, <3>1, <3>2
  <2>3. CASE n # m
    BY <1>3, <1>4, <2>1, <2>3
  <2> QED
    BY <2>2, <2>3
<1> QED
  BY <1>2, <1>3, <1>5 DEF SlotInv

LEMMA CountGoes ==
  ASSUME CallTyped, WindowTyped, NEW c \in Call, Count(c), counter[call[c].win] + 1 # 1
  PROVE  \E r : Goes(c, r)
<1>1. call[c].win \in Window /\ call[c].at \in Counting /\ counter[call[c].win] + 1 \in Nat
  BY DEF CallTyped, Doings, WindowTyped, Count, AtWork, Counting
<1>2. Judged(c, call[c].win, counter[call[c].win] + 1)
  BY DEF Count
<1> QED
  BY <1>1, <1>2, JudgedGoes

LEMMA SetWindowGoes ==
  ASSUME CallTyped, NEW c \in Call, SetWindow(c)
  PROVE  \E r : Goes(c, r)
<1>1. call[c].win \in Window /\ call[c].at \in Counting
  BY DEF CallTyped, Doings, SetWindow, AtWork, Counting
<1>2. Judged(c, call[c].win, 1)
  BY DEF SetWindow
<1> QED
  BY <1>1, <1>2, JudgedGoes

LEMMA SlotsStep == SlotInv /\ WindowTyped /\ [ThrottleNext]_throttleVars => SlotInv'
<1> SUFFICES ASSUME SlotInv, WindowTyped, [ThrottleNext]_throttleVars PROVE SlotInv'
  OBVIOUS
<1>0. CallTyped
  BY DEF SlotInv
<1>1. ASSUME NEW c \in Call, \E r : Goes(c, r), UNCHANGED leaked PROVE SlotInv'
  BY <1>1, SlotsKept DEF Goes
<1>2. ASSUME NEW c \in Call, NEW kind \in Kind, Arrival(c, kind) PROVE SlotInv'
  BY <1>1, <1>2, ArrivalShape DEF Arrival, slots
<1>3. ASSUME NEW c \in Call, Ask(c) PROVE SlotInv'
  BY <1>0, <1>1, <1>3, AskGoes DEF Ask
<1>4. ASSUME NEW c \in Call, Count(c) PROVE SlotInv'
  <2>1. CASE counter[call[c].win] + 1 = 1
    BY <1>0, <1>4, <2>1, AtMoves, SlotsKept DEF Count
  <2>2. CASE counter[call[c].win] + 1 # 1
    BY <1>0, <1>1, <1>4, <2>2, CountGoes DEF Count
  <2> QED
    BY <2>1, <2>2
<1>5. ASSUME NEW c \in Call, SetWindow(c) PROVE SlotInv'
  BY <1>0, <1>1, <1>5, SetWindowGoes DEF SetWindow
<1>6. ASSUME NEW c \in Call, AddPath(c) \/ SpanPaths(c) PROVE SlotInv'
  BY <1>0, <1>6, AtMoves, SlotsKept DEF AddPath, SpanPaths, slots
<1>7. ASSUME NEW c \in Call, SizePaths(c) \/ Block(c) \/ Handle(c) PROVE SlotInv'
  BY <1>0, <1>1, <1>7, RestGoes DEF SizePaths, Block, Handle, slots
<1>8. ASSUME NEW c \in Call, Finish(c) PROVE SlotInv'
  BY <1>8, SlotGivenUp DEF Finish
<1>9. ASSUME NEW c \in Call, HangUp(c) PROVE SlotInv'
  BY <1>9, SlotGivenUp DEF HangUp
<1>10. ASSUME NEW c \in Call, MessageFails(c) PROVE SlotInv'
  <2>1. Shape(Resting) /\ Resting.slot = "none" /\ call[c].slot = "none"
    BY <1>0, <1>10 DEF MessageFails, CallTyped, Shape, Resting, Doings, Stage, Kind, Window, Counting
  <2>2. call' = [call EXCEPT ![c] = Resting] /\ UNCHANGED <<inflight, leaked>>
    BY <1>10 DEF MessageFails, slots
  <2> QED
    BY <2>1, <2>2, SlotsKept DEF SlotStep
<1>11. ASSUME NEW n \in Node, NodeFails(n) PROVE SlotInv'
  BY <1>11, NodeFailsSlots
<1>12. ASSUME (\E w \in Window : WindowEnds(w)) \/ BlockEnds \/ UNCHANGED throttleVars PROVE SlotInv'
  <2>1. UNCHANGED <<call, inflight, leaked>>
    BY <1>12 DEF WindowEnds, BlockEnds, throttleVars, slots
  <2> QED
    BY <2>1 DEF SlotInv, CallTyped, SlotTyped, SlotsHold
<1> QED
  BY <1>2, <1>3, <1>4, <1>5, <1>6, <1>7, <1>8, <1>9, <1>10, <1>11, <1>12 DEF ThrottleNext
-----------------------------------------------------------------------------
(* The windows.                                                            *)
Spans(c) == AtWork(c, "span")

LEMMA WindowsKept ==
  ASSUME WindowInv, CallTyped', UNCHANGED windows,
         \A c \in Call, w \in Window : Begins(c, w)' <=> Begins(c, w),
         \A c \in Call : Spans(c)' <=> Spans(c)
  PROVE  WindowInv'
<1>1. UNCHANGED <<counter, timed, passed, orphans>>
  BY DEF windows
<1>2. WindowTyped' /\ BegunOnce' /\ Begun' /\ Filled'
  BY <1>1 DEF WindowInv, WindowTyped, BegunOnce, Begun, Filled
<1>3. \A c \in Call, w \in Window : w \in Beginning(c)' <=> w \in Beginning(c)
  BY <1>1 DEF Beginning, Begins, Spans, AtWork
<1>4. Ends'
  BY <1>1, <1>3 DEF WindowInv, Ends
<1> QED
  BY <1>2, <1>4 DEF WindowInv

(* Nothing that a call goes on to is a beginning; the others stay put.     *)
LEMMA Elsewhere ==
  ASSUME NEW c \in Call, CallTyped, \E r : Goes(c, r)
  PROVE  /\ \A w \in Window : ~Begins(c, w)'
         /\ ~Spans(c)'
         /\ \A d \in Call \ {c}, w \in Window : Begins(d, w)' <=> Begins(d, w)
         /\ \A d \in Call \ {c} : Spans(d)' <=> Spans(d)
<1>1. PICK r : Goes(c, r)
  OBVIOUS
<1>2. call'[c] = r /\ \A d \in Call \ {c} : call'[d] = call[d]
  BY <1>1 DEF Goes, CallTyped
<1> QED
  BY <1>1, <1>2 DEF Goes, Begins, Spans, AtWork

LEMMA GoesKept ==
  ASSUME WindowInv, CallTyped', UNCHANGED windows, NEW c \in Call, \E r : Goes(c, r),
         call[c].at \notin {"expire", "span"}
  PROVE  WindowInv'
<1>1. \A w \in Window : ~Begins(c, w)
  BY DEF Begins, AtWork
<1>2. ~Spans(c)
  BY DEF Spans, AtWork
<1>3. CallTyped
  BY DEF WindowInv
<1>4. /\ \A d \in Call, w \in Window : Begins(d, w)' <=> Begins(d, w)
      /\ \A d \in Call : Spans(d)' <=> Spans(d)
  BY <1>1, <1>2, <1>3, Elsewhere
<1> QED
  BY <1>4, WindowsKept

LEMMA SlotGone ==
  ASSUME WindowInv, CallTyped', UNCHANGED windows, NEW c \in Call, call' = [call EXCEPT ![c].slot = "none"]
  PROVE  WindowInv'
<1>1. \A d \in Call : call'[d].at = call[d].at /\ call'[d].win = call[d].win
  BY DEF WindowInv, CallTyped, Doings
<1>2. /\ \A d \in Call, w \in Window : Begins(d, w)' <=> Begins(d, w)
      /\ \A d \in Call : Spans(d)' <=> Spans(d)
  BY <1>1 DEF Begins, Spans, AtWork
<1> QED
  BY <1>2, WindowsKept

(* The call that finds the counter at zero begins the window.              *)
LEMMA CountFirst ==
  ASSUME WindowInv, CallTyped', NEW c \in Call, Count(c), counter[call[c].win] + 1 = 1
  PROVE  WindowInv'
<1> DEFINE w == call[c].win
<1>1. call[c] \in Doings /\ Shape(call[c]) /\ call[c].at = "count" /\ w \in Window
  BY DEF WindowInv, CallTyped, Count, AtWork, Doings
<1>2. counter[w] = 0 /\ passed[w] = 0 /\ w \notin timed
  BY <1>1 DEF WindowInv, WindowTyped, Filled
<1>3. UNCHANGED <<timed, passed, orphans>> /\ counter' = [counter EXCEPT ![w] = 1]
      /\ call' = [call EXCEPT ![c].at = "expire"]
  BY DEF Count
<1>4. counter'[w] = 1 /\ \A v \in Window \ {w} : counter'[v] = counter[v]
  BY <1>1, <1>3 DEF WindowInv, WindowTyped
<1>5. call'[c].at = "expire" /\ call'[c].win = w /\ \A d \in Call \ {c} : call'[d] = call[d]
  BY <1>1, <1>3 DEF WindowInv, CallTyped, Doings
<1>6. /\ \A v \in Window : Begins(c, v)' <=> v = w
      /\ \A d \in Call \ {c}, v \in Window : (Begins(d, v)' <=> Begins(d, v)) /\ (Begins(d, v) => v # w)
  <2>1. \A d \in Call : ~Begins(d, w)
    BY <1>1, <1>2 DEF WindowInv, Begun
  <2> QED
    BY <1>5, <2>1 DEF Begins, AtWork
<1>7. WindowTyped'
  BY <1>1, <1>3 DEF WindowInv, WindowTyped
<1>8. BegunOnce'
  BY <1>6 DEF WindowInv, BegunOnce
<1>9. Begun'
  <2> SUFFICES ASSUME NEW d \in Call, NEW v \in Window, Begins(d, v)'
               PROVE  /\ v \notin timed /\ counter'[v] > passed[v]
                      /\ passed[v] < Allowed[v] \/ Allowed[v] = 0
    BY <1>3 DEF Begun
  <2>1. CASE d = c
    BY <1>2, <1>4, <1>6, <2>1, ThrottleAssumption
  <2>2. CASE d # c
    BY <1>4, <1>6, <2>2 DEF WindowInv, Begun
  <2> QED
    BY <2>1, <2>2
<1>10. Filled'
  BY <1>2, <1>3, <1>4 DEF WindowInv, Filled
<1>11. Ends'
  <2> SUFFICES ASSUME NEW v \in Window, counter'[v] > 0, v \notin timed \cup orphans
               PROVE  \E d \in Call : v \in Beginning(d)'
    BY <1>3 DEF Ends
  <2>1. CASE v = w
    BY <1>5, <2>1 DEF Beginning, AtWork
  <2>2. CASE v # w
    <3>1. PICK d \in Call : v \in Beginning(d)
      BY <1>4, <2>2 DEF WindowInv, Ends
    <3>2. d # c
      BY <1>1, <3>1 DEF Beginning, AtWork
    <3> QED
      BY <1>3, <1>5, <3>1, <3>2 DEF Beginning, AtWork
  <2> QED
    BY <2>1, <2>2
<1> QED
  BY <1>7, <1>8, <1>9, <1>10, <1>11 DEF WindowInv

(* The others are judged by the counter.                                   *)
LEMMA JudgedPassed ==
  ASSUME NEW c \in Call, NEW w \in Window, NEW val \in Nat, Judged(c, w, val), WindowTyped
  PROVE  /\ \A v \in Window \ {w} : passed'[v] = passed[v]
         /\ passed'[w] = passed[w] \/ (passed'[w] = passed[w] + 1 /\ val <= Allowed[w])
         /\ passed' \in [Window -> Nat]
BY DEF Judged, WindowTyped

LEMMA CountMore ==
  ASSUME WindowInv, CallTyped', NEW c \in Call, Count(c), counter[call[c].win] + 1 # 1
  PROVE  WindowInv'
<1> DEFINE w == call[c].win
<1>1. call[c] \in Doings /\ call[c].at = "count" /\ w \in Window
  BY DEF WindowInv, CallTyped, Count, AtWork, Doings
<1>2. counter[w] \in Nat /\ counter[w] > 0 /\ counter[w] + 1 \in Nat
  BY <1>1 DEF WindowInv, WindowTyped
<1>3. UNCHANGED <<timed, orphans>> /\ counter' = [counter EXCEPT ![w] = counter[w] + 1]
      /\ Judged(c, w, counter[w] + 1)
  BY DEF Count
<1>4. counter'[w] = counter[w] + 1 /\ \A v \in Window \ {w} : counter'[v] = counter[v]
  BY <1>1, <1>3 DEF WindowInv, WindowTyped
<1>5. /\ \A v \in Window \ {w} : passed'[v] = passed[v]
      /\ passed'[w] = passed[w] \/ (passed'[w] = passed[w] + 1 /\ counter[w] + 1 <= Allowed[w])
      /\ passed' \in [Window -> Nat]
  BY <1>1, <1>2, <1>3, JudgedPassed DEF WindowInv
<1>6. /\ \A v \in Window : ~Begins(c, v) /\ ~Begins(c, v)'
      /\ \A d \in Call \ {c}, v \in Window : Begins(d, v)' <=> Begins(d, v)
      /\ ~Spans(c) /\ ~Spans(c)'
      /\ \A d \in Call \ {c} : Spans(d)' <=> Spans(d)
  <2>1. \E r : Goes(c, r)
    BY CountGoes DEF WindowInv
  <2> QED
    BY <1>1, <2>1, Elsewhere DEF WindowInv, Begins, Spans, AtWork
<1>7. WindowTyped'
  BY <1>1, <1>2, <1>3, <1>5 DEF WindowInv, WindowTyped
<1>8. BegunOnce'
  BY <1>6 DEF WindowInv, BegunOnce
<1>9. \A v \in Window : passed[v] \in Nat /\ counter[v] \in Nat /\ Allowed[v] \in Nat
  BY ThrottleAssumption DEF WindowInv, WindowTyped
<1>10. Begun'
  <2> SUFFICES ASSUME NEW d \in Call, NEW v \in Window, Begins(d, v)'
               PROVE  /\ v \notin timed /\ counter'[v] > passed'[v]
                      /\ passed'[v] < Allowed[v] \/ Allowed[v] = 0
    BY <1>3 DEF Begun
  <2>1. /\ v \notin timed /\ counter[v] > passed[v]
        /\ passed[v] < Allowed[v] \/ Allowed[v] = 0
    BY <1>6 DEF WindowInv, Begun
  <2>2. CASE v = w
    BY <1>4, <1>5, <1>9, <2>1, <2>2
  <2>3. CASE v # w
    BY <1>4, <1>5, <2>1, <2>3
  <2> QED
    BY <2>2, <2>3
<1>11. Filled'
  <2> SUFFICES ASSUME NEW v \in Window
               PROVE  /\ passed'[v] <= Allowed[v] /\ passed'[v] <= counter'[v]
                      /\ v \in timed => counter'[v] > 0
    BY <1>3 DEF Filled
  <2>1. /\ passed[v] <= Allowed[v] /\ passed[v] <= counter[v]
        /\ v \in timed => counter[v] > 0
    BY DEF WindowInv, Filled
  <2>2. CASE v = w
    BY <1>4, <1>5, <1>9, <2>1, <2>2
  <2>3. CASE v # w
    BY <1>4, <1>5, <2>1, <2>3
  <2> QED
    BY <2>2, <2>3
<1>12. Ends'
  <2>1. \A d \in Call, v \in Window : v \in Beginning(d)' <=> v \in Beginning(d)
    BY <1>3, <1>6 DEF Beginning, Begins, Spans, AtWork
  <2>2. \A v \in Window : counter'[v] > 0 => counter[v] > 0
    BY <1>2, <1>4
  <2> QED
    BY <1>3, <2>1, <2>2 DEF WindowInv, Ends
<1> QED
  BY <1>7, <1>8, <1>10, <1>11, <1>12 DEF WindowInv

LEMMA SetWindowKeeps ==
  ASSUME WindowInv, CallTyped', NEW c \in Call, SetWindow(c)
  PROVE  WindowInv'
<1> DEFINE w == call[c].win
<1>1. call[c] \in Doings /\ call[c].at = "expire" /\ w \in Window /\ Begins(c, w)
  BY DEF WindowInv, CallTyped, SetWindow, AtWork, Doings, Begins
<1>2. UNCHANGED <<counter, orphans>> /\ timed' = timed \cup {w} /\ Judged(c, w, 1)
  BY DEF SetWindow
<1>3. /\ \A v \in Window \ {w} : passed'[v] = passed[v]
      /\ passed'[w] = passed[w] \/ (passed'[w] = passed[w] + 1 /\ 1 <= Allowed[w])
      /\ passed' \in [Window -> Nat]
  BY <1>1, <1>2, JudgedPassed DEF WindowInv
<1>4. \A d \in Call \ {c} : ~Begins(d, w)
  BY <1>1 DEF WindowInv, BegunOnce
<1>5. /\ \A v \in Window : ~Begins(c, v)'
      /\ \A d \in Call \ {c}, v \in Window : Begins(d, v)' <=> Begins(d, v)
      /\ ~Spans(c) /\ ~Spans(c)'
      /\ \A d \in Call \ {c} : Spans(d)' <=> Spans(d)
  <2>1. \E r : Goes(c, r)
    BY SetWindowGoes DEF WindowInv
  <2> QED
    BY <1>1, <2>1, Elsewhere DEF WindowInv, Spans, AtWork
<1>6. \A v \in Window : passed[v] \in Nat /\ counter[v] \in Nat /\ Allowed[v] \in Nat
  BY ThrottleAssumption DEF WindowInv, WindowTyped
<1>7. WindowTyped'
  BY <1>1, <1>2, <1>3 DEF WindowInv, WindowTyped
<1>8. BegunOnce'
  BY <1>5 DEF WindowInv, BegunOnce
<1>9. Begun'
  <2> SUFFICES ASSUME NEW d \in Call, NEW v \in Window, Begins(d, v)'
               PROVE  /\ v \notin timed' /\ counter[v] > passed'[v]
                      /\ passed'[v] < Allowed[v] \/ Allowed[v] = 0
    BY <1>2 DEF Begun
  <2>1. d # c /\ Begins(d, v) /\ v # w
    BY <1>4, <1>5
  <2> QED
    BY <1>2, <1>3, <2>1 DEF WindowInv, Begun
<1>10. Filled'
  <2> SUFFICES ASSUME NEW v \in Window
               PROVE  /\ passed'[v] <= Allowed[v] /\ passed'[v] <= counter[v]
                      /\ v \in timed' => counter[v] > 0
    BY <1>2 DEF Filled
  <2>1. CASE v = w
    <3>1. /\ counter[w] > passed[w] /\ passed[w] <= Allowed[w]
          /\ passed[w] < Allowed[w] \/ Allowed[w] = 0
      BY <1>1 DEF WindowInv, Begun, Filled
    <3> QED
      BY <1>3, <1>6, <2>1, <3>1
  <2>2. CASE v # w
    BY <1>2, <1>3, <2>2 DEF WindowInv, Filled
  <2> QED
    BY <2>1, <2>2
<1>11. Ends'
  <2> SUFFICES ASSUME NEW v \in Window, counter[v] > 0, v \notin timed' \cup orphans
               PROVE  \E d \in Call : v \in Beginning(d)'
    BY <1>2 DEF Ends
  <2>1. v # w /\ v \notin timed
    BY <1>2
  <2>2. PICK d \in Call : v \in Beginning(d)
    BY <2>1 DEF WindowInv, Ends
  <2>3. d # c
    BY <1>1, <2>1, <2>2 DEF Beginning, AtWork
  <2> QED
    BY <1>2, <1>5, <2>1, <2>2, <2>3 DEF Beginning, Begins, Spans, AtWork
<1> QED
  BY <1>7, <1>8, <1>9, <1>10, <1>11 DEF WindowInv

(* Steps that touch the window of paths only.                              *)
LEMMA PathsKeep ==
  ASSUME WindowInv, CallTyped', NEW c \in Call, AddPath(c) \/ SpanPaths(c)
  PROVE  WindowInv'
<1>1. PICK at \in {"span", "size"} :
        /\ call' = [call EXCEPT ![c].at = at] /\ call[c].at \in {"add", "span"}
        /\ at = "span" => AddPath(c)
        /\ at = "size" => SpanPaths(c)
  BY DEF AddPath, SpanPaths, AtWork
<1>2. call[c] \in Doings /\ call'[c].at = at /\ \A d \in Call \ {c} : call'[d] = call[d]
  BY <1>1 DEF WindowInv, CallTyped, Doings
<1>3. /\ \A v \in Window : ~Begins(c, v) /\ ~Begins(c, v)'
      /\ \A d \in Call, v \in Window : Begins(d, v)' <=> Begins(d, v)
  BY <1>1, <1>2 DEF Begins, AtWork
<1>4. "paths" \in Window /\ \A d \in Call : ~Begins(d, "paths")
  BY DEF WindowInv, CallTyped, Shape, Begins, AtWork, Counting, Window
<1>5. UNCHANGED <<passed, orphans>>
  BY DEF AddPath, SpanPaths
<1>6. /\ counter' \in [Window -> Nat] /\ \A v \in Window \ {"paths"} : counter'[v] = counter[v]
      /\ counter'["paths"] >= counter["paths"]
      /\ SpanPaths(c) => counter' = counter
  <2>1. CASE AddPath(c)
    <3>1. PICK same \in {0, 1} : /\ same <= counter["paths"]
                                 /\ counter' = [counter EXCEPT !["paths"] = counter["paths"] + 1 - same]
      BY <2>1 DEF AddPath
    <3>2. counter["paths"] + 1 - same \in Nat /\ counter["paths"] + 1 - same >= counter["paths"]
      BY <1>4 DEF WindowInv, WindowTyped
    <3>3. ~SpanPaths(c) \/ counter' = counter
      BY DEF SpanPaths
    <3> QED
      BY <1>4, <3>1, <3>2, <3>3 DEF WindowInv, WindowTyped
  <2>2. CASE SpanPaths(c)
    BY <1>4, <2>2 DEF SpanPaths, WindowInv, WindowTyped
  <2> QED
    BY <1>1, <2>1, <2>2
<1>7. /\ timed' = timed \/ (timed' = timed \cup {"paths"} /\ counter["paths"] > 0 /\ SpanPaths(c))
      /\ AddPath(c) => timed' = timed
      /\ SpanPaths(c) => "paths" \in timed' \/ ~(counter["paths"] > 0)
  BY DEF AddPath, SpanPaths
<1>8. WindowTyped'
  BY <1>4, <1>5, <1>6, <1>7 DEF WindowInv, WindowTyped
<1>9. BegunOnce'
  BY <1>3 DEF WindowInv, BegunOnce
<1>10. Begun'
  BY <1>3, <1>4, <1>5, <1>6, <1>7 DEF WindowInv, Begun
<1>11. Filled'
  <2> SUFFICES ASSUME NEW v \in Window
               PROVE  /\ passed[v] <= Allowed[v] /\ passed[v] <= counter'[v]
                      /\ v \in timed' => counter'[v] > 0
    BY <1>5 DEF Filled
  <2>1. /\ passed[v] <= Allowed[v] /\ passed[v] <= counter[v] /\ (v \in timed => counter[v] > 0)
        /\ passed[v] \in Nat /\ counter[v] \in Nat /\ counter'[v] \in Nat
    BY <1>6 DEF WindowInv, WindowTyped, Filled
  <2>2. CASE v = "paths"
    BY <1>6, <1>7, <2>1, <2>2
  <2>3. CASE v # "paths"
    BY <1>6, <1>7, <2>1, <2>3
  <2> QED
    BY <2>2, <2>3
<1>12. Ends'
  <2> SUFFICES ASSUME NEW v \in Window, counter'[v] > 0, v \notin timed' \cup orphans
               PROVE  \E d \in Call : v \in Beginning(d)'
    BY <1>5 DEF Ends
  <2>1. CASE v # "paths"
    <3>1. PICK d \in Call : v \in Beginning(d)
      BY <1>6, <1>7, <2>1 DEF WindowInv, Ends
    <3>2. Begins(d, v)
      BY <2>1, <3>1 DEF Beginning, Begins, AtWork
    <3>3. Begins(d, v)'
      BY <1>3, <3>2
    <3> QED
      BY <3>3 DEF Begins, Beginning, AtWork
  <2>2. CASE v = "paths" /\ AddPath(c)
    <3>1. call'[c].at = "span"
      BY <1>2, <2>2 DEF AddPath, AtWork, WindowInv, CallTyped
    <3> QED
      BY <2>2, <3>1 DEF Beginning, AtWork
  <2>3. CASE v = "paths" /\ SpanPaths(c)
    BY <1>6, <1>7, <2>3
  <2> QED
    BY <1>1, <2>1, <2>2, <2>3
<1> QED
  BY <1>8, <1>9, <1>10, <1>11, <1>12 DEF WindowInv

(* What is cut off leaves an orphan where it was beginning a window.       *)
LEMMA CutOff ==
  ASSUME WindowInv, CallTyped', UNCHANGED <<counter, timed, passed>>, NEW Gone \in SUBSET Call,
         call' = [c \in Call |-> IF c \in Gone THEN Resting ELSE call[c]],
         orphans' = orphans \cup UNION {Beginning(c) : c \in Gone}
  PROVE  WindowInv'
<1>1. \A c \in Call, w \in Window : Begins(c, w)' <=> Begins(c, w) /\ c \notin Gone
  BY DEF Begins, AtWork, Resting
<1>2. WindowTyped' /\ BegunOnce' /\ Begun' /\ Filled'
  BY <1>1 DEF WindowInv, WindowTyped, BegunOnce, Begun, Filled
<1>3. Ends'
  <2> SUFFICES ASSUME NEW w \in Window, counter[w] > 0, w \notin timed \cup orphans'
               PROVE  \E c \in Call : w \in Beginning(c)'
    BY DEF Ends
  <2>1. PICK c \in Call : w \in Beginning(c)
    BY DEF WindowInv, Ends
  <2>2. c \notin Gone
    BY <2>1
  <2>3. call'[c] = call[c]
    BY <2>2
  <2> QED
    BY <2>1, <2>3 DEF Beginning, AtWork
<1> QED
  BY <1>2, <1>3 DEF WindowInv

LEMMA FaultsKeep ==
  ASSUME WindowInv, CallTyped',
         \/ \E c \in Call : MessageFails(c)
         \/ \E n \in Node : NodeFails(n)
  PROVE  WindowInv'
<1>1. ASSUME NEW c \in Call, MessageFails(c) PROVE WindowInv'
  <2>1. call' = [d \in Call |-> IF d \in {c} THEN Resting ELSE call[d]]
    BY <1>1 DEF MessageFails, WindowInv, CallTyped
  <2>2. orphans' = orphans \cup UNION {Beginning(d) : d \in {c}}
    BY <1>1 DEF MessageFails
  <2> QED
    BY <1>1, <2>1, <2>2, CutOff DEF MessageFails
<1>2. ASSUME NEW n \in Node, NodeFails(n) PROVE WindowInv'
  <2> DEFINE Gone == {c \in Call : NodeOf[c] = n}
  <2>1. call' = [c \in Call |-> IF c \in Gone THEN Resting ELSE call[c]]
    BY <1>2 DEF NodeFails
  <2>2. orphans' = orphans \cup UNION {Beginning(c) : c \in Gone}
    BY <1>2 DEF NodeFails
  <2> QED
    BY <1>2, <2>1, <2>2, CutOff DEF NodeFails
<1> QED
  BY <1>1, <1>2

(* A window ends with its TTL: nobody is beginning it.                     *)
LEMMA WindowEndsKeeps ==
  ASSUME WindowInv, CallTyped', NEW w \in Window, WindowEnds(w)
  PROVE  WindowInv'
<1>1. /\ w \in timed /\ timed' = timed \ {w} /\ UNCHANGED <<orphans, call>>
      /\ counter'[w] = 0 /\ passed'[w] = 0
      /\ \A v \in Window \ {w} : counter'[v] = counter[v] /\ passed'[v] = passed[v]
  BY DEF WindowEnds, WindowInv, WindowTyped
<1>2. \A c \in Call, v \in Window : (Begins(c, v)' <=> Begins(c, v)) /\ (Begins(c, v) => v # w)
  BY <1>1 DEF Begins, AtWork, WindowInv, Begun
<1>3. WindowTyped'
  BY DEF WindowEnds, WindowInv, WindowTyped
<1>4. BegunOnce' /\ Begun'
  BY <1>1, <1>2 DEF WindowInv, BegunOnce, Begun
<1>5. Filled'
  BY <1>1, ThrottleAssumption DEF WindowInv, Filled
<1>6. Ends'
  BY <1>1 DEF WindowInv, Ends, Beginning, AtWork
<1> QED
  BY <1>3, <1>4, <1>5, <1>6 DEF WindowInv

LEMMA WindowStep == SlotInv /\ WindowInv /\ [ThrottleNext]_throttleVars => WindowInv'
<1> SUFFICES ASSUME SlotInv, WindowInv, [ThrottleNext]_throttleVars PROVE WindowInv'
  OBVIOUS
<1>0. CallTyped /\ CallTyped'
  BY SlotsStep DEF SlotInv, WindowInv
<1>1. ASSUME NEW c \in Call, NEW kind \in Kind, Arrival(c, kind) PROVE WindowInv'
  <2>1. UNCHANGED windows /\ call[c].at \notin {"expire", "span"}
    BY <1>1 DEF Arrival, Resting
  <2>2. \E r : Goes(c, r)
    BY <1>1, ArrivalShape
  <2> QED
    BY <1>0, <2>1, <2>2, GoesKept
<1>2. ASSUME NEW c \in Call, Ask(c) PROVE WindowInv'
  BY <1>0, <1>2, AskGoes, GoesKept DEF Ask, AtWork
<1>3. ASSUME NEW c \in Call, Count(c) PROVE WindowInv'
  BY <1>0, <1>3, CountFirst, CountMore
<1>4. ASSUME NEW c \in Call, SetWindow(c) PROVE WindowInv'
  BY <1>0, <1>4, SetWindowKeeps
<1>5. ASSUME NEW c \in Call, AddPath(c) \/ SpanPaths(c) PROVE WindowInv'
  BY <1>0, <1>5, PathsKeep
<1>6. ASSUME NEW c \in Call, SizePaths(c) \/ Block(c) \/ Handle(c) PROVE WindowInv'
  BY <1>0, <1>6, RestGoes, GoesKept DEF SizePaths, Block, Handle, AtWork
<1>7. ASSUME NEW c \in Call, Finish(c) \/ HangUp(c) PROVE WindowInv'
  BY <1>0, <1>7, SlotGone DEF Finish, HangUp
<1>8. ASSUME NEW c \in Call, MessageFails(c) PROVE WindowInv'
  BY <1>0, <1>8, FaultsKeep
<1>9. ASSUME NEW n \in Node, NodeFails(n) PROVE WindowInv'
  BY <1>0, <1>9, FaultsKeep
<1>10. ASSUME NEW w \in Window, WindowEnds(w) PROVE WindowInv'
  BY <1>0, <1>10, WindowEndsKeeps
<1>11. ASSUME BlockEnds \/ UNCHANGED throttleVars PROVE WindowInv'
  <2>1. UNCHANGED <<call, windows>>
    BY <1>11 DEF BlockEnds, throttleVars
  <2> QED
    BY <1>0, <2>1, WindowsKept DEF Begins, Spans, AtWork
<1> QED
  BY <1>1, <1>2, <1>3, <1>4, <1>5, <1>6, <1>7, <1>8, <1>9, <1>10, <1>11 DEF ThrottleNext
-----------------------------------------------------------------------------
(* Requests at work are counted exactly and bounded on every instance, for *)
(* any number of calls: the counter of one address in the middleware's     *)
(* memory is what it should be after refusals, hang-ups and crashes.       *)
THEOREM SlotsHoldAlways == ThrottleSpec => []SlotsHold
<1>1. ThrottleInit => SlotInv /\ WindowInv
  BY InitHolds
<1>2. SlotInv /\ WindowInv /\ [ThrottleNext]_throttleVars => (SlotInv /\ WindowInv)'
  BY SlotsStep, WindowStep DEF WindowInv
<1>3. SlotInv => SlotsHold
  BY DEF SlotInv
<1> QED
  BY <1>1, <1>2, <1>3, PTL DEF ThrottleSpec

(* No window lets more through than its limit, and none lasts for ever     *)
(* unless the call that began it was cut off before its EXPIRE.            *)
THEOREM WindowsHoldAlways == ThrottleSpec => []WindowsHold
<1>1. ThrottleInit => SlotInv /\ WindowInv
  BY InitHolds
<1>2. SlotInv /\ WindowInv /\ [ThrottleNext]_throttleVars => (SlotInv /\ WindowInv)'
  BY SlotsStep, WindowStep DEF WindowInv
<1>3. WindowInv => WindowsHold
  BY DEF WindowInv, WindowsHold, Filled, Ends
<1> QED
  BY <1>1, <1>2, <1>3, PTL DEF ThrottleSpec

-----------------------------------------------------------------------------
(* ------------------------------ Presence ------------------------------ *)

Person        == [ts : Nat, typing : BOOLEAN]
KeptRecord    == [ts : Nat, typing : BOOLEAN, till : Nat]
PageRecord    == [on : BOOLEAN, people : [User -> Person \cup {None}],
                  typing : SUBSET User, claims : SUBSET Claim]
PresenceEvent == [at : {"member", "record", "emit"}, type : {"presence"}, user : User,
                  ts : Nat, typing : BOOLEAN]
ClaimEvent    == [at : {"key", "list", "life", "emit"}, type : {"claimed"}, claim : Claim, ttl : Nat]
ReleaseEvent  == [at : {"check", "free", "emit"}, type : {"released"}, claim : Claim]
Event         == PresenceEvent \cup ClaimEvent \cup ReleaseEvent

(* A time at which user u was heard of: no later than his last accepted    *)
(* message, by ls, and less than the longer time to live before t.         *)
Recent(u, ts, ls, t) == /\ ls[u] \in Nat /\ ts \in Nat /\ ts <= ls[u] /\ ls[u] <= t
                        /\ t - ts < Horizon

PageFine(p, ls, t) ==
  /\ p \in PageRecord /\ p.typing \subseteq Shown(p)
  /\ \A u \in Shown(p) : Recent(u, p.people[u].ts, ls, t)

LEMMA HorizonFar ==
  /\ Horizon \in Nat \ {0} /\ PageTtl \in Nat \ {0} /\ PresenceTtl \in Nat \ {0}
  /\ PageTtl <= Horizon /\ PresenceTtl <= Horizon
BY PresenceAssumption DEF Horizon, Largest

(* A record lives no longer than its message is recent.                    *)
KeptFine(u, r, ls, t) ==
  r # None => r \in KeptRecord /\ Recent(u, r.ts, ls, t) /\ t < r.till
              /\ r.till <= r.ts + PresenceTtl

(* No tick comes while an event is handled or on its way.                  *)
EventFine(e, ls, t) ==
  \/ e \in PresenceEvent /\ e.ts = t /\ ls[e.user] = t
  \/ e \in ClaimEvent
  \/ e \in ReleaseEvent

TaskFine(c, e, ls, t) ==
  \/ e = Idle
  \/ e \in PresenceEvent /\ e.ts = t /\ ls[e.user] = t /\ e.user = UserOf[c]
  \/ e \in ClaimEvent
  \/ e \in ReleaseEvent

RecentInv ==
  /\ now \in Nat /\ lastSent \in [User -> Nat \cup {None}]
  /\ page \in [Client -> PageRecord]
  /\ \A c \in Client : PageFine(page[c], lastSent, now)
  /\ record \in [User -> KeptRecord \cup {None}]
  /\ \A u \in User : KeptFine(u, record[u], lastSent, now)
  /\ task \in [Client -> Event \cup {Idle}]
  /\ \A c \in Client : TaskFine(c, task[c], lastSent, now)
  /\ wire \in [Instance -> Seq(Event)]
  /\ \A i \in Instance : \A n \in 1..Len(wire[i]) : EventFine(wire[i][n], lastSent, now)

LEMMA NoneIsNoPerson ==
  ASSUME NEW ts \in Nat, NEW typing \in BOOLEAN
  PROVE  /\ [ts |-> ts, typing |-> typing] \in Person
         /\ [ts |-> ts, typing |-> typing] # None
<1>1. [ts |-> ts, typing |-> typing] \in Person
  BY DEF Person
<1> QED BY <1>1, PresenceAssumption DEF Person

LEMMA RecentInit == Init => RecentInv
<1> SUFFICES ASSUME Init PROVE RecentInv
  OBVIOUS
<1>1. now = 0 /\ lastSent = [u \in User |-> None] /\ record = [u \in User |-> None]
  BY DEF Init
<1>2. page \in [Client -> PageRecord] /\ \A c \in Client : PageFine(page[c], lastSent, now)
  <2>1. Blank \in PageRecord
    BY DEF Blank, PageRecord
  <2>2. Shown(Blank) = {} /\ Blank.typing = {}
    BY DEF Blank, Shown
  <2>3. page = [c \in Client |-> Blank]
    BY DEF Init
  <2> QED BY <2>1, <2>2, <2>3 DEF PageFine
<1>3. task \in [Client -> Event \cup {Idle}] /\ \A c \in Client : task[c] = Idle
  BY DEF Init
<1>4. wire \in [Instance -> Seq(Event)] /\ \A i \in Instance : Len(wire[i]) = 0
  BY DEF Init
<1>5. \A u \in User : KeptFine(u, record[u], lastSent, now)
  BY <1>1 DEF KeptFine
<1>6. \A c \in Client : TaskFine(c, task[c], lastSent, now)
  BY <1>3 DEF TaskFine
<1> QED BY <1>1, <1>2, <1>3, <1>4, <1>5, <1>6 DEF RecentInv
-----------------------------------------------------------------------------
(* What a page makes of what it is told                                    *)

LEMMA OnPresenceFine ==
  ASSUME NEW ls, NEW t \in Nat, NEW p, PageFine(p, ls, t),
         NEW e \in PresenceEvent, e.ts = t, ls[e.user] = t
  PROVE  PageFine(OnPresence(p, e), ls, t)
<1> DEFINE q == OnPresence(p, e)
           new == [ts |-> e.ts, typing |-> e.typing]
<1>1. /\ p \in PageRecord /\ p.typing \subseteq Shown(p)
      /\ \A u \in Shown(p) : Recent(u, p.people[u].ts, ls, t)
  BY DEF PageFine
<1>2. e.user \in User /\ e.ts \in Nat /\ e.typing \in BOOLEAN
  BY DEF PresenceEvent
<1>3. new \in Person /\ new # None /\ new.ts = t
  BY <1>2, NoneIsNoPerson
<1> HIDE DEF new
<1>4. /\ q.people = [p.people EXCEPT ![e.user] = new] /\ q.on = p.on /\ q.claims = p.claims
      /\ q.typing \subseteq p.typing \cup {e.user}
  BY <1>1 DEF OnPresence, PageRecord, new
<1>5. q \in PageRecord
  <2>1. q.people \in [User -> Person \cup {None}]
    BY <1>1, <1>3, <1>4 DEF PageRecord
  <2>2. q = [p EXCEPT !.people = q.people, !.typing = q.typing]
    BY <1>1 DEF OnPresence, PageRecord
  <2>3. q.typing \in SUBSET User
    BY <1>1, <1>2, <1>4 DEF PageRecord
  <2> HIDE DEF q
  <2> QED BY <1>1, <2>1, <2>2, <2>3 DEF PageRecord
<1>6. \A u \in User : q.people[u] = IF u = e.user THEN new ELSE p.people[u]
  BY <1>1, <1>4 DEF PageRecord
<1>7. Shown(q) = Shown(p) \cup {e.user}
  BY <1>2, <1>3, <1>6 DEF Shown
<1>8. ASSUME NEW u \in Shown(q) PROVE Recent(u, q.people[u].ts, ls, t)
  <2>1. CASE u = e.user
    BY <1>2, <1>3, <1>6, <2>1, HorizonFar DEF Recent
  <2>2. CASE u # e.user
    BY <1>1, <1>6, <1>7, <2>2 DEF Shown
  <2> QED BY <2>1, <2>2
<1> QED BY <1>1, <1>4, <1>5, <1>7, <1>8 DEF PageFine

(* What changes neither the people nor the typing marks.                   *)
LEMMA SamePeopleFine ==
  ASSUME NEW ls, NEW t, NEW p, PageFine(p, ls, t), NEW q \in PageRecord,
         q.people = p.people, q.typing = p.typing
  PROVE  PageFine(q, ls, t)
<1>1. Shown(q) = Shown(p)
  BY DEF Shown
<1> QED BY <1>1 DEF PageFine

LEMMA OnFine ==
  ASSUME NEW ls, NEW t \in Nat, NEW p, PageFine(p, ls, t), NEW e, EventFine(e, ls, t)
  PROVE  PageFine(On(p, e), ls, t)
<1>1. CASE e \in PresenceEvent /\ e.ts = t /\ ls[e.user] = t
  <2>1. On(p, e) = OnPresence(p, e)
    BY <1>1 DEF On, PresenceEvent
  <2> QED BY <1>1, <2>1, OnPresenceFine
<1>2. CASE e \in ClaimEvent
  <2>1. On(p, e) = [p EXCEPT !.claims = p.claims \cup {e.claim}]
    BY <1>2 DEF On, ClaimEvent, OnClaimed
  <2>2. p \in PageRecord /\ e.claim \in Claim
    BY <1>2 DEF PageFine, ClaimEvent
  <2>3. On(p, e) \in PageRecord /\ On(p, e).people = p.people /\ On(p, e).typing = p.typing
    BY <2>1, <2>2 DEF PageRecord
  <2> QED BY <2>3, SamePeopleFine
<1>3. CASE e \in ReleaseEvent
  <2>1. On(p, e) = [p EXCEPT !.claims = p.claims \ {e.claim}]
    BY <1>3 DEF On, ReleaseEvent, OnReleased
  <2>2. p \in PageRecord
    BY DEF PageFine
  <2>3. On(p, e) \in PageRecord /\ On(p, e).people = p.people /\ On(p, e).typing = p.typing
    BY <2>1, <2>2 DEF PageRecord
  <2> QED BY <2>3, SamePeopleFine
<1> QED BY <1>1, <1>2, <1>3 DEF EventFine

(* The list a joining page is sent.                                        *)
LEMMA OnListFine ==
  ASSUME NEW ls, NEW t, NEW p, PageFine(p, ls, t), NEW list,
         \A u \in User : list[u] # None => list[u] \in KeptRecord /\ Recent(u, list[u].ts, ls, t)
  PROVE  PageFine(OnList(p, list), ls, t)
<1> DEFINE q == OnList(p, list)
           person(u) == [ts |-> list[u].ts, typing |-> list[u].typing]
<1>1. /\ p \in PageRecord /\ p.typing \subseteq Shown(p)
      /\ \A u \in Shown(p) : Recent(u, p.people[u].ts, ls, t)
  BY DEF PageFine
<1>2. ASSUME NEW u \in User, list[u] # None
      PROVE  person(u) \in Person /\ person(u) # None /\ person(u).ts = list[u].ts
  <2>1. list[u].ts \in Nat /\ list[u].typing \in BOOLEAN
    BY <1>2 DEF KeptRecord
  <2> QED BY <2>1, NoneIsNoPerson
<1>3. q.people = [u \in User |-> IF list[u] = None THEN p.people[u] ELSE person(u)]
  BY <1>1 DEF OnList, PageRecord
<1>4. q.typing = p.typing
  BY <1>1 DEF OnList, PageRecord
<1>5. q = [p EXCEPT !.people = q.people]
  BY <1>1 DEF OnList, PageRecord
<1> HIDE DEF q, person
<1>6. q.people \in [User -> Person \cup {None}]
  BY <1>1, <1>2, <1>3 DEF PageRecord
<1>7. q \in PageRecord
  BY <1>1, <1>5, <1>6 DEF PageRecord
<1>8. \A u \in User : q.people[u] = IF list[u] = None THEN p.people[u] ELSE person(u)
  BY <1>3
<1>9. Shown(p) \subseteq Shown(q)
  BY <1>2, <1>8 DEF Shown
<1>10. ASSUME NEW u \in Shown(q) PROVE Recent(u, q.people[u].ts, ls, t)
  <2>1. u \in User /\ q.people[u] # None
    BY <1>10 DEF Shown
  <2>2. CASE list[u] = None
    BY <1>1, <1>8, <2>1, <2>2 DEF Shown
  <2>3. CASE list[u] # None
    BY <1>2, <1>8, <2>1, <2>3
  <2> QED BY <2>2, <2>3
<1> QED BY <1>1, <1>4, <1>7, <1>9, <1>10 DEF PageFine, q

(* The page's clean-up, and what is left after a tick.                     *)
LEMMA CleanFine ==
  ASSUME NEW ls, NEW t \in Nat, NEW w \in Nat, w >= t, NEW p, PageFine(p, ls, t)
  PROVE  PageFine(Clean(p, w), ls, w)
<1> DEFINE q == Clean(p, w)
           keep(u) == p.people[u] # None /\ w - p.people[u].ts < PageTtl
<1>1. /\ p \in PageRecord
      /\ \A u \in Shown(p) : Recent(u, p.people[u].ts, ls, t)
  BY DEF PageFine
<1>2. q.people = [u \in User |-> IF keep(u) THEN p.people[u] ELSE None] /\ q.typing = {}
  BY <1>1 DEF Clean, PageRecord
<1>3. q = [p EXCEPT !.people = q.people, !.typing = {}]
  BY <1>1 DEF Clean, PageRecord
<1> HIDE DEF q
<1>4. q.people \in [User -> Person \cup {None}]
  BY <1>1, <1>2 DEF PageRecord
<1>5. q \in PageRecord
  BY <1>1, <1>3, <1>4 DEF PageRecord
<1>6. ASSUME NEW u \in Shown(q) PROVE Recent(u, q.people[u].ts, ls, w)
  <2>1. u \in User /\ q.people[u] = p.people[u] /\ keep(u)
    BY <1>2, <1>6 DEF Shown
  <2>2. Recent(u, p.people[u].ts, ls, t)
    BY <1>1, <2>1 DEF Shown
  <2>3. p.people[u].ts \in Nat
    BY <2>2 DEF Recent
  <2> QED BY <2>1, <2>2, <2>3, HorizonFar DEF Recent
<1> QED BY <1>2, <1>5, <1>6 DEF PageFine, q

(* A new message of a user's only makes what is shown of him more recent.  *)
LEMMA LaterFine ==
  ASSUME NEW ls, NEW later, NEW t \in Nat, \A u \in User : later[u] = ls[u] \/ later[u] = t
  PROVE  /\ \A p : PageFine(p, ls, t) => PageFine(p, later, t)
         /\ \A r : \A u \in User : KeptFine(u, r, ls, t) => KeptFine(u, r, later, t)
         /\ \A e : EventFine(e, ls, t) => EventFine(e, later, t)
         /\ \A c, e : TaskFine(c, e, ls, t) => TaskFine(c, e, later, t)
<1>1. \A ts : \A u \in User : Recent(u, ts, ls, t) => Recent(u, ts, later, t)
  BY DEF Recent
<1>2. \A p : Shown(p) \subseteq User
  BY DEF Shown
<1>3. \A e \in PresenceEvent : ls[e.user] = t => later[e.user] = t
  BY DEF PresenceEvent
<1>4. \A p : PageFine(p, ls, t) => PageFine(p, later, t)
  BY <1>1, <1>2 DEF PageFine
<1>5. \A r : \A u \in User : KeptFine(u, r, ls, t) => KeptFine(u, r, later, t)
  BY <1>1 DEF KeptFine
<1>6. \A e : EventFine(e, ls, t) => EventFine(e, later, t)
  BY <1>3 DEF EventFine
<1>7. \A c, e : TaskFine(c, e, ls, t) => TaskFine(c, e, later, t)
  BY <1>3 DEF TaskFine
<1> QED BY <1>4, <1>5, <1>6, <1>7
-----------------------------------------------------------------------------
(* Steps                                                                   *)

LEMMA MovedOn ==
  ASSUME NEW c, NEW ls, NEW t, NEW e, TaskFine(c, e, ls, t), NEW a,
         \/ e.at \in {"member", "record"} /\ a \in {"record", "emit"}
         \/ e.at \in {"key", "list", "life"} /\ a \in {"list", "life", "emit"}
         \/ e.at \in {"check", "free"} /\ a \in {"free", "emit"}
  PROVE  /\ [e EXCEPT !.at = a] \in Event
         /\ TaskFine(c, [e EXCEPT !.at = a], ls, t)
<1> DEFINE f == [e EXCEPT !.at = a]
<1>1. e # Idle
  BY DEF Idle
<1>2. CASE e \in PresenceEvent /\ e.ts = t /\ ls[e.user] = t /\ e.user = UserOf[c]
  <2>1. f \in PresenceEvent /\ f.ts = e.ts /\ f.user = e.user
    BY <1>2 DEF PresenceEvent
  <2> QED BY <1>2, <2>1 DEF TaskFine, Event
<1>3. CASE e \in ClaimEvent
  <2>1. f \in ClaimEvent
    BY <1>3 DEF ClaimEvent
  <2> QED BY <2>1 DEF TaskFine, Event
<1>4. CASE e \in ReleaseEvent
  <2>1. f \in ReleaseEvent
    BY <1>4 DEF ReleaseEvent
  <2> QED BY <2>1 DEF TaskFine, Event
<1> QED BY <1>1, <1>2, <1>3, <1>4 DEF TaskFine

LEMMA RecentTask ==
  ASSUME RecentInv, UNCHANGED <<now, lastSent, page, record, wire>>, NEW c \in Client,
         NEW e \in Event \cup {Idle}, task' = [task EXCEPT ![c] = e],
         TaskFine(c, e, lastSent, now)
  PROVE  RecentInv'
<1>1. task' \in [Client -> Event \cup {Idle}]
  BY DEF RecentInv
<1>2. \A d \in Client : TaskFine(d, task'[d], lastSent, now)
  BY DEF RecentInv
<1> QED BY <1>1, <1>2 DEF RecentInv

LEMMA RecentMoved ==
  ASSUME RecentInv, UNCHANGED <<now, lastSent, page, record, wire>>, NEW c \in Client,
         NEW a, Step(c, a),
         \/ task[c].at \in {"member", "record"} /\ a \in {"record", "emit"}
         \/ task[c].at \in {"key", "list", "life"} /\ a \in {"list", "life", "emit"}
         \/ task[c].at \in {"check", "free"} /\ a \in {"free", "emit"}
  PROVE  RecentInv'
<1>1. TaskFine(c, task[c], lastSent, now)
  BY DEF RecentInv
<1>2. /\ [task[c] EXCEPT !.at = a] \in Event
      /\ TaskFine(c, [task[c] EXCEPT !.at = a], lastSent, now)
  BY <1>1, MovedOn
<1>3. task' = [task EXCEPT ![c] = [task[c] EXCEPT !.at = a]]
  BY DEF Step
<1> HIDE DEF Step
<1> QED BY <1>2, <1>3, RecentTask

(* A message is accepted: the only step that makes a user heard of.        *)
LEMMA RecentPost ==
  ASSUME RecentInv, NEW c \in Client, NEW typing \in BOOLEAN, Post(c, typing)
  PROVE  RecentInv'
<1> DEFINE e == [at |-> "member", type |-> "presence", user |-> UserOf[c], ts |-> now,
                 typing |-> typing]
<1>1. /\ task' = [task EXCEPT ![c] = e] /\ lastSent' = [lastSent EXCEPT ![UserOf[c]] = now]
      /\ UNCHANGED <<now, page, record, wire>>
  BY DEF Post, redis
<1>2. UserOf[c] \in User /\ now \in Nat
  BY PresenceAssumption DEF RecentInv
<1>3. e \in PresenceEvent /\ e.ts = now /\ e.user = UserOf[c]
  BY <1>2 DEF PresenceEvent
<1> HIDE DEF e
<1>4. /\ lastSent' \in [User -> Nat \cup {None}] /\ lastSent'[UserOf[c]] = now
      /\ \A u \in User : lastSent'[u] = lastSent[u] \/ lastSent'[u] = now
  BY <1>1, <1>2 DEF RecentInv
<1>5. /\ \A p : PageFine(p, lastSent, now) => PageFine(p, lastSent', now)
      /\ \A r : \A u \in User : KeptFine(u, r, lastSent, now) => KeptFine(u, r, lastSent', now)
      /\ \A m : EventFine(m, lastSent, now) => EventFine(m, lastSent', now)
      /\ \A d, m : TaskFine(d, m, lastSent, now) => TaskFine(d, m, lastSent', now)
  BY <1>2, <1>4, LaterFine
<1>6. \A d \in Client : PageFine(page'[d], lastSent', now')
  BY <1>1, <1>5 DEF RecentInv
<1>7. \A u \in User : KeptFine(u, record'[u], lastSent', now')
  BY <1>1, <1>5 DEF RecentInv
<1>8. \A i \in Instance : \A n \in 1..Len(wire'[i]) : EventFine(wire'[i][n], lastSent', now')
  BY <1>1, <1>5 DEF RecentInv
<1>9. \A d \in Client : TaskFine(d, task'[d], lastSent', now')
  <2>1. TaskFine(c, e, lastSent', now)
    BY <1>3, <1>4 DEF TaskFine
  <2>2. \A d \in Client : task'[d] = IF d = c THEN e ELSE task[d]
    BY <1>1 DEF RecentInv
  <2> QED BY <1>1, <1>5, <2>1, <2>2 DEF RecentInv
<1>10. task' \in [Client -> Event \cup {Idle}]
  BY <1>1, <1>3 DEF RecentInv, Event
<1> QED BY <1>1, <1>4, <1>6, <1>7, <1>8, <1>9, <1>10 DEF RecentInv

(* A message is handled further, or given up; or a claim is made.          *)
LEMMA RecentHandled ==
  ASSUME RecentInv, NEW c \in Client,
         \/ KeepMember(c) \/ KeepFails(c) \/ MakeClaim(c) \/ KeepClaim(c) \/ ListClaim(c)
         \/ Extend(c)
         \/ Release(c) \/ CheckOwner(c) \/ FreeClaim(c) \/ ClaimFails(c)
  PROVE  RecentInv'
<1>1. UNCHANGED <<now, lastSent, page, record, wire>>
  BY DEF KeepMember, KeepFails, MakeClaim, KeepClaim, ListClaim, Extend, Release, CheckOwner, FreeClaim,
         ClaimFails, redis, count
<1>2. CASE MakeClaim(c)
  <2>1. PICK ttl \in ClaimTtls :
          task' = [task EXCEPT ![c] =
                     [at |-> "key", type |-> "claimed", claim |-> done.sends + 1, ttl |-> ttl]]
    BY <1>2 DEF MakeClaim
  <2>2. done.sends + 1 \in Claim /\ ttl \in Nat
    BY <1>2, PresenceAssumption DEF MakeClaim
  <2>3. [at |-> "key", type |-> "claimed", claim |-> done.sends + 1, ttl |-> ttl] \in ClaimEvent
    BY <2>2 DEF ClaimEvent
  <2> QED BY <1>1, <2>1, <2>3, RecentTask DEF TaskFine, Event
<1>3. CASE Release(c)
  <2>1. PICK k \in Claim :
          task' = [task EXCEPT ![c] = [at |-> "check", type |-> "released", claim |-> k]]
    BY <1>3 DEF Release
  <2>2. [at |-> "check", type |-> "released", claim |-> k] \in ReleaseEvent
    BY DEF ReleaseEvent
  <2> QED BY <1>1, <2>1, <2>2, RecentTask DEF TaskFine, Event
<1>4. CASE KeepMember(c)
  BY <1>1, <1>4, RecentMoved DEF KeepMember
<1>5. CASE KeepFails(c)
  BY <1>1, <1>5, RecentMoved DEF KeepFails
<1>6. CASE KeepClaim(c)
  BY <1>1, <1>6, RecentMoved DEF KeepClaim
<1>7. CASE ListClaim(c)
  BY <1>1, <1>7, RecentMoved DEF ListClaim
<1>11. CASE Extend(c)
  BY <1>1, <1>11, RecentMoved DEF Extend
<1>8. CASE CheckOwner(c)
  <2>1. task[c].at = "check" /\ (Step(c, "free") \/ Step(c, "emit"))
    BY <1>8 DEF CheckOwner
  <2> QED BY <1>1, <2>1, RecentMoved
<1>9. CASE FreeClaim(c)
  BY <1>1, <1>9, RecentMoved DEF FreeClaim
<1>10. CASE ClaimFails(c)
  BY <1>1, <1>10, RecentMoved DEF ClaimFails
<1> QED BY <1>2, <1>3, <1>4, <1>5, <1>6, <1>7, <1>8, <1>9, <1>10, <1>11

(* A presence message is recorded: the record is as recent as it, and lives *)
(* for as long as it is recent.                                            *)
LEMMA RecentRecorded ==
  ASSUME RecentInv, NEW c \in Client, KeepRecord(c)
  PROVE  RecentInv'
<1> DEFINE u == UserOf[c]
           new == [ts |-> task[c].ts, typing |-> task[c].typing, till |-> now + PresenceTtl]
<1>1. /\ task[c].at = "record" /\ Step(c, "emit") /\ record' = [record EXCEPT ![u] = new]
      /\ UNCHANGED <<now, lastSent, page, wire>>
  BY DEF KeepRecord, count
<1>2. u \in User /\ now \in Nat /\ PresenceTtl \in Nat \ {0}
  BY PresenceAssumption DEF RecentInv
<1>3. TaskFine(c, task[c], lastSent, now)
  BY DEF RecentInv
<1>4. /\ task[c] \in PresenceEvent /\ task[c].ts = now /\ lastSent[task[c].user] = now
      /\ task[c].user = u
  BY <1>1, <1>3 DEF TaskFine, Idle, ClaimEvent, ReleaseEvent
<1>5. new \in KeptRecord /\ new.ts = now /\ new.till = now + PresenceTtl
  BY <1>2, <1>4 DEF PresenceEvent, KeptRecord
<1> HIDE DEF new
<1>6. KeptFine(u, new, lastSent, now)
  BY <1>2, <1>4, <1>5, HorizonFar DEF KeptFine, Recent
<1>7. /\ [task[c] EXCEPT !.at = "emit"] \in Event
      /\ TaskFine(c, [task[c] EXCEPT !.at = "emit"], lastSent, now)
  BY <1>1, <1>3, MovedOn
<1>8. task' = [task EXCEPT ![c] = [task[c] EXCEPT !.at = "emit"]]
  BY <1>1 DEF Step
<1> HIDE DEF u
<1>9. record' \in [User -> KeptRecord \cup {None}]
  BY <1>1, <1>2, <1>5 DEF RecentInv
<1>10. \A v \in User : KeptFine(v, record'[v], lastSent', now')
  BY <1>1, <1>2, <1>6 DEF RecentInv
<1> DEFINE moved == [task[c] EXCEPT !.at = "emit"]
<1> HIDE DEF moved
<1>11. task' = [task EXCEPT ![c] = moved] /\ moved \in Event
       /\ TaskFine(c, moved, lastSent, now)
  BY <1>7, <1>8 DEF moved
<1>12. task' \in [Client -> Event \cup {Idle}]
  BY <1>11 DEF RecentInv
<1>13. \A d \in Client : TaskFine(d, task'[d], lastSent', now')
  BY <1>1, <1>11 DEF RecentInv
<1> QED BY <1>1, <1>9, <1>10, <1>12, <1>13 DEF RecentInv

(* Pages that are told of an event stay as they should be.                 *)
LEMMA HeardFine ==
  ASSUME RecentInv, NEW i, NEW e, EventFine(e, lastSent, now), NEW except
  PROVE  /\ Heard(i, e, except) \in [Client -> PageRecord]
         /\ \A c \in Client : PageFine(Heard(i, e, except)[c], lastSent, now)
<1>1. now \in Nat /\ \A c \in Client : PageFine(page[c], lastSent, now)
  BY DEF RecentInv
<1>2. \A c \in Client : PageFine(On(page[c], e), lastSent, now)
  BY <1>1, OnFine
<1>3. \A c \in Client : \/ Heard(i, e, except)[c] = On(page[c], e)
                        \/ Heard(i, e, except)[c] = page[c]
  BY DEF Heard
<1>4. \A c \in Client : PageFine(Heard(i, e, except)[c], lastSent, now)
  BY <1>1, <1>2, <1>3
<1>5. \A c \in Client : Heard(i, e, except)[c] \in PageRecord
  BY <1>4 DEF PageFine
<1>6. Heard(i, e, except) = [c \in Client |-> Heard(i, e, except)[c]]
  BY DEF Heard
<1> QED BY <1>4, <1>5, <1>6

LEMMA RecentReceived ==
  ASSUME RecentInv, NEW i \in Instance, Receive(i)
  PROVE  RecentInv'
<1>1. /\ wire[i] # <<>> /\ wire' = [wire EXCEPT ![i] = Tail(wire[i])]
      /\ page' = Heard(i, Head(wire[i]), None) \/ page' = page
      /\ UNCHANGED <<now, lastSent, record, task>>
  BY DEF Receive, redis
<1>2. wire[i] \in Seq(Event) /\ \A n \in 1..Len(wire[i]) : EventFine(wire[i][n], lastSent, now)
  BY DEF RecentInv
<1>3. /\ Head(wire[i]) = wire[i][1] /\ 1 \in 1..Len(wire[i])
      /\ Tail(wire[i]) \in Seq(Event) /\ Len(Tail(wire[i])) = Len(wire[i]) - 1
      /\ \A n \in 1..Len(Tail(wire[i])) : Tail(wire[i])[n] = wire[i][n + 1]
  BY <1>1, <1>2, HeadTailProperties
<1>4. EventFine(Head(wire[i]), lastSent, now)
  BY <1>2, <1>3
<1>5. /\ page' \in [Client -> PageRecord]
      /\ \A c \in Client : PageFine(page'[c], lastSent, now)
  <2>1. CASE page' = page
    BY <2>1 DEF RecentInv
  <2>2. CASE page' = Heard(i, Head(wire[i]), None)
    BY <1>4, <2>2, HeardFine
  <2> QED BY <1>1, <2>1, <2>2
<1>6. \A n \in 1..Len(Tail(wire[i])) : EventFine(Tail(wire[i])[n], lastSent, now)
  <2>1. \A n \in 1..Len(Tail(wire[i])) : n + 1 \in 1..Len(wire[i])
    BY <1>2, <1>3, LenProperties
  <2> QED BY <1>2, <1>3, <2>1
<1>7. wire' \in [Instance -> Seq(Event)]
  BY <1>1, <1>3 DEF RecentInv
<1>8. \A j \in Instance : \A n \in 1..Len(wire'[j]) : EventFine(wire'[j][n], lastSent, now)
  BY <1>1, <1>6 DEF RecentInv
<1> QED BY <1>1, <1>5, <1>7, <1>8 DEF RecentInv

LEMMA RecentTold ==
  ASSUME RecentInv, NEW c \in Client, Tell(c)
  PROVE  RecentInv'
<1> DEFINE e == task[c]
<1>1. /\ e.at = "emit" /\ task' = [task EXCEPT ![c] = Idle]
      /\ Emit(c, e) \/ UNCHANGED <<page, wire>>
      /\ UNCHANGED <<now, lastSent, record>>
  BY DEF Tell, redis
<1>2. TaskFine(c, e, lastSent, now) /\ e \in Event \cup {Idle}
  BY DEF RecentInv
<1>3. e \in Event /\ EventFine(e, lastSent, now)
  BY <1>1, <1>2 DEF TaskFine, Idle, EventFine
<1> HIDE DEF e
<1>4. task' \in [Client -> Event \cup {Idle}] /\ \A d \in Client : TaskFine(d, task'[d], lastSent, now)
  BY <1>1 DEF RecentInv, TaskFine
<1>5. /\ page' \in [Client -> PageRecord]
      /\ \A d \in Client : PageFine(page'[d], lastSent, now)
  <2>1. CASE UNCHANGED <<page, wire>>
    BY <2>1 DEF RecentInv
  <2>2. CASE Emit(c, e)
    <3>1. page' = Heard(Home[c], e, c)
      BY <2>2 DEF Emit
    <3> QED BY <1>3, <3>1, HeardFine
  <2> QED BY <1>1, <2>1, <2>2
<1>6. /\ wire' \in [Instance -> Seq(Event)]
      /\ \A i \in Instance : wire'[i] = wire[i] \/ wire'[i] = Append(wire[i], e)
  <2>1. CASE wire' = wire
    BY <2>1 DEF RecentInv
  <2>2. CASE wire' = [i \in Instance |-> IF i = Home[c] THEN wire[i] ELSE Append(wire[i], e)]
    <3>1. \A i \in Instance : wire[i] \in Seq(Event) /\ Append(wire[i], e) \in Seq(Event)
      BY <1>3, AppendProperties DEF RecentInv
    <3> QED BY <2>2, <3>1
  <2> QED BY <1>1, <2>1, <2>2 DEF Emit
<1>7. ASSUME NEW i \in Instance, NEW n \in 1..Len(wire'[i])
      PROVE  EventFine(wire'[i][n], lastSent, now)
  <2>1. wire[i] \in Seq(Event) /\ \A m \in 1..Len(wire[i]) : EventFine(wire[i][m], lastSent, now)
    BY DEF RecentInv
  <2>2. CASE wire'[i] = wire[i]
    BY <1>7, <2>1, <2>2
  <2>3. CASE wire'[i] = Append(wire[i], e)
    <3>1. /\ Len(Append(wire[i], e)) = Len(wire[i]) + 1
          /\ Append(wire[i], e)[Len(wire[i]) + 1] = e
          /\ \A m \in 1..Len(wire[i]) : Append(wire[i], e)[m] = wire[i][m]
      BY <1>3, <2>1, AppendProperties
    <3>2. n \in 1..Len(wire[i]) \/ n = Len(wire[i]) + 1
      BY <1>7, <2>1, <2>3, <3>1, LenProperties
    <3> QED BY <1>3, <2>1, <2>3, <3>1, <3>2
  <2> QED BY <1>6, <2>2, <2>3
<1> QED BY <1>1, <1>4, <1>5, <1>6, <1>7 DEF RecentInv
-----------------------------------------------------------------------------
(* What was done, what a joining page is owed, and the sets in Redis       *)

Kinds    == {"sends", "joins", "leaves", "faults"}
JoinTask == {Idle} \cup [at : {"members", "claimSet"}, got : {{}}]
                   \cup [at : {"people"}, got : SUBSET User]
                   \cup [at : {"claims"}, got : SUBSET Claim]

CountInv == /\ done \in [Kinds -> Nat] /\ load \in Loads
            /\ \A what \in Kinds : done[what] <= load[what]
            /\ now \in 0..load.time

StoreInv == /\ members \in [all : SUBSET User, till : Nat \cup {None}]
            /\ claimSet \in [all : SUBSET Claim, till : Nat \cup {None}]
            /\ joining \in [Client -> JoinTask]

LEMMA CountStarts == Init => CountInv
<1> SUFFICES ASSUME Init PROVE CountInv
  OBVIOUS
<1>1. load \in Loads /\ done = [sends |-> 0, joins |-> 0, leaves |-> 0, faults |-> 0]
  BY DEF Init
<1>2. {load.sends, load.joins, load.leaves, load.faults, load.time} \subseteq Nat /\ now = 0
  BY <1>1, PresenceAssumption DEF Init
<1>3. done = [what \in Kinds |-> 0]
  BY <1>1 DEF Kinds
<1>4. \A what \in Kinds : 0 <= load[what]
  BY <1>2 DEF Kinds
<1> QED BY <1>1, <1>2, <1>3, <1>4 DEF CountInv

LEMMA CountStays == CountInv /\ [Next]_vars => CountInv'
<1> SUFFICES ASSUME CountInv, [Next]_vars PROVE CountInv'
  OBVIOUS
<1>1. /\ load' = load /\ (UNCHANGED done \/ \E what \in Kinds : More(what))
      /\ Tick \/ now' = now
  <2>1. CASE Tick \/ UNCHANGED vars \/ \E i \in Instance : Receive(i)
    BY <2>1 DEF Tick, Receive, Fault, Kinds, count, vars
  <2>2. CASE \E c \in Client :
               \/ Move(c) \/ Key(c) \/ KeepMember(c) \/ KeepRecord(c) \/ KeepFails(c) \/ Tell(c)
               \/ MakeClaim(c) \/ KeepClaim(c) \/ ListClaim(c) \/ Extend(c) \/ Release(c) \/ CheckOwner(c)
               \/ FreeClaim(c) \/ ClaimFails(c)
    BY <2>2 DEF Move, Key, Post, May, KeepMember, KeepRecord, KeepFails, Tell, Emit, MakeClaim,
                KeepClaim, ListClaim, Extend, Release, CheckOwner, FreeClaim, ClaimFails, Fault, Kinds,
                count
  <2>3. CASE \E c \in Client :
               \/ Join(c) \/ ReadMembers(c) \/ SendPeople(c) \/ ReadClaimSet(c) \/ SendClaims(c)
               \/ JoinFails(c) \/ Leave(c) \/ DropMember(c) \/ DropRecord(c) \/ DropFails(c)
    BY <2>3 DEF Join, ReadMembers, SendPeople, ReadClaimSet, SendClaims, JoinFails, Leave,
                DropMember, DropRecord, DropFails, JoinStep, Fault, Kinds, count
  <2> QED BY <2>1, <2>2, <2>3 DEF Next
<1>2. now' \in 0..load'.time
  <2>1. now \in 0..load.time /\ load.time \in Nat
    BY PresenceAssumption DEF CountInv
  <2>2. CASE Tick
    BY <1>1, <2>1, <2>2 DEF Tick
  <2>3. CASE now' = now
    BY <1>1, <2>1, <2>3
  <2> QED BY <1>1, <2>2, <2>3
<1>3. CASE UNCHANGED done
  BY <1>1, <1>2, <1>3 DEF CountInv
<1>4. CASE \E what \in Kinds : More(what)
  <2>1. PICK what \in Kinds : More(what)
    BY <1>4
  <2>2. /\ load[what] \in Nat /\ done[what] \in Nat /\ done[what] < load[what]
        /\ done' = [done EXCEPT ![what] = done[what] + 1]
    BY <2>1, PresenceAssumption DEF CountInv, Kinds, More
  <2> QED BY <1>1, <1>2, <2>2 DEF CountInv
<1> QED BY <1>1, <1>3, <1>4

LEMMA StoreInit == Init => StoreInv
<1> SUFFICES ASSUME Init PROVE StoreInv
  OBVIOUS
<1>1. members = Empty /\ claimSet = Empty
      /\ joining = [c \in Client |-> Idle]
  BY DEF Init
<1> QED BY <1>1 DEF StoreInv, JoinTask, Empty

LEMMA StoreJoins ==
  ASSUME StoreInv, UNCHANGED <<members, claimSet>>, NEW c \in Client, NEW j \in JoinTask,
         joining' = [joining EXCEPT ![c] = j]
  PROVE  StoreInv'
BY DEF StoreInv

LEMMA StoreStays ==
  ASSUME StoreInv, RecentInv, [Next]_vars
  PROVE  StoreInv'
<1>1. CASE UNCHANGED <<members, claimSet, joining>>
  BY <1>1 DEF StoreInv
<1>2. CASE Tick
  <2>1. now' \in Nat /\ joining' = joining /\ members' = Lapse(members, now')
        /\ claimSet' = Lapse(claimSet, now')
    BY <1>2 DEF Tick, RecentInv
  <2> QED BY <2>1 DEF StoreInv, Lapse, Empty
<1>3. ASSUME NEW c \in Client, KeepMember(c) PROVE StoreInv'
  <2>1. /\ members' = [all |-> members.all \cup {UserOf[c]}, till |-> now + PresenceTtl]
        /\ UNCHANGED <<claimSet, joining>>
    BY <1>3 DEF KeepMember
  <2>2. UserOf[c] \in User /\ now + PresenceTtl \in Nat
    BY PresenceAssumption DEF RecentInv
  <2> QED BY <2>1, <2>2 DEF StoreInv
<1>4. ASSUME NEW c \in Client, ListClaim(c) \/ Extend(c) PROVE StoreInv'
  <2>1. task[c].at \in {"list", "life"} /\ UNCHANGED <<members, joining>>
    BY <1>4 DEF ListClaim, Extend
  <2>2. TaskFine(c, task[c], lastSent, now)
    BY DEF RecentInv
  <2>3. task[c] \in ClaimEvent
    BY <2>1, <2>2 DEF TaskFine, Idle, PresenceEvent, ReleaseEvent
  <2>4. task[c].claim \in Claim /\ now + Largest(task[c].ttl, SetFloor) \in Nat
    BY <2>3, PresenceAssumption DEF ClaimEvent, Largest, RecentInv
  <2> DEFINE end == now + Largest(task[c].ttl, SetFloor)
  <2>5. \/ claimSet' = [claimSet EXCEPT !.all = claimSet.all \cup {task[c].claim}]
        \/ claimSet' = claimSet \/ claimSet' = [claimSet EXCEPT !.till = end]
    BY <1>4 DEF ListClaim, Extend
  <2> HIDE DEF end
  <2> QED BY <2>1, <2>4, <2>5 DEF StoreInv, end
<1>5. ASSUME NEW c \in Client, FreeClaim(c) PROVE StoreInv'
  <2>1. /\ \E rest \in SUBSET claimSet.all :
             claimSet' = Empty \/ claimSet' = [claimSet EXCEPT !.all = rest]
        /\ UNCHANGED <<members, joining>>
    BY <1>5 DEF FreeClaim
  <2> QED BY <2>1 DEF StoreInv, Empty
<1>6. ASSUME NEW c \in Client, DropMember(c) PROVE StoreInv'
  BY <1>6 DEF DropMember, StoreInv
<1>7. ASSUME NEW c \in Client, Join(c) \/ SendPeople(c) \/ SendClaims(c) \/ JoinFails(c)
      PROVE  StoreInv'
  <2>1. UNCHANGED <<members, claimSet>>
    BY <1>7 DEF Join, SendPeople, SendClaims, JoinFails, JoinStep, redis
  <2>2. \E j \in {Idle, [at |-> "members", got |-> {}], [at |-> "claimSet", got |-> {}]} :
           joining' = [joining EXCEPT ![c] = j]
    BY <1>7 DEF Join, SendPeople, SendClaims, JoinFails, JoinStep
  <2>3. {Idle, [at |-> "members", got |-> {}], [at |-> "claimSet", got |-> {}]} \subseteq JoinTask
    BY DEF JoinTask
  <2> QED BY <2>1, <2>2, <2>3, StoreJoins
<1>8. ASSUME NEW c \in Client, ReadMembers(c) PROVE StoreInv'
  <2>1. /\ UNCHANGED <<members, claimSet>>
        /\ joining' = [joining EXCEPT ![c] = [at |-> "people", got |-> members.all]]
    BY <1>8 DEF ReadMembers, JoinStep, redis
  <2>2. [at |-> "people", got |-> members.all] \in JoinTask
    BY DEF StoreInv, JoinTask
  <2> QED BY <2>1, <2>2, StoreJoins
<1>9. ASSUME NEW c \in Client, ReadClaimSet(c) PROVE StoreInv'
  <2>1. /\ UNCHANGED <<members, claimSet>>
        /\ joining' = [joining EXCEPT ![c] = [at |-> "claims", got |-> claimSet.all]]
    BY <1>9 DEF ReadClaimSet, JoinStep, redis
  <2>2. [at |-> "claims", got |-> claimSet.all] \in JoinTask
    BY DEF StoreInv, JoinTask
  <2> QED BY <2>1, <2>2, StoreJoins
<1>10. CASE UNCHANGED vars
  BY <1>10 DEF vars, redis, StoreInv
<1>11. ASSUME NEW i \in Instance, Receive(i) PROVE StoreInv'
  BY <1>11, <1>1 DEF Receive, redis
<1>12. ASSUME NEW c \in Client,
              \/ Move(c) \/ Key(c) \/ KeepRecord(c) \/ KeepFails(c) \/ Tell(c) \/ MakeClaim(c)
              \/ KeepClaim(c) \/ Release(c) \/ CheckOwner(c) \/ ClaimFails(c) \/ Leave(c)
              \/ DropRecord(c) \/ DropFails(c)
       PROVE  StoreInv'
  BY <1>12, <1>1 DEF Move, Key, Post, KeepRecord, KeepFails, Tell, MakeClaim, KeepClaim, Release,
                     CheckOwner, ClaimFails, Leave, DropRecord, DropFails, redis
<1> QED BY <1>2, <1>3, <1>4, <1>5, <1>6, <1>7, <1>8, <1>9, <1>10, <1>11, <1>12 DEF Next

(* Joining and leaving, with what is read and deleted in Redis meanwhile.  *)
LEMMA RecentJoins ==
  ASSUME RecentInv, StoreInv, NEW c \in Client,
         \/ Join(c) \/ ReadMembers(c) \/ SendPeople(c) \/ ReadClaimSet(c) \/ SendClaims(c)
         \/ JoinFails(c) \/ Leave(c)
  PROVE  RecentInv'
<1>1. UNCHANGED <<now, lastSent, record, task, wire>>
  BY DEF Join, ReadMembers, SendPeople, ReadClaimSet, SendClaims, JoinFails, Leave, JoinStep,
         redis, count
<1>2. now \in Nat /\ page \in [Client -> PageRecord] /\ PageFine(page[c], lastSent, now)
  BY DEF RecentInv
<1>3. page[c] \in PageRecord
  BY <1>2
<1>4. SUFFICES ASSUME page' # page
               PROVE  \E q : page' = [page EXCEPT ![c] = q] /\ PageFine(q, lastSent, now)
  <2>1. CASE page' = page
    BY <1>1, <2>1 DEF RecentInv
  <2>2. CASE \E q : page' = [page EXCEPT ![c] = q] /\ PageFine(q, lastSent, now)
    <3>1. PICK q : page' = [page EXCEPT ![c] = q] /\ PageFine(q, lastSent, now)
      BY <2>2
    <3>2. page' \in [Client -> PageRecord]
      BY <1>2, <3>1 DEF PageFine
    <3>3. \A d \in Client : PageFine(page'[d], lastSent, now)
      BY <3>1 DEF RecentInv
    <3> QED BY <1>1, <3>2, <3>3 DEF RecentInv
  <2> QED BY <2>1, <2>2
<1>5. CASE Join(c)
  <2> DEFINE q == [page[c] EXCEPT !.on = TRUE]
  <2>1. page' = [page EXCEPT ![c] = q]
    BY <1>5 DEF Join
  <2>2. q \in PageRecord /\ q.people = page[c].people /\ q.typing = page[c].typing
    BY <1>3 DEF PageRecord
  <2> HIDE DEF q
  <2> QED BY <1>2, <2>1, <2>2, SamePeopleFine
<1>6. CASE SendPeople(c)
  <2> DEFINE list == Listed(joining[c].got)
  <2>1. \A u \in User : list[u] # None => list[u] = record[u]
    BY DEF Listed
  <2>2. \A u \in User : KeptFine(u, record[u], lastSent, now)
    BY DEF RecentInv
  <2>3. \A u \in User : list[u] # None => list[u] \in KeptRecord /\ Recent(u, list[u].ts, lastSent, now)
    BY <2>1, <2>2 DEF KeptFine
  <2>4. page' = [page EXCEPT ![c] = OnList(page[c], list)]
    <3>1. page' = [page EXCEPT ![c] = IF page[c].on THEN OnList(page[c], list) ELSE page[c]]
      BY <1>6 DEF SendPeople
    <3>2. CASE page[c].on
      BY <3>1, <3>2
    <3>3. CASE ~page[c].on
      BY <1>2, <1>4, <3>1, <3>3
    <3> QED BY <3>2, <3>3
  <2> HIDE DEF list
  <2>5. PageFine(OnList(page[c], list), lastSent, now)
    BY <1>2, <2>3, OnListFine
  <2> QED BY <2>4, <2>5
<1>7. CASE SendClaims(c)
  <2> DEFINE live == {k \in joining[c].got : claimKey[k] # None}
             q == [page[c] EXCEPT !.claims = live]
  <2>1. joining[c].at = "claims"
        /\ page' = [page EXCEPT ![c] = IF page[c].on /\ live # {} THEN q ELSE page[c]]
    BY <1>7 DEF SendClaims, OnClaimList
  <2>2. joining[c].got \subseteq Claim
    BY <2>1 DEF StoreInv, JoinTask, Idle
  <2>3. live \subseteq Claim
    BY <2>2
  <2> HIDE DEF live
  <2>4. q \in PageRecord /\ q.people = page[c].people /\ q.typing = page[c].typing
    BY <1>3, <2>3 DEF PageRecord
  <2> HIDE DEF q
  <2>5. page' = [page EXCEPT ![c] = q]
    BY <1>2, <1>4, <2>1
  <2> QED BY <1>2, <2>4, <2>5, SamePeopleFine
<1>8. CASE Leave(c)
  <2>1. page' = [page EXCEPT ![c] = Blank]
    BY <1>8 DEF Leave
  <2>2. Blank \in PageRecord /\ Shown(Blank) = {} /\ Blank.typing = {}
    BY DEF Blank, PageRecord, Shown
  <2>3. PageFine(Blank, lastSent, now)
    BY <2>2 DEF PageFine
  <2> QED BY <2>1, <2>3
<1>9. ~(ReadMembers(c) \/ ReadClaimSet(c) \/ JoinFails(c))
  BY <1>4 DEF ReadMembers, ReadClaimSet, JoinFails
<1> QED BY <1>5, <1>6, <1>7, <1>8, <1>9

LEMMA RecentDropped ==
  ASSUME RecentInv, NEW c \in Client, DropMember(c) \/ DropRecord(c) \/ DropFails(c)
  PROVE  RecentInv'
<1>1. UNCHANGED <<now, lastSent, page, task, wire>>
  BY DEF DropMember, DropRecord, DropFails, redis, count
<1>2. record' = record \/ record' = [record EXCEPT ![UserOf[c]] = None]
  BY DEF DropMember, DropRecord, DropFails, redis
<1>3. record' \in [User -> KeptRecord \cup {None}]
  BY <1>2 DEF RecentInv
<1>4. \A u \in User : record'[u] = record[u] \/ record'[u] = None
  BY <1>2 DEF RecentInv
<1>5. \A u \in User : KeptFine(u, record'[u], lastSent, now)
  BY <1>4 DEF RecentInv, KeptFine
<1> QED BY <1>1, <1>3, <1>5 DEF RecentInv

(* Time passes between handlers only. What is left is still recent.        *)
LEMMA RecentTicked ==
  ASSUME RecentInv, Tick
  PROVE  RecentInv'
<1> DEFINE w == now'
<1>1. /\ now \in Nat /\ w \in Nat /\ w = now + 1 /\ UNCHANGED <<lastSent, task, wire>>
      /\ record' = [u \in User |-> KeyLapse(record[u], w)]
      /\ page' = [c \in Client |-> Clean(page[c], w)]
  BY DEF Tick, count, RecentInv
<1>2. /\ \A c \in Client : task[c] = Idle
      /\ \A i \in Instance : wire[i] = <<>>
  BY DEF Tick, Still
<1> HIDE DEF w
<1>3. \A c \in Client : PageFine(Clean(page[c], w), lastSent, w)
  BY <1>1, CleanFine DEF RecentInv
<1>4. page' \in [Client -> PageRecord] /\ \A c \in Client : PageFine(page'[c], lastSent, w)
  BY <1>1, <1>3 DEF PageFine
<1>5. ASSUME NEW u \in User
      PROVE  /\ KeyLapse(record[u], w) \in KeptRecord \cup {None}
             /\ KeptFine(u, KeyLapse(record[u], w), lastSent, w)
  <2>1. KeptFine(u, record[u], lastSent, now) /\ PresenceTtl \in Nat
    BY PresenceAssumption DEF RecentInv
  <2>2. CASE record[u] # None /\ w < record[u].till
    <3>1. record[u] \in KeptRecord /\ Recent(u, record[u].ts, lastSent, now)
          /\ record[u].till <= record[u].ts + PresenceTtl
      BY <2>1, <2>2 DEF KeptFine
    <3>2. record[u].till \in Nat /\ record[u].ts \in Nat
      BY <3>1 DEF KeptRecord
    <3>3. Recent(u, record[u].ts, lastSent, w)
      BY <1>1, <2>1, <2>2, <3>1, <3>2, HorizonFar DEF Recent
    <3>4. KeyLapse(record[u], w) = record[u]
      BY <2>2 DEF KeyLapse
    <3> QED BY <2>2, <3>1, <3>3, <3>4 DEF KeptFine
  <2>3. CASE ~(record[u] # None /\ w < record[u].till)
    BY <2>3 DEF KeyLapse, KeptFine
  <2> QED BY <2>2, <2>3
<1>6. record' \in [User -> KeptRecord \cup {None}]
      /\ \A u \in User : KeptFine(u, record'[u], lastSent, w)
  BY <1>1, <1>5
<1>7. \A c \in Client : TaskFine(c, task'[c], lastSent, w)
  BY <1>1, <1>2 DEF TaskFine
<1>8. \A i \in Instance : \A n \in 1..Len(wire'[i]) : EventFine(wire'[i][n], lastSent, w)
  <2>1. \A i \in Instance : Len(wire'[i]) = 0
    BY <1>1, <1>2
  <2> QED BY <2>1
<1> QED BY <1>1, <1>4, <1>6, <1>7, <1>8 DEF RecentInv, w

LEMMA RecentStays ==
  ASSUME RecentInv, StoreInv, [Next]_vars
  PROVE  RecentInv'
<1>1. CASE Tick
  BY <1>1, RecentTicked
<1>2. ASSUME NEW i \in Instance, Receive(i) PROVE RecentInv'
  BY <1>2, RecentReceived
<1>3. ASSUME NEW c \in Client, Move(c) \/ Key(c) PROVE RecentInv'
  BY <1>3, RecentPost DEF Move, Key
<1>4. ASSUME NEW c \in Client,
             \/ KeepMember(c) \/ KeepFails(c) \/ MakeClaim(c) \/ KeepClaim(c) \/ ListClaim(c)
             \/ Extend(c)
             \/ Release(c) \/ CheckOwner(c) \/ FreeClaim(c) \/ ClaimFails(c)
      PROVE  RecentInv'
  BY <1>4, RecentHandled
<1>5. ASSUME NEW c \in Client, KeepRecord(c) PROVE RecentInv'
  BY <1>5, RecentRecorded
<1>6. ASSUME NEW c \in Client, Tell(c) PROVE RecentInv'
  BY <1>6, RecentTold
<1>7. ASSUME NEW c \in Client,
             \/ Join(c) \/ ReadMembers(c) \/ SendPeople(c) \/ ReadClaimSet(c) \/ SendClaims(c)
             \/ JoinFails(c) \/ Leave(c)
      PROVE  RecentInv'
  BY <1>7, RecentJoins
<1>8. ASSUME NEW c \in Client, DropMember(c) \/ DropRecord(c) \/ DropFails(c) PROVE RecentInv'
  BY <1>8, RecentDropped
<1>9. CASE UNCHANGED vars
  BY <1>9 DEF vars, redis, count, RecentInv
<1> QED BY <1>1, <1>2, <1>3, <1>4, <1>5, <1>6, <1>7, <1>8, <1>9 DEF Next
-----------------------------------------------------------------------------
(* The claims                                                              *)

KeyRecord == [by : User, till : Nat, kept : BOOLEAN]

(* A claim that the set was given a life for is in the set, which outlives *)
(* the claim's key.                                                        *)
KeyFine(k, key, set) ==
  key # None =>
    /\ key \in KeyRecord
    /\ key.kept => k \in set.all /\ (set.till = None \/ key.till <= set.till)

ClaimInv ==
  /\ claimKey \in [Claim -> KeyRecord \cup {None}]
  /\ \A k \in Claim : KeyFine(k, claimKey[k], claimSet)

LEMMA ClaimStarts == Init => ClaimInv
BY DEF Init, ClaimInv, KeyFine

LEMMA ClaimStays ==
  ASSUME ClaimInv, StoreInv, RecentInv, [Next]_vars
  PROVE  ClaimInv'
<1>1. /\ now \in Nat /\ claimSet \in [all : SUBSET Claim, till : Nat \cup {None}] /\ SetFloor \in Nat
      /\ \A c \in Client : UserOf[c] \in User
      /\ claimKey \in [Claim -> KeyRecord \cup {None}]
      /\ \A k \in Claim : KeyFine(k, claimKey[k], claimSet)
  BY PresenceAssumption DEF RecentInv, StoreInv, ClaimInv
<1>2. ASSUME NEW c \in Client, task[c].at \in {"key", "list", "life"} PROVE task[c] \in ClaimEvent
  <2>1. TaskFine(c, task[c], lastSent, now)
    BY DEF RecentInv
  <2> QED BY <1>2, <2>1 DEF TaskFine, Idle, PresenceEvent, ReleaseEvent
<1>3. CASE UNCHANGED <<claimKey, claimSet>>
  BY <1>3 DEF ClaimInv
<1>4. CASE Tick
  <2> DEFINE w == now'
             set == claimSet'
  <2>1. /\ w = now + 1 /\ set = Lapse(claimSet, w)
        /\ claimKey' = [k \in Claim |-> KeyLapse(claimKey[k], w)]
    BY <1>4 DEF Tick
  <2> HIDE DEF w, set
  <2>2. ASSUME NEW k \in Claim
        PROVE  /\ KeyLapse(claimKey[k], w) \in KeyRecord \cup {None}
               /\ KeyFine(k, KeyLapse(claimKey[k], w), set)
    <3>1. CASE ~(claimKey[k] # None /\ w < claimKey[k].till)
      BY <3>1 DEF KeyLapse, KeyFine
    <3>2. CASE claimKey[k] # None /\ w < claimKey[k].till
      <4>1. /\ KeyLapse(claimKey[k], w) = claimKey[k] /\ claimKey[k] \in KeyRecord
            /\ KeyFine(k, claimKey[k], claimSet)
        BY <1>1, <3>2 DEF KeyLapse, KeyFine
      <4>2. claimKey[k].till \in Nat
        BY <4>1 DEF KeyRecord
      <4>3. ASSUME claimKey[k].kept
            PROVE  k \in set.all /\ (set.till = None \/ claimKey[k].till <= set.till)
        <5>1. k \in claimSet.all /\ (claimSet.till = None \/ claimKey[k].till <= claimSet.till)
          BY <3>2, <4>1, <4>3 DEF KeyFine
        <5>2. claimSet.till = None \/ w < claimSet.till
          BY <1>1, <2>1, <3>2, <4>2, <5>1
        <5> QED BY <2>1, <5>1, <5>2 DEF Lapse
      <4> QED BY <4>1, <4>3 DEF KeyFine
    <3> QED BY <3>1, <3>2
  <2>3. claimKey' \in [Claim -> KeyRecord \cup {None}]
    BY <2>1, <2>2
  <2>4. \A k \in Claim : KeyFine(k, claimKey'[k], set)
    BY <2>1, <2>2
  <2> QED BY <2>3, <2>4 DEF ClaimInv, set
<1>5. ASSUME NEW c \in Client, KeepClaim(c) PROVE ClaimInv'
  <2> DEFINE k == task[c].claim
             new == [by |-> UserOf[c], till |-> now + task[c].ttl, kept |-> FALSE]
  <2>1. /\ task[c].at = "key" /\ claimKey' = [claimKey EXCEPT ![k] = new]
        /\ UNCHANGED claimSet
    BY <1>5 DEF KeepClaim
  <2>2. k \in Claim /\ task[c].ttl \in Nat
    BY <1>2, <2>1 DEF ClaimEvent
  <2>3. new \in KeyRecord /\ new.kept = FALSE
    BY <1>1, <2>2 DEF KeyRecord
  <2> HIDE DEF k, new
  <2>4. KeyFine(k, new, claimSet)
    BY <2>3 DEF KeyFine
  <2>5. claimKey' \in [Claim -> KeyRecord \cup {None}]
    BY <1>1, <2>1, <2>3
  <2>6. \A l \in Claim : KeyFine(l, claimKey'[l], claimSet')
    BY <1>1, <2>1, <2>4
  <2> QED BY <2>5, <2>6 DEF ClaimInv
<1>6. ASSUME NEW c \in Client, ListClaim(c) PROVE ClaimInv'
  <2>1. /\ claimSet' = [claimSet EXCEPT !.all = claimSet.all \cup {task[c].claim}]
        /\ UNCHANGED claimKey
    BY <1>6 DEF ListClaim
  <2>2. claimSet.all \subseteq claimSet'.all /\ claimSet'.till = claimSet.till
    BY <1>1, <2>1
  <2>3. \A k \in Claim : KeyFine(k, claimKey[k], claimSet')
    BY <1>1, <2>2 DEF KeyFine
  <2> QED BY <1>1, <2>1, <2>3 DEF ClaimInv
<1>12. ASSUME NEW c \in Client, Extend(c) PROVE ClaimInv'
  <2> DEFINE end == now + Largest(task[c].ttl, SetFloor)
  <2>1. /\ task[c].at = "life" /\ claimKey' = Covered(end)
        /\ claimSet' = IF claimSet.all = {} THEN claimSet ELSE [claimSet EXCEPT !.till = end]
    BY <1>12 DEF Extend
  <2>2. end \in Nat
    BY <1>1, <1>2, <2>1 DEF ClaimEvent, Largest
  <2> HIDE DEF end
  <2>3. claimSet'.all = claimSet.all /\ (claimSet.all # {} => claimSet'.till = end)
    BY <1>1, <2>1
  <2>4. ASSUME NEW k \in Claim
        PROVE  claimKey'[k] \in KeyRecord \cup {None} /\ KeyFine(k, claimKey'[k], claimSet')
    <3>1. CASE claimKey[k] = None
      BY <2>1, <3>1 DEF Covered, KeyFine
    <3>2. CASE claimKey[k] # None /\ k \notin claimSet.all
      <4>1. claimKey'[k] = claimKey[k] /\ KeyFine(k, claimKey[k], claimSet)
        BY <1>1, <2>1, <3>2 DEF Covered
      <4> QED BY <1>1, <3>2, <4>1 DEF KeyFine
    <3>3. CASE claimKey[k] # None /\ k \in claimSet.all
      <4> DEFINE new == [claimKey[k] EXCEPT !.kept = claimKey[k].till <= end]
      <4>1. claimKey'[k] = new /\ claimKey[k] \in KeyRecord
        BY <1>1, <2>1, <3>3 DEF Covered
      <4>2. (claimKey[k].till <= end) \in BOOLEAN
        BY <2>2, <4>1 DEF KeyRecord
      <4>3. new \in KeyRecord /\ new.kept = (claimKey[k].till <= end) /\ new.till = claimKey[k].till
        BY <4>1, <4>2 DEF KeyRecord
      <4> HIDE DEF new
      <4> QED BY <2>3, <3>3, <4>1, <4>3 DEF KeyFine
    <3> QED BY <3>1, <3>2, <3>3
  <2>5. claimKey' \in [Claim -> KeyRecord \cup {None}]
    BY <2>1, <2>4 DEF Covered
  <2> QED BY <2>4, <2>5 DEF ClaimInv
<1>7. ASSUME NEW c \in Client, FreeClaim(c) PROVE ClaimInv'
  <2> DEFINE k == task[c].claim
             rest == claimSet.all \ {k}
  <2>1. /\ claimKey' = [claimKey EXCEPT ![k] = None]
        /\ claimSet' = IF rest = {} THEN Empty ELSE [claimSet EXCEPT !.all = rest]
    BY <1>7 DEF FreeClaim
  <2>2. claimSet'.all = rest /\ claimSet'.till \in {None, claimSet.till}
    BY <1>1, <2>1 DEF Empty
  <2> HIDE DEF k
  <2>3. claimKey' \in [Claim -> KeyRecord \cup {None}]
    BY <1>1, <2>1
  <2>4. ASSUME NEW l \in Claim PROVE KeyFine(l, claimKey'[l], claimSet')
    <3>1. CASE l = k
      BY <1>1, <2>1, <3>1 DEF KeyFine
    <3>2. CASE l # k
      <4>1. claimKey'[l] = claimKey[l] /\ KeyFine(l, claimKey[l], claimSet)
        BY <1>1, <2>1, <3>2
      <4> QED BY <2>2, <3>2, <4>1 DEF KeyFine
    <3> QED BY <3>1, <3>2
  <2> QED BY <2>3, <2>4 DEF ClaimInv
<1>8. ASSUME NEW i \in Instance, Receive(i) PROVE ClaimInv'
  BY <1>3, <1>8 DEF Receive, redis
<1>9. ASSUME NEW c \in Client,
             \/ Move(c) \/ Key(c) \/ KeepMember(c) \/ KeepRecord(c) \/ KeepFails(c) \/ Tell(c)
             \/ MakeClaim(c) \/ Release(c) \/ CheckOwner(c) \/ ClaimFails(c)
      PROVE  ClaimInv'
  BY <1>3, <1>9 DEF Move, Key, Post, KeepMember, KeepRecord, KeepFails, Tell, MakeClaim, Release,
                    CheckOwner, ClaimFails, redis
<1>10. ASSUME NEW c \in Client,
              \/ Join(c) \/ ReadMembers(c) \/ SendPeople(c) \/ ReadClaimSet(c) \/ SendClaims(c)
              \/ JoinFails(c) \/ Leave(c) \/ DropMember(c) \/ DropRecord(c) \/ DropFails(c)
       PROVE  ClaimInv'
  BY <1>3, <1>10 DEF Join, ReadMembers, SendPeople, ReadClaimSet, SendClaims, JoinFails, Leave,
                     DropMember, DropRecord, DropFails, JoinStep, redis
<1>11. CASE UNCHANGED vars
  BY <1>3, <1>11 DEF vars, redis
<1> QED BY <1>4, <1>5, <1>6, <1>7, <1>8, <1>9, <1>10, <1>11, <1>12 DEF Next
-----------------------------------------------------------------------------
(* The theorems                                                            *)

Inv == CountInv /\ StoreInv /\ RecentInv /\ ClaimInv

LEMMA InvInit == Init => Inv
BY CountStarts, StoreInit, RecentInit, ClaimStarts DEF Inv

LEMMA InvStays == Inv /\ [Next]_vars => Inv'
BY CountStays, StoreStays, RecentStays, ClaimStays DEF Inv

(* The shape of the state; and no record in Redis is of a time to come or has   *)
(* lapsed (onPresence of the gateway).                                     *)
THEOREM PresenceTyped == Spec => []TypeOK
<1>1. Inv => TypeOK
  <2> SUFFICES ASSUME CountInv, StoreInv, RecentInv PROVE TypeOK
    BY DEF Inv
  <2>1. now \in 0..load.time /\ \A what \in DOMAIN done : done[what] \in 0..load[what]
    BY DEF CountInv
  <2>2. \A c \in Client : page[c].typing \subseteq User /\ page[c].claims \subseteq Claim
    BY DEF RecentInv, PageRecord
  <2>3. members.all \subseteq User /\ claimSet.all \subseteq Claim
    BY DEF StoreInv
  <2>4. ASSUME NEW u \in User, record[u] # None
        PROVE  record[u].ts <= now /\ now < record[u].till
    <3>1. KeptFine(u, record[u], lastSent, now) /\ now \in Nat
      BY DEF RecentInv
    <3> QED BY <2>4, <3>1 DEF KeptFine, Recent
  <2> QED BY <2>1, <2>2, <2>3, <2>4 DEF TypeOK
<1> QED BY <1>1, InvInit, InvStays, PTL DEF Spec

(* A page shows a user only within a minute of a presence message of his   *)
(* that the gateway accepted (of the two times to live the longer), and    *)
(* marks only users it shows as typing                                     *)
(* (emit, doc:join and disconnect of the gateway, and the editor's clean-  *)
(* up): what is on its way or kept in Redis for those who join is no older *)
(* than a minute, too.                                                     *)
THEOREM ShownHeardOf == Spec => []ShownIsRecent
<1>1. Inv => ShownIsRecent
  <2> SUFFICES ASSUME RecentInv, NEW c \in Client
               PROVE  /\ \A u \in Shown(page[c]) : lastSent[u] # None /\ now - lastSent[u] < Horizon
                      /\ page[c].typing \subseteq Shown(page[c])
    BY DEF Inv, ShownIsRecent
  <2>1. now \in Nat /\ PageFine(page[c], lastSent, now) /\ Horizon \in Nat /\ None \notin Nat
    BY PresenceAssumption, HorizonFar DEF RecentInv
  <2>2. ASSUME NEW u \in Shown(page[c])
        PROVE  lastSent[u] # None /\ now - lastSent[u] < Horizon
    <3>1. Recent(u, page[c].people[u].ts, lastSent, now)
      BY <2>1 DEF PageFine
    <3> QED BY <2>1, <3>1 DEF Recent
  <2> QED BY <2>1, <2>2 DEF PageFine
<1> QED BY <1>1, InvInit, InvStays, PTL DEF Spec

(* A claim that the set was given a life for stays in the set that a       *)
(* joining page reads the claims from while it holds (section:claim of the *)
(* gateway), however many claims with other times to live renew or shorten *)
(* that life, and wherever a handler breaks off.                           *)
THEOREM ClaimsStayListed == Spec => []LiveClaimsListed
<1>1. Inv => LiveClaimsListed
  BY DEF Inv, ClaimInv, KeyFine, LiveClaimsListed
<1> QED BY <1>1, InvInit, InvStays, PTL DEF Spec
=============================================================================
