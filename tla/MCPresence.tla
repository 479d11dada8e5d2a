----------------------------- MODULE MCPresence -----------------------------
(* Values for the constants of Presence: two tabs of one user on one       *)
(* instance, another user's on another; presence and claims apart.         *)
(* Throttle, through which every message and request goes first, shares no *)
(* state with it: a behaviour is one of the one or one of the other.       *)
EXTENDS Presence, Throttle, TLC

CONSTANTS a1, a2, b1, alice, bob, i1, i2, c1, c2

VARIABLE part

MCUserOf == (a1 :> alice) @@ (a2 :> alice) @@ (b1 :> bob)
MCHome   == (a1 :> i1) @@ (a2 :> i1) @@ (b1 :> i2)

Moving(tabs, sends, joins, leaves, faults) ==
  [tabs |-> tabs, ops |-> {"presence"}, sends |-> sends, joins |-> joins, leaves |-> leaves,
   faults |-> faults, time |-> 3]
Claiming(sends, faults) ==
  [tabs |-> {a1, b1}, ops |-> {"claim", "release"}, sends |-> sends, joins |-> 1, leaves |-> 0,
   faults |-> faults, time |-> 5]

\* Two pages and two messages; a user with two tabs, one of which goes; a page that goes
\* and a fault; claims and a fault.
AllLoads == {Moving({a1, b1}, 2, 2, 0, 0), Moving(Client, 1, 2, 1, 0), Moving({a1, b1}, 1, 2, 1, 1),
             Claiming(2, 1)}

\* Three calls, two at once on one instance, of kinds whose
\* windows differ; every window is one that a few calls fill.
MCNodeOf   == (c1 :> i1) @@ (c2 :> i1)
MCMixes    == {{"docs"}, {"comment"}, {"plain", "message"}}
MCPatience == ("docs" :> 1) @@ ("comment" :> 0)
MCAllowed  == [w \in Window |-> IF w = "emergency" THEN 3 ELSE IF w = "address" THEN 2 ELSE 1]

\* Neither part multiplies the starts of the other.
PartInit ==
  /\ Init /\ ThrottleInit
  /\ \/ part = "presence" /\ kinds = CHOOSE mix \in Mixes : TRUE
     \/ part = "throttle" /\ load = CHOOSE l \in Loads : TRUE
PartNext ==
  /\ \/ part = "presence" /\ Next /\ UNCHANGED throttleVars
     \/ part = "throttle" /\ ThrottleNext /\ UNCHANGED vars
  /\ UNCHANGED part
PartSpec == PartInit /\ [][PartNext]_<<part, vars, throttleVars>>
=============================================================================
