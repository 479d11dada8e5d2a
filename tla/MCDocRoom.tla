----------------------------- MODULE MCDocRoom -----------------------------
(* Values for the constants of DocRoom: three sockets on one instance, one *)
(* of them joined already, and one on another.                             *)
EXTENDS DocRoom

CONSTANTS m1, h1, c1, c2, c3, c4, u1, u2, u3, i1, i2, f1

CarriesM1  == [h \in Handler |-> m1]
SentFrom   == [h \in Handler |-> c1]
MCSeqno    == [m \in Msg |-> 1]

\* c3 is a second tab of c2's user; the two are interchangeable.
MCUserOf   == [c \in Socket |-> IF c = c1 THEN u1 ELSE u2]
Tabs       == Permutations({c2, c3})
TwoRooms   == [c \in Socket |-> IF c = c4 THEN i2 ELSE i1]
RunsOnI1   == [f \in Flusher |-> i1]

RoomFaults == {"refuse", "fail", "lose", "stale", "crash"}
=============================================================================
