--------------------------- MODULE MCUpdateRelay ---------------------------
(* Values for the constants of UpdateRelay: two instances with a socket    *)
(* each, an absent third user, and a message that arrives on both.         *)
EXTENDS UpdateRelay, TLC

CONSTANTS m1, m2, h1, h2, h3, c1, c2, u1, u2, u3, i1, i2, f1, f2, f3

\* m1 arrives on both sockets, which belong to one user in SameUser.
MCCarries == [h \in Handler |-> IF h = h3 THEN m2 ELSE m1]
MCFrom    == [h \in Handler |-> IF h = h2 THEN c2 ELSE c1]
MCSeqno   == [m \in Msg |-> IF m = m1 THEN 1 ELSE 2]
TwoUsers  == [c \in Socket |-> IF c = c1 THEN u1 ELSE u2]
SameUser  == [c \in Socket |-> u1]
MCOn      == [c \in Socket |-> IF c = c1 THEN i1 ELSE i2]
MCRuns    == [f \in Flusher |-> IF f = f2 THEN i2 ELSE i1]

\* The two flushes of i1 are interchangeable.
AnyFlush == Permutations({f1, f3})

AllFaults == {"refuse", "fail", "lose", "lapse", "crash"}
NoFaults  == {}
=============================================================================
