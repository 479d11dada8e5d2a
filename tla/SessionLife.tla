---------------------------- MODULE SessionLife ----------------------------
(***************************************************************************)
(* What signing in promises, however requests interleave or break off: a   *)
(* session is opened once and closed once, it never comes back, and one    *)
(* that replaces another opens only when the other has closed for good.    *)
(*                                                                         *)
(* Accounts implements this specification.                                 *)
(***************************************************************************)
EXTENDS Naturals

CONSTANT Session

VARIABLES life,  \* per session: none, open or closed
          heirOf \* per session: the session it replaced, 0 for a sign-in

LifeInit == /\ life = [s \in Session |-> "none"]
            /\ heirOf = [s \in Session |-> 0]

Open(s, old) ==
  /\ life[s] = "none"
  /\ old # 0 => life[old] = "closed"
  /\ life' = [life EXCEPT ![s] = "open"] /\ heirOf' = [heirOf EXCEPT ![s] = old]

(* Sign-out and revocation close one session, time may close several.      *)
Close(S) ==
  /\ S # {} /\ \A s \in S : life[s] = "open"
  /\ life' = [s \in Session |-> IF s \in S THEN "closed" ELSE life[s]]
  /\ UNCHANGED heirOf

LifeNext == \/ \E s \in Session, old \in Session \cup {0} : Open(s, old)
            \/ \E S \in SUBSET Session : Close(S)

LifeSpec == LifeInit /\ [][LifeNext]_<<life, heirOf>>
=============================================================================
