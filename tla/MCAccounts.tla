----------------------------- MODULE MCAccounts -----------------------------
(* Values for the constants of Accounts and Credentials. They share no     *)
(* state, so a behaviour is one of the one or one of the other.            *)
EXTENDS Accounts, Credentials, TLC

CONSTANTS p1, p2

VARIABLE part

SignInInit ==
  /\ Init /\ FormInit
  /\ \/ part = "sessions"
     \/ part = "credentials" /\ load = CHOOSE start \in Starts : TRUE
SignInNext ==
  /\ \/ part = "sessions" /\ Next /\ UNCHANGED formVars
     \/ part = "credentials" /\ FormNext /\ UNCHANGED vars
  /\ UNCHANGED part
SignInSpec == SignInInit /\ [][SignInNext]_<<part, vars, formVars>>

Alike  == Permutations(Proc)

\* A new key store, and one after four rotations, all on time, whose first
\* key was pruned: the next rotation takes the current key's id.
New(ops, breaksOff) == [now |-> 0, fresh |-> 0, store |-> NewStore, ops |-> ops, quota |-> breaksOff]
Aged(ops) == [now |-> 4 * R, fresh |-> 4, ops |-> ops, quota |-> 0, store |->
  [cur |-> 5, keys |-> {[id |-> k, secret |-> k - 1, born |-> (k - 1) * R] : k \in 2..5}]]

AllOps    == {"daily", "login", "refresh", "logout", "revoke", "erase"}
AllStarts == {New(AllOps \ {"erase"}, 1), New({"login", "refresh", "erase"}, 1), Aged(AllOps \ {"revoke"})}
NewStart  == {New(AllOps, 0)}
=============================================================================
