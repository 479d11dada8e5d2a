---------------------------- MODULE MCWorkspace ----------------------------
(* Values for the constants of Workspace: only d1 was created by u1.       *)
EXTENDS Workspace, TLC

CONSTANTS p1, p2, d1, d2, d3, u1, t1

CreateMixes == {{"create", "list"}, {"create", "delete"}}
ListMix     == {"list", "update", "delete"}
ClearMix    == {"update", "edit", "delete", "age"}
AccessMixes == {{"list", "roles"}, {"read", "delete", "roles", "age"}}
ShareMix    == {"edit", "delete", "share"}
AllMixes    == CreateMixes \cup {ListMix, ClearMix} \cup AccessMixes \cup {ShareMix}

MCOwnerOf == [d \in Doc |-> IF d = d1 THEN u1 ELSE None]
=============================================================================
