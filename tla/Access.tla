------------------------------- MODULE Access -------------------------------
(***************************************************************************)
(* Who may do what with a document.  One role rule is written four times:  *)
(* DocumentGuard (REST), hasDocAccess (the gateway's doc:join),            *)
(* canAccessDoc (whom a comment may mention) and updateSnapshotMeta (who   *)
(* may label a snapshot); WorkspaceGuard covers the routes that name a     *)
(* workspace.  A guard reads the document, the user's permission on it and *)
(* the user's membership one after the other, while others change roles.   *)
(*                                                                         *)
(* Ids of signed-in users are ObjectIds in REST requests and strings in    *)
(* the gateway; only a string equals the owner's id as DocumentGuard       *)
(* compares it.  A guest is known by the token of a share link, which      *)
(* names a document and a role until it lapses.                            *)
(***************************************************************************)
EXTENDS Naturals, FiniteSets

CONSTANTS User, Doc, Proc,
          Link,    \* tokens of share links: random, never made twice
          OwnerOf  \* the user that created a document, None for one not in User

None == "none"
DocRank(role) == CASE role = "viewer" -> 1 [] role = "editor" -> 2
                   [] role = "owner" -> 3 [] OTHER -> 0
MemberRank(role) == CASE role = "viewer" -> 1 [] role = "editor" -> 2
                      [] role = "admin" -> 3 [] role = "owner" -> 4 [] OTHER -> 0
MemberRole == {"viewer", "editor", "admin", "owner"}
PermRole   == {"viewer", "editor"}
NoLink     == [doc |-> None, role |-> None]
Lapsed     == [doc |-> None, role |-> "lapsed"]

ASSUME AccessAssumption == OwnerOf \in [Doc -> User \cup {None}] /\ User \cap Link = {}

VARIABLES
  row,     \* per document: none, active, archived, deleted or purged
  member,  \* per user: the role in the workspace
  perm,    \* per document and user: the permission on the document
  link,    \* share:link:<token>: its document and role, NoLink or Lapsed
  req,     \* the running requests
  held     \* history: requests whose user held the role since they started

roles == <<member, perm, link>>

Exists(d) == row[d] \notin {None, "purged"}

(* Workspace roles as document roles; no membership is no role.            *)
Mapped(role) == IF role = None THEN None
                ELSE IF role \in {"viewer", "editor"} THEN role ELSE "owner"
MappedNarrow(role) ==   \* mutant: admins are forgotten
  IF role \in {"viewer", "editor", "owner"} THEN role ELSE None

(* What each copy of the rule answers when nothing changes under it.       *)
RestAllows(u, d, role) ==
  /\ Exists(d)
  /\ \/ DocRank(perm[<<d, u>>]) >= DocRank(role)
     \/ DocRank(Mapped(member[u])) >= DocRank(role)
SocketAllowsNarrow(u, d, role) ==   \* mutant: the gateway asks for the member's own role
  /\ Exists(d)
  /\ \/ OwnerOf[d] = u
     \/ DocRank(perm[<<d, u>>]) >= DocRank(role)
     \/ member[u] # None /\ DocRank(member[u]) >= DocRank(role)
SocketAllows(u, d, role) ==
  /\ Exists(d)
  /\ \/ OwnerOf[d] = u
     \/ DocRank(perm[<<d, u>>]) >= DocRank(role)
     \/ member[u] # None /\ DocRank(Mapped(member[u])) >= DocRank(role)
MayBeMentioned(u, d) ==
  Exists(d) /\ (OwnerOf[d] = u \/ perm[<<d, u>>] # None \/ member[u] # None)
MayLabel(u, d) == Exists(d) /\ (OwnerOf[d] = u \/ perm[<<d, u>>] = "editor")

WorkspaceAllows(u, role) == MemberRank(member[u]) >= MemberRank(role)

(* What a link lets its holder do; whether the document exists is not      *)
(* asked.                                                                  *)
LinkAllows(share, d, role) == share.doc = d /\ DocRank(share.role) >= DocRank(role)

(* The role each route asks for.                                           *)
Asks(op) == IF op \in {"list", "read"} THEN "viewer" ELSE "editor"

(* The right a request must hold: of the document, or of the workspace.    *)
Entitled(r) ==
  IF r.user \in Link THEN LinkAllows(link[r.user], r.doc, Asks(r.op))
  ELSE IF r.op \in {"create", "list"} THEN WorkspaceAllows(r.user, Asks(r.op))
  ELSE RestAllows(r.user, r.doc, Asks(r.op))

(* names: another workspace its body names than the one it is about.       *)
Idle == [pc |-> "idle", op |-> None, user |-> None, doc |-> None, names |-> None,
         status |-> None, share |-> NoLink, copy |-> {}]

At(p, pc) == req[p].pc = pc
Go(p, pc) == req' = [req EXCEPT ![p].pc = pc]
Done(p)   == req' = [req EXCEPT ![p] = Idle]
Witnessed == held' = {p \in Proc : ~At(p, "idle") /\ req'[p].pc # "idle" /\
                        (p \in held \/ Entitled(req[p])')}
-----------------------------------------------------------------------------
(* canActivate of the three guards.  A request that passes goes on at      *)
(* "granted", one that does not ends with Unauthorized or Forbidden.       *)

(* AuthGuard takes a copy of the link, and may then compare a password.    *)
ReadLink(p) ==
  /\ At(p, "link")
  /\ LET share == link[req[p].user]
     IN IF share.doc = None THEN Done(p)
        ELSE req' = [req EXCEPT ![p].share = share, ![p].pc = "share"]

(* With a link to another document the guest's id is no user's: no way in. *)
AskShareLax(p) ==   \* mutant: a link opens its document whatever its role
  /\ At(p, "share")
  /\ IF req[p].share.doc = req[p].doc THEN Go(p, "granted") ELSE Done(p)
AskShare(p) ==
  /\ At(p, "share")
  /\ IF LinkAllows(req[p].share, req[p].doc, Asks(req[p].op)) THEN Go(p, "granted") ELSE Done(p)

(* The guard takes the workspace from the path, which names none here,     *)
(* then from the body, then from the query; what the user may do in        *)
(* another workspace is left open.                                         *)
AskWorkspace(p) ==
  /\ At(p, "workspace")
  /\ \E may \in BOOLEAN :
       /\ req[p].names = None => may = WorkspaceAllows(req[p].user, Asks(req[p].op))
       /\ IF may THEN Go(p, "granted") ELSE Done(p)

FindDoc(p) ==
  /\ At(p, "doc")
  /\ IF Exists(req[p].doc) THEN Go(p, "perm") ELSE Done(p)

FindPerm(p) ==
  /\ At(p, "perm")
  /\ Go(p, IF DocRank(perm[<<req[p].doc, req[p].user>>]) >= DocRank(Asks(req[p].op))
           THEN "granted" ELSE "member")

FindRoleLax(p) ==   \* mutant: any member passes
  /\ At(p, "member")
  /\ IF member[req[p].user] # None THEN Go(p, "granted") ELSE Done(p)
FindRole(p) ==
  /\ At(p, "member")
  /\ IF DocRank(Mapped(member[req[p].user])) >= DocRank(Asks(req[p].op))
     THEN Go(p, "granted") ELSE Done(p)

GuardStep(p) ==
  /\ ReadLink(p) \/ AskShare(p) \/ AskWorkspace(p) \/ FindDoc(p) \/ FindPerm(p) \/ FindRole(p)
  /\ UNCHANGED <<row, roles>>
-----------------------------------------------------------------------------
(* Roles change: addMember and removeMember, addPermission and             *)
(* removePermission, each one write.                                       *)
SetMember(u, role) ==
  /\ member[u] # role /\ member' = [member EXCEPT ![u] = role]
  /\ UNCHANGED <<row, perm, link, req>>
SetPerm(d, u, role) ==
  /\ perm[<<d, u>>] # role /\ perm' = [perm EXCEPT ![<<d, u>>] = role]
  /\ UNCHANGED <<row, member, link, req>>

ChangeMember == \E u \in User, role \in {None, "viewer", "editor", "admin"} : SetMember(u, role)
ChangePerm   == \E d \in Doc, u \in User, role \in {None} \cup PermRole : SetPerm(d, u, role)

(* A link is made for a document named in the request's body, and lapses   *)
(* after a minute to a month.                                              *)
CreateLink(t) ==
  /\ link[t] = NoLink
  /\ \E d \in Doc, role \in PermRole : link' = [link EXCEPT ![t] = [doc |-> d, role |-> role]]
  /\ UNCHANGED <<row, member, perm, req>>
LinkLapses(t) ==
  /\ link[t].doc # None /\ link' = [link EXCEPT ![t] = Lapsed]
  /\ UNCHANGED <<row, member, perm, req>>

(* A request that gets past its guards was entitled to what it does at     *)
(* some moment since it began, however roles changed, or links lapsed,     *)
(* while it was checked - unless its document was purged since it was      *)
(* seen, or its body named another workspace than the one it lists.        *)
GrantedWasEntitled ==
  \A p \in Proc : At(p, "granted") =>
    p \in held \/ req[p].doc \in {d \in Doc : row[d] = "purged"} \/ req[p].names # None

(* The copies of the rule agree: what REST lets a user do the gateway lets *)
(* too, and the gateway lets more only to an owner who is not a member;    *)
(* whoever may read the document may be mentioned in it, and whoever may   *)
(* label its snapshots may edit it.                                        *)
GuardsAgree ==
  \A u \in User, d \in Doc, role \in {"viewer", "editor"} :
    /\ RestAllows(u, d, role) => SocketAllows(u, d, role)
    /\ SocketAllows(u, d, role) /\ OwnerOf[d] # u => RestAllows(u, d, role)
    /\ SocketAllows(u, d, role) => MayBeMentioned(u, d)
    /\ MayLabel(u, d) => SocketAllows(u, d, role)
=============================================================================
