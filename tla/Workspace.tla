----------------------------- MODULE Workspace -----------------------------
(***************************************************************************)
(* The documents of one workspace: creation up to the workspace's limit,   *)
(* the listing and its cache in Redis, archiving, deletion, and the three  *)
(* things that clear up after a deletion: the TTL index on deletedAt, the  *)
(* cleanup of deleted documents' content and that of orphaned content.     *)
(*                                                                         *)
(* Requests pass the guards of Access, then read and write one call at a   *)
(* time, on any instance.  A status stands for all of a document's         *)
(* metadata.  What a content holds is DocStore's matter; here it is there  *)
(* or not.                                                                 *)
(***************************************************************************)
EXTENDS Access

CONSTANTS MaxDocs,    \* settings.resourceLimits.maxDocuments
          Changes,    \* bound: role changes, and requests that break off
          Mixes       \* bound: the sets of operations a behaviour may mix

ASSUME WorkspaceAssumption ==
  MaxDocs \in Nat \ {0} /\ Changes \in Nat /\ IsFiniteSet(Proc) /\ Proc # {}

VARIABLES
  deletedAt, \* per document: unset, recent, or old (DOC_DELETE_TTL_DAYS ago)
  content,   \* documents with a row in doccontents
  cache,     \* docs:ws:<id>: {} if absent, else the one listing it holds
  cleanup, orphans,  \* the two jobs: the documents they listed, {} when idle
  quota, mix,
  restored,  \* history: documents patched or deleted again while deleted
  stray      \* history: a listing that was stale when cached, or not removed

meta == <<row, deletedAt, content>>
jobs == <<cleanup, orphans>>
wsVars == <<meta, roles, req, held, cache, jobs, quota, mix, restored, stray>>

Init ==
  /\ mix \in Mixes
  /\ \E made \in {{}} \cup {{d} : d \in Doc} :
       /\ made = {} <=> "create" \in mix
       /\ row = [d \in Doc |-> IF d \in made THEN "active" ELSE None]
  /\ deletedAt = [d \in Doc |-> "unset"] /\ content = {}
  /\ member = [u \in User |-> "editor"] /\ perm = [x \in Doc \X User |-> None]
  /\ link = [t \in Link |-> NoLink]
  /\ req = [p \in Proc |-> Idle] /\ held = {} /\ cache = {} /\ cleanup = {} /\ orphans = {}
  /\ quota = Changes /\ restored = {} /\ stray = FALSE

Live == {d \in Doc : row[d] \in {"active", "archived"}}
Listing == {<<d, row[d]>> : d \in Live}

(* The routes, each with its guards.                                       *)
Start(p, op, u, d, status, names) ==
  /\ At(p, "idle") /\ op \in mix
  /\ req' = [req EXCEPT ![p] =
       [Idle EXCEPT !.op = op, !.user = u, !.doc = d, !.status = status, !.names = names,
                    !.pc = IF u \in Link THEN "link"
                             ELSE IF op \in {"create", "list"} THEN "workspace" ELSE "doc"]]
  /\ held' = IF Entitled(req'[p]) THEN held \cup {p} ELSE held \ {p}
  /\ UNCHANGED <<meta, roles, cache, jobs, quota, mix, restored, stray>>

(* "read" stands for the routes that change nothing.  A link opens no      *)
(* route of the workspace, where its holder is no member.  A creation is   *)
(* about the workspace its body names, a listing about the query's.        *)
Request(p) ==
  \/ \E u \in User : Start(p, "create", u, None, None, None)
  \/ \E u \in User, names \in {None, "other"} : Start(p, "list", u, None, None, names)
  \/ \E u \in User \cup {t \in Link : link[t] # NoLink}, d \in {x \in Doc : row[x] # None} :
       \/ \E op \in {"read", "edit", "delete"} : Start(p, op, u, d, None, None)
       \/ \E st \in {"active", "archived"} : Start(p, "update", u, d, st, None)
-----------------------------------------------------------------------------
(* DocumentsService                                                        *)

Granted(p, op) == At(p, "granted") /\ req[p].op = op

(* create: count, then create, then drop the cached listing.               *)
CountUpTo(p) ==   \* mutant: > for >=
  /\ Granted(p, "create")
  /\ IF Cardinality(Live) > MaxDocs THEN Done(p) ELSE Go(p, "create")
  /\ UNCHANGED <<meta, cache, restored, stray>>
Count(p) ==
  /\ Granted(p, "create")
  /\ IF Cardinality(Live) >= MaxDocs THEN Done(p) ELSE Go(p, "create")
  /\ UNCHANGED <<meta, cache, restored, stray>>

Create(p) ==
  /\ At(p, "create")
  /\ \E d \in Doc : row[d] = None /\ row' = [row EXCEPT ![d] = "active"]
  /\ Go(p, "drop") /\ UNCHANGED <<deletedAt, content, cache, restored, stray>>

(* list: the cached listing, or the database's, which then is cached.      *)
ReadListing(p) ==
  /\ Granted(p, "list")
  /\ IF cache # {} THEN Done(p) ELSE Go(p, "query")
  /\ UNCHANGED <<meta, cache, restored, stray>>

Query(p) ==
  /\ At(p, "query")
  /\ req' = [req EXCEPT ![p].copy = Listing, ![p].pc = "fill"]
  /\ UNCHANGED <<meta, cache, restored, stray>>

Fill(p) ==
  /\ At(p, "fill") /\ Done(p) /\ cache' = {req[p].copy}
  /\ stray' = (req[p].copy # Listing)
  /\ UNCHANGED <<meta, restored>>

(* update finds the document whatever its status and leaves deletedAt.     *)
Update(p) ==
  /\ Granted(p, "update")
  /\ IF Exists(req[p].doc)
     THEN /\ row' = [row EXCEPT ![req[p].doc] = req[p].status] /\ Go(p, "drop")
          /\ restored' = restored \cup {d \in {req[p].doc} : row[d] = "deleted"}
     ELSE Done(p) /\ UNCHANGED <<row, restored>>
  /\ UNCHANGED <<deletedAt, content, cache, stray>>

DeleteQuietly(p) ==   \* mutant: the cached listing is left to its TTL
  /\ Granted(p, "delete") /\ Done(p)
  /\ IF Exists(req[p].doc)
     THEN /\ row' = [row EXCEPT ![req[p].doc] = "deleted"]
          /\ deletedAt' = [deletedAt EXCEPT ![req[p].doc] = "recent"]
     ELSE UNCHANGED <<row, deletedAt>>
  /\ UNCHANGED <<content, cache, restored, stray>>
SoftDelete(p) ==
  /\ Granted(p, "delete")
  /\ IF Exists(req[p].doc)
     THEN /\ row' = [row EXCEPT ![req[p].doc] = "deleted"] /\ Go(p, "drop")
          /\ deletedAt' = [deletedAt EXCEPT ![req[p].doc] = "recent"]
          /\ restored' = restored \cup {d \in {req[p].doc} : row[d] = "deleted"}
     ELSE Done(p) /\ UNCHANGED <<row, deletedAt, restored>>
  /\ UNCHANGED <<content, cache, stray>>

Drop(p) ==
  /\ At(p, "drop") /\ Done(p) /\ cache' = {}
  /\ UNCHANGED <<meta, restored, stray>>

(* An edit stores content (upsertState), be there a document or not.       *)
Edit(p) ==
  /\ Granted(p, "edit") /\ Done(p) /\ content' = content \cup {req[p].doc}
  /\ UNCHANGED <<row, deletedAt, cache, restored, stray>>

Read(p) == Granted(p, "read") /\ Done(p) /\ UNCHANGED <<meta, cache, restored, stray>>

Serve(p) ==
  /\ \/ Read(p) \/ Count(p) \/ Create(p) \/ ReadListing(p) \/ Query(p) \/ Fill(p)
     \/ Update(p) \/ SoftDelete(p) \/ Drop(p) \/ Edit(p)
  /\ UNCHANGED <<roles, jobs, quota, mix>>
-----------------------------------------------------------------------------
(* Time and maintenance                                                    *)

(* The listing's 30 seconds are over; cache.cleanup drops it as well.      *)
Lapse == cache # {} /\ cache' = {} /\ UNCHANGED <<meta, jobs, restored, stray>>

Age(d) ==
  /\ "age" \in mix /\ deletedAt[d] = "recent" /\ deletedAt' = [deletedAt EXCEPT ![d] = "old"]
  /\ UNCHANGED <<row, content, cache, jobs, restored, stray>>

(* The partial TTL index removes deleted documents, never live ones.       *)
Expired(d) == row[d] = "deleted" /\ deletedAt[d] = "old"
Purge(d) ==
  /\ Expired(d) /\ row' = [row EXCEPT ![d] = "purged"]
  /\ UNCHANGED <<deletedAt, content, cache, jobs, restored, stray>>

(* cleanupDeleted lists documents, then deletes their content.             *)
ListAnyDeleted ==   \* mutant: no cutoff
  /\ cleanup = {} /\ \E d \in Doc : row[d] = "deleted"
  /\ cleanup' = {d \in Doc : row[d] = "deleted"}
  /\ UNCHANGED <<meta, cache, orphans, restored, stray>>
ListDeleted ==
  /\ cleanup = {} /\ \E d \in Doc : Expired(d)
  /\ cleanup' = {d \in Doc : Expired(d)}
  /\ UNCHANGED <<meta, cache, orphans, restored, stray>>
CleanupDeleted ==
  /\ cleanup # {} /\ cleanup' = {} /\ content' = content \ cleanup
  /\ UNCHANGED <<row, deletedAt, cache, orphans, restored, stray>>

(* cleanupOrphans lists content without a document, then deletes it.       *)
ListOrphans ==
  /\ orphans = {} /\ \E d \in content : row[d] = "purged"
  /\ orphans' = {d \in content : row[d] = "purged"}
  /\ UNCHANGED <<meta, cache, cleanup, restored, stray>>
CleanupOrphansDeleted ==   \* mutant: deletes nothing
  /\ orphans # {} /\ orphans' = {}
  /\ UNCHANGED <<meta, cache, cleanup, restored, stray>>
CleanupOrphans ==
  /\ orphans # {} /\ orphans' = {} /\ content' = content \ orphans
  /\ UNCHANGED <<row, deletedAt, cache, cleanup, restored, stray>>

Maintain ==
  /\ \/ Lapse \/ ListDeleted \/ CleanupDeleted \/ ListOrphans \/ CleanupOrphans
     \/ \E d \in Doc : Age(d) \/ Purge(d)
  /\ UNCHANGED <<roles, req, quota, mix>>

(* A call fails: the request ends, and a listing it should have dropped    *)
(* stays.                                                                  *)
BreakOff(p) ==
  /\ quota > 0 /\ ~At(p, "idle") /\ Done(p) /\ quota' = quota - 1
  /\ stray' = (stray \/ At(p, "drop"))
  /\ UNCHANGED <<meta, roles, cache, jobs, mix, restored>>

ChangeRoles ==
  /\ "roles" \in mix /\ quota > 0 /\ quota' = quota - 1 /\ (ChangeMember \/ ChangePerm)
  /\ UNCHANGED <<deletedAt, content, cache, jobs, mix, restored, stray>>

ChangeLinks ==
  /\ "share" \in mix /\ \E t \in Link : CreateLink(t) \/ LinkLapses(t)
  /\ UNCHANGED <<deletedAt, content, cache, jobs, quota, mix, restored, stray>>

Next ==
  \/ \E p \in Proc : Request(p)
  \/ \E p \in Proc : (Serve(p) \/ BreakOff(p)) /\ Witnessed
  \/ \E p \in Proc : GuardStep(p) /\ Witnessed /\
       UNCHANGED <<deletedAt, content, cache, jobs, quota, mix, restored, stray>>
  \/ (Maintain \/ ChangeRoles \/ ChangeLinks) /\ Witnessed

Spec == Init /\ [][Next]_wsVars

(* The maintenance timer runs cleanupOrphans every minute.                 *)
Aside(job) == job /\ UNCHANGED <<roles, req, quota, mix>> /\ Witnessed
FairSpec == Spec /\ WF_wsVars(Aside(ListOrphans)) /\ WF_wsVars(Aside(CleanupOrphans))
-----------------------------------------------------------------------------
(* The properties                                                          *)

Point == {"idle", "link", "share", "workspace", "doc", "perm", "member", "granted",
          "create", "drop", "query", "fill"}
Shown == SUBSET (Doc \X {"active", "archived"})

(* Types; a request that has a copy of the listing is about to cache it.   *)
TypeOK ==
  /\ row \in [Doc -> {None, "active", "archived", "deleted", "purged"}]
  /\ deletedAt \in [Doc -> {"unset", "recent", "old"}]
  /\ content \cup cleanup \cup orphans \cup restored \subseteq Doc
  /\ member \in [User -> MemberRole \cup {None}]
  /\ perm \in [Doc \X User -> {None} \cup PermRole]
  /\ link \in [Link -> [doc : Doc, role : PermRole] \cup {NoLink, Lapsed}]
  /\ cache \subseteq Shown /\ Cardinality(cache) <= 1 /\ quota \in Nat
  /\ held \subseteq Proc /\ stray \in BOOLEAN
  /\ \A p \in Proc : /\ req[p].pc \in Point /\ req[p].doc \in Doc \cup {None}
                     /\ req[p].copy # {} => At(p, "fill") /\ req[p].copy \in Shown

(* The limit is passed by no more than the creations that were counted     *)
(* together; documents taken back from deleted are not counted at all.     *)
WithinLimit == Cardinality(Live \ restored) < MaxDocs + Cardinality(Proc)

(* A cached listing differs from the database only while the request that  *)
(* made the difference has yet to drop it, or when it was read before and  *)
(* cached after a change, or its removal failed.                           *)
ListingAgrees ==
  \A shown \in cache : shown = Listing \/ stray \/ \E p \in Proc : At(p, "drop")

(* Content goes only with its document, deleted long enough ago, unless    *)
(* the document was taken back from deleted, or deleted again, meanwhile.  *)
ContentKept ==
  [][\A d \in content \ content' : d \in restored \/ row[d] = "purged" \/ Expired(d)]_wsVars

(* Content stored for a document that is gone is cleared up in the end,    *)
(* also when the edit that stored it passed its guard before.              *)
OrphansGo == \A d \in Doc : row[d] = "purged" /\ d \in content ~> d \notin content
=============================================================================
