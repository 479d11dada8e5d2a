--------------------------- MODULE WorkspaceProofs ---------------------------
(***************************************************************************)
(* The safety properties of Workspace and Access, for any documents,       *)
(* users, links and number of requests.                                    *)
(***************************************************************************)
EXTENDS Workspace, FiniteSetTheorems, TLAPS

Status == {None, "active", "archived", "deleted", "purged"}
Op     == {None, "create", "list", "read", "update", "edit", "delete"}
Share  == [doc : Doc \cup {None}, role : {None, "lapsed"} \cup PermRole]

RequestRecord ==
  [pc : Point, op : Op, user : User \cup Link \cup {None}, doc : Doc \cup {None},
   names : {None, "other"},
   status : {None, "active", "archived"}, share : Share, copy : Shown]

Sound(r) == /\ r.op \in {"update", "delete", "edit"} => r.doc \in Doc
            /\ r.op = "update" => r.status # None
            /\ r.pc = "link" => r.user \in Link

(* What the proofs need of types.                                          *)
Typed ==
  /\ req \in [Proc -> RequestRecord] /\ mix \in Mixes
  /\ row \in [Doc -> Status] /\ deletedAt \in [Doc -> {"unset", "recent", "old"}]
  /\ content \subseteq Doc /\ cleanup \subseteq Doc /\ orphans \subseteq Doc
  /\ link \in [Link -> Share]
  /\ \A p \in Proc : Sound(req[p])

(* Documents that count, and requests about to add one.                    *)
Made     == {d \in Doc : row[d] # None}
Counted  == Live \ restored
Creating == {p \in Proc : At(p, "create")}
LimitInv == /\ Typed /\ IsFiniteSet(Made)
            /\ Cardinality(Counted) + Cardinality(Creating) < MaxDocs + Cardinality(Proc)

(* What the two jobs listed may go whatever happens meanwhile.             *)
Gone(d)  == d \in restored \/ row[d] = "purged" \/ Expired(d)
ClearInv == Typed /\ (\A d \in cleanup : Gone(d)) /\ \A d \in orphans : row[d] = "purged"
-----------------------------------------------------------------------------
LEMMA InitTyped == Init => Typed
<1> SUFFICES ASSUME Init PROVE Typed
  OBVIOUS
<1>1. Idle \in RequestRecord
  BY DEF Idle, RequestRecord, Point, Op, Share, Shown, NoLink
<1>2. row \in [Doc -> Status]
  BY DEF Init, Status
<1>3. link \in [Link -> Share]
  BY DEF Init, Share, NoLink
<1>4. Sound(Idle) /\ \A p \in Proc : req[p] = Idle
  BY DEF Init, Idle, Sound, None
<1> QED
  BY <1>1, <1>2, <1>3, <1>4 DEF Init, Typed

(* A request that moves on keeps its type.                                 *)
LEMMA MoveTyped ==
  ASSUME Typed, NEW p \in Proc, NEW r \in RequestRecord, req' = [req EXCEPT ![p] = r],
         Sound(r)
  PROVE  /\ req' \in [Proc -> RequestRecord] /\ req'[p] = r /\ \A q \in Proc \ {p} : req'[q] = req[q]
         /\ \A q \in Proc : Sound(req'[q])
BY DEF Typed
LEMMA GoTyped ==
  ASSUME Typed, NEW p \in Proc, NEW pc \in Point \ {"link"}, Go(p, pc)
  PROVE  /\ req' \in [Proc -> RequestRecord] /\ \A q \in Proc \ {p} : req'[q] = req[q]
         /\ req'[p] = [req[p] EXCEPT !.pc = pc]
         /\ \A q \in Proc : Sound(req'[q])
<1>1. [req[p] EXCEPT !.pc = pc] \in RequestRecord /\ Sound([req[p] EXCEPT !.pc = pc])
  BY DEF Typed, RequestRecord, Sound
<1> QED
  BY <1>1, MoveTyped DEF Go, Typed
LEMMA GoPoint ==
  ASSUME Typed, NEW p \in Proc, NEW pc \in Point \ {"link"}, Go(p, pc)
  PROVE  req'[p].pc = pc /\ req'[p].op = req[p].op /\ req'[p].user = req[p].user
         /\ req'[p].doc = req[p].doc /\ req'[p].share = req[p].share /\ req'[p].names = req[p].names
<1>1. req'[p] = [req[p] EXCEPT !.pc = pc] /\ req[p] \in RequestRecord
  BY GoTyped DEF Typed
<1> QED
  BY <1>1 DEF RequestRecord

LEMMA DoneTyped ==
  ASSUME Typed, NEW p \in Proc, Done(p)
  PROVE  /\ req' \in [Proc -> RequestRecord] /\ \A q \in Proc \ {p} : req'[q] = req[q]
         /\ req'[p] = Idle
         /\ \A q \in Proc : Sound(req'[q])
<1>1. Idle \in RequestRecord /\ Sound(Idle)
  BY DEF Idle, RequestRecord, Point, Op, Share, Shown, NoLink, None, Sound
<1> QED
  BY <1>1, MoveTyped DEF Done

(* Where a request is, and what it is about, after each kind of step.      *)
LEMMA ServeMoves ==
  ASSUME Typed, NEW p \in Proc, Serve(p)
  PROVE  /\ req' \in [Proc -> RequestRecord] /\ \A q \in Proc \ {p} : req'[q] = req[q]
         /\ \A q \in Proc : Sound(req'[q])
         /\ req'[p].pc \in {"idle", "create", "drop", "query", "fill"}
         /\ req[p].pc \in {"granted", "create", "drop", "query", "fill"}
         /\ req'[p].pc = "create" => Count(p) /\ ~(Cardinality(Live) >= MaxDocs)
<1>0. req[p] \in RequestRecord
  BY DEF Typed
<1>1. CASE Done(p)
  <2>1. req[p].pc \in {"granted", "create", "drop", "query", "fill"}
    BY <1>1 DEF Serve, Read, Count, Create, ReadListing, Query, Fill, Update, SoftDelete, Drop, Edit, Granted, At
  <2> QED
    BY <1>1, <2>1, DoneTyped DEF Idle
<1>2. ASSUME NEW pc \in {"create", "drop", "query"}, Go(p, pc) PROVE req'[p].pc = pc
  <2>1. pc \in Point \ {"link"}
    BY DEF Point
  <2>2. req'[p] = [req[p] EXCEPT !.pc = pc]
    BY <1>2, <2>1, GoTyped
  <2> QED
    BY <1>0, <2>1, <2>2 DEF RequestRecord
<1>3. CASE Query(p)
  <2> DEFINE r == [req[p] EXCEPT !.copy = Listing, !.pc = "fill"]
  <2>1. Listing \in Shown
    BY DEF Listing, Live, Shown
  <2>2. r \in RequestRecord /\ Sound(r) /\ r.pc = "fill"
    BY <1>0, <2>1 DEF RequestRecord, Point, Typed, Sound
  <2>3. req' = [req EXCEPT ![p] = r] /\ req[p].pc = "query"
    BY <1>3 DEF Query, At
  <2> QED
    BY <2>2, <2>3, MoveTyped DEF Typed
<1>4. CASE Count(p) /\ ~Done(p)
  <2>1. Go(p, "create") /\ "create" \in Point \ {"link"} /\ ~(Cardinality(Live) >= MaxDocs) /\ req[p].pc = "granted"
    BY <1>4 DEF Count, Granted, At, Point
  <2> QED
    BY <1>2, <1>4, <2>1, GoTyped
<1>5. CASE ReadListing(p) /\ ~Done(p)
  <2>1. Go(p, "query") /\ "query" \in Point \ {"link"} /\ req[p].pc = "granted"
    BY <1>5 DEF ReadListing, Granted, At, Point
  <2> QED
    BY <1>2, <2>1, GoTyped
<1>6. CASE (Create(p) \/ Update(p) \/ SoftDelete(p)) /\ ~Done(p)
  <2>1. Go(p, "drop") /\ "drop" \in Point \ {"link"} /\ req[p].pc \in {"granted", "create"}
    BY <1>6 DEF Create, Update, SoftDelete, Granted, At, Point
  <2> QED
    BY <1>2, <2>1, GoTyped
<1> QED
  BY <1>1, <1>3, <1>4, <1>5, <1>6 DEF Serve, Read, Fill, Drop, Edit

LEMMA RequestMoves ==
  ASSUME Typed, NEW p \in Proc, Request(p)
  PROVE  /\ req' \in [Proc -> RequestRecord] /\ \A q \in Proc \ {p} : req'[q] = req[q]
         /\ \A q \in Proc : Sound(req'[q])
         /\ req[p].pc = "idle" /\ req'[p].pc \in {"link", "workspace", "doc"}
         /\ req'[p].pc = "link" => req'[p].user \in Link
         /\ req'[p].pc = "workspace" => req'[p].user \in User /\ req'[p].op \in {"create", "list"}
         /\ req'[p].pc = "doc" => /\ req'[p].user \in User /\ req'[p].op \notin {"create", "list"}
                                 /\ req'[p].doc \in Doc
         /\ \A q \in Proc \ {p} : q \in held' <=> q \in held
         /\ UNCHANGED <<meta, roles, cache, jobs, quota, mix, restored, stray>>
<1>1. PICK op \in Op, u \in User \cup Link, d \in Doc \cup {None}, st \in {None, "active", "archived"},
           names \in {None, "other"} :
        /\ Start(p, op, u, d, st, names) /\ (op = "update" => st # None)
        /\ op \in {"create", "list"} \/ d \in Doc
  BY DEF Request, Op, None
<1> DEFINE pc == IF u \in Link THEN "link"
                   ELSE IF op \in {"create", "list"} THEN "workspace" ELSE "doc"
           r == [Idle EXCEPT !.op = op, !.user = u, !.doc = d, !.status = st, !.names = names,
                             !.pc = pc]
<1>2. /\ pc \in {"link", "workspace", "doc"} /\ (pc = "link" => u \in Link)
      /\ pc = "workspace" => u \in User /\ op \in {"create", "list"}
      /\ pc = "doc" => u \in User /\ op \notin {"create", "list"}
  OBVIOUS
<1> HIDE DEF pc
<1>3. r \in RequestRecord /\ Sound(r) /\ r.pc = pc
      /\ r.user = u /\ r.op = op /\ r.doc = d
  BY <1>1, <1>2 DEF Idle, RequestRecord, Point, Shown, Share, NoLink, Sound
<1>4. req' = [req EXCEPT ![p] = r] /\ req[p].pc = "idle"
      /\ UNCHANGED <<meta, roles, cache, jobs, quota, mix, restored, stray>>
      /\ \A q \in Proc \ {p} : q \in held' <=> q \in held
  BY <1>1 DEF Start, At, pc
<1> HIDE DEF r
<1> QED
  BY <1>1, <1>2, <1>3, <1>4, MoveTyped

LEMMA GuardMoves ==
  ASSUME Typed, NEW p \in Proc, GuardStep(p)
  PROVE  /\ req' \in [Proc -> RequestRecord] /\ \A q \in Proc \ {p} : req'[q] = req[q]
         /\ \A q \in Proc : Sound(req'[q])
         /\ req[p].pc \in {"link", "share", "workspace", "doc", "perm", "member"}
         /\ req'[p].pc \in {"idle", "share", "perm", "member", "granted"}
<1>0. req[p] \in RequestRecord
  BY DEF Typed
<1>1. req[p].pc \in {"link", "share", "workspace", "doc", "perm", "member"}
  BY DEF GuardStep, ReadLink, AskShare, AskWorkspace, FindDoc, FindPerm, FindRole, At
<1>2. CASE Done(p)
  BY <1>1, <1>2, DoneTyped DEF Idle
<1>3. ASSUME NEW pc \in {"perm", "member", "granted"}, Go(p, pc)
      PROVE  req'[p].pc = pc /\ pc \in Point \ {"link"}
  <2>1. pc \in Point \ {"link"}
    BY DEF Point
  <2>2. req'[p] = [req[p] EXCEPT !.pc = pc]
    BY <1>3, <2>1, GoTyped
  <2> QED
    BY <1>0, <2>1, <2>2 DEF RequestRecord
<1>4. CASE ReadLink(p) /\ ~Done(p)
  <2> DEFINE share == link[req[p].user]
             r     == [req[p] EXCEPT !.share = share, !.pc = "share"]
  <2>1. req' = [req EXCEPT ![p] = r] /\ req[p].pc = "link"
    BY <1>4 DEF ReadLink, At
  <2>2. share \in Share
    BY <2>1 DEF Typed, Sound
  <2>3. r \in RequestRecord /\ Sound(r) /\ r.pc = "share"
    BY <1>0, <2>2 DEF RequestRecord, Point, Typed, Sound
  <2> QED
    BY <1>1, <2>1, <2>3, MoveTyped DEF Typed
<1>5. CASE ~ReadLink(p) /\ ~Done(p)
  <2>1. \E pc \in {"perm", "member", "granted"} : Go(p, pc)
    BY <1>5 DEF GuardStep, AskShare, AskWorkspace, FindDoc, FindPerm, FindRole
  <2> QED
    BY <1>1, <1>3, <2>1, GoTyped
<1> QED
  BY <1>2, <1>4, <1>5

(* What serving a request does to the rows: it creates one, or changes one *)
(* that exists; a deleted one counts as taken back.                        *)
Touched(d) ==
  /\ row'[d] \in {"active", "archived", "deleted"}
  /\ \/ row[d] = None
     \/ Exists(d) /\ (row[d] = "deleted" => d \in restored')
RowsKept == row' = row /\ deletedAt' = deletedAt /\ restored' = restored

LEMMA TouchOne ==
  ASSUME Typed, NEW e \in Doc, NEW st \in {"active", "archived", "deleted"},
         row' = [row EXCEPT ![e] = st], deletedAt' \in [Doc -> {"unset", "recent", "old"}],
         \A d \in Doc \ {e} : deletedAt'[d] = deletedAt[d],
         \/ row[e] = None
         \/ Exists(e) /\ (row[e] = "deleted" => e \in restored'),
         restored \subseteq restored'
  PROVE  /\ row' \in [Doc -> Status] /\ Touched(e)
         /\ \A d \in Doc \ {e} : row'[d] = row[d] /\ deletedAt'[d] = deletedAt[d]
<1>1. row \in [Doc -> Status] /\ st \in Status
  BY DEF Typed, Status
<1>2. row' \in [Doc -> Status] /\ row'[e] = st /\ \A d \in Doc \ {e} : row'[d] = row[d]
  BY <1>1
<1> QED
  BY <1>2 DEF Touched

LEMMA ServeRows ==
  ASSUME Typed, NEW p \in Proc, Serve(p)
  PROVE  /\ row' \in [Doc -> Status] /\ deletedAt' \in [Doc -> {"unset", "recent", "old"}]
         /\ content \subseteq content' /\ content' \subseteq Doc /\ restored \subseteq restored'
         /\ \/ RowsKept /\ ~Create(p)
            \/ req'[p].pc = "drop" /\
               \E e \in Doc : /\ Touched(e) /\ (Create(p) \/ row[e] # None)
                              /\ \A d \in Doc \ {e} : row'[d] = row[d] /\ deletedAt'[d] = deletedAt[d]
<1>0. "drop" \in Point \ {"link"}
  BY DEF Point
<1>1. CASE Create(p)
  <2>1. PICK e \in Doc : row[e] = None /\ row' = [row EXCEPT ![e] = "active"]
    BY <1>1 DEF Create
  <2>2. deletedAt' = deletedAt /\ content' = content /\ restored' = restored /\ Go(p, "drop")
    BY <1>1 DEF Create
  <2>3. req'[p].pc = "drop"
    BY <1>0, <2>2, GoPoint
  <2>4. deletedAt' \in [Doc -> {"unset", "recent", "old"}] /\ content \subseteq Doc
    BY <2>2 DEF Typed
  <2> QED
    BY <1>1, <2>1, <2>2, <2>3, <2>4, TouchOne
<1>2. CASE Update(p) /\ Exists(req[p].doc)
  <2> DEFINE e  == req[p].doc
             st == req[p].status
  <2>1. e \in Doc /\ st \in {"active", "archived"}
    BY <1>2 DEF Update, Granted, Typed, Sound, RequestRecord
  <2>2. /\ row' = [row EXCEPT ![e] = st] /\ Go(p, "drop")
        /\ restored' = restored \cup {d \in {e} : row[d] = "deleted"}
        /\ deletedAt' = deletedAt /\ content' = content
    BY <1>2 DEF Update
  <2>3. req'[p].pc = "drop" /\ row[e] # None
    BY <1>0, <1>2, <2>2, GoPoint DEF Exists
  <2>4. deletedAt' \in [Doc -> {"unset", "recent", "old"}] /\ content \subseteq Doc
    BY <2>2 DEF Typed
  <2> HIDE DEF e, st
  <2>5. restored \subseteq restored' /\ (row[e] = "deleted" => e \in restored') /\ Exists(e)
    BY <1>2, <2>2 DEF e
  <2> QED
    BY <2>1, <2>2, <2>3, <2>4, <2>5, TouchOne
<1>3. CASE SoftDelete(p) /\ Exists(req[p].doc)
  <2> DEFINE e == req[p].doc
  <2>1. e \in Doc
    BY <1>3 DEF SoftDelete, Granted, Typed, Sound
  <2>2. /\ row' = [row EXCEPT ![e] = "deleted"] /\ Go(p, "drop")
        /\ restored' = restored \cup {d \in {e} : row[d] = "deleted"}
        /\ deletedAt' = [deletedAt EXCEPT ![e] = "recent"] /\ content' = content
    BY <1>3 DEF SoftDelete
  <2>3. req'[p].pc = "drop" /\ row[e] # None
    BY <1>0, <1>3, <2>2, GoPoint DEF Exists
  <2> HIDE DEF e
  <2>4. /\ deletedAt' \in [Doc -> {"unset", "recent", "old"}] /\ content \subseteq Doc
        /\ \A d \in Doc \ {e} : deletedAt'[d] = deletedAt[d]
    BY <2>1, <2>2 DEF Typed
  <2>5. restored \subseteq restored' /\ (row[e] = "deleted" => e \in restored') /\ Exists(e)
    BY <1>3, <2>2 DEF e
  <2> QED
    BY <2>1, <2>2, <2>3, <2>4, <2>5, TouchOne
<1>4. CASE ~Create(p) /\ ~((Update(p) \/ SoftDelete(p)) /\ Exists(req[p].doc))
  <2>1. RowsKept
    BY <1>4 DEF Serve, Read, Count, ReadListing, Query, Fill, Update, SoftDelete, Drop, Edit,
                RowsKept, meta
  <2>2. content \subseteq content' /\ content' \subseteq Doc
    <3>1. CASE Edit(p)
      BY <3>1 DEF Edit, Granted, Typed, Sound
    <3> QED
      BY <1>4, <3>1 DEF Serve, Read, Count, ReadListing, Query, Fill, Update, SoftDelete, Drop,
                        meta, Typed
  <2> QED
    BY <1>4, <2>1, <2>2 DEF RowsKept, Typed
<1> QED
  BY <1>1, <1>2, <1>3, <1>4

(* Maintenance purges rows of deleted documents, or lets their time pass.  *)
LEMMA MaintainRows ==
  ASSUME Typed, Maintain
  PROVE  /\ row' \in [Doc -> Status] /\ deletedAt' \in [Doc -> {"unset", "recent", "old"}]
         /\ content' \subseteq content /\ content \ content' \subseteq cleanup \cup orphans
         /\ cleanup' \subseteq Doc /\ orphans' \subseteq Doc
         /\ \A d \in Doc : \/ row'[d] = row[d]
                           \/ row[d] = "deleted" /\ row'[d] = "purged"
         /\ \A d \in Doc : \/ deletedAt'[d] = deletedAt[d]
                           \/ deletedAt[d] = "recent" /\ deletedAt'[d] = "old" /\ "age" \in mix
         /\ \A d \in cleanup' : d \in cleanup \/ Expired(d)'
         /\ \A d \in orphans' : d \in orphans \/ row'[d] = "purged"
         /\ restored' = restored /\ stray' = stray /\ cache' \subseteq cache
         /\ UNCHANGED <<roles, req, quota, mix>>
<1>0. /\ restored' = restored /\ stray' = stray /\ cache' \subseteq cache
      /\ UNCHANGED <<roles, req, quota, mix>>
  BY DEF Maintain, Lapse, ListDeleted, CleanupDeleted, ListOrphans, CleanupOrphans, Age, Purge
<1>1. CASE Lapse
  BY <1>0, <1>1 DEF Lapse, meta, jobs, Typed
<1>2. CASE ListDeleted
  <2>1. \A d \in Doc : Expired(d)' <=> Expired(d)
    BY <1>2 DEF ListDeleted, Expired, meta
  <2> QED
    BY <1>0, <1>2, <2>1 DEF ListDeleted, meta, Typed
<1>3. CASE CleanupDeleted
  BY <1>0, <1>3 DEF CleanupDeleted, meta, Typed
<1>4. CASE ListOrphans
  BY <1>0, <1>4 DEF ListOrphans, meta, Typed
<1>5. CASE CleanupOrphans
  BY <1>0, <1>5 DEF CleanupOrphans, meta, Typed
<1>6. ASSUME NEW d \in Doc, Age(d) PROVE deletedAt' \in [Doc -> {"unset", "recent", "old"}]
  BY <1>6 DEF Age, Typed
<1>7. CASE \E d \in Doc : Age(d)
  BY <1>0, <1>6, <1>7 DEF Age, jobs, Typed
<1>8. CASE \E d \in Doc : Purge(d)
  <2>1. PICK e \in Doc : Purge(e)
    BY <1>8
  <2>2. row' = [row EXCEPT ![e] = "purged"] /\ row[e] = "deleted"
    BY <2>1 DEF Purge, Expired
  <2>3. row' \in [Doc -> Status] /\ row'[e] = "purged" /\ \A d \in Doc \ {e} : row'[d] = row[d]
    BY <2>2 DEF Typed, Status
  <2> QED
    BY <1>0, <2>1, <2>2, <2>3 DEF Purge, jobs, Typed
<1> QED
  BY <1>1, <1>2, <1>3, <1>4, <1>5, <1>7, <1>8 DEF Maintain

LEMMA RolesTyped ==
  ASSUME Typed, ChangeRoles \/ ChangeLinks
  PROVE  /\ link' \in [Link -> Share]
         /\ UNCHANGED <<meta, req, cache, jobs, mix, restored, stray>>
<1>1. UNCHANGED <<meta, req, cache, jobs, mix, restored, stray>>
  BY DEF ChangeRoles, ChangeLinks, ChangeMember, ChangePerm, SetMember, SetPerm, CreateLink,
         LinkLapses, meta
<1>2. CASE ChangeRoles
  BY <1>1, <1>2 DEF ChangeRoles, ChangeMember, ChangePerm, SetMember, SetPerm, Typed
<1>3. ASSUME NEW t \in Link, CreateLink(t) PROVE link' \in [Link -> Share]
  <2>1. PICK d \in Doc, role \in PermRole : link' = [link EXCEPT ![t] = [doc |-> d, role |-> role]]
    BY <1>3 DEF CreateLink
  <2>2. [doc |-> d, role |-> role] \in Share
    BY DEF Share
  <2> QED
    BY <2>1, <2>2 DEF Typed
<1>4. ASSUME NEW t \in Link, LinkLapses(t) PROVE link' \in [Link -> Share]
  <2>1. Lapsed \in Share
    BY DEF Share, Lapsed
  <2> QED
    BY <1>4, <2>1 DEF Typed, LinkLapses
<1> QED
  BY <1>1, <1>2, <1>3, <1>4 DEF ChangeLinks

(* Every step is of one of these kinds.                                    *)
Others == UNCHANGED <<deletedAt, content, cache, jobs, quota, mix, restored, stray>>
LEMMA Steps ==
  ASSUME [Next]_wsVars
  PROVE  \/ \E p \in Proc : Request(p)
         \/ \E p \in Proc : Serve(p) /\ Witnessed
         \/ \E p \in Proc : BreakOff(p) /\ Witnessed
         \/ \E p \in Proc : GuardStep(p) /\ Witnessed /\ Others
         \/ Maintain /\ Witnessed
         \/ (ChangeRoles \/ ChangeLinks) /\ Witnessed
         \/ UNCHANGED wsVars
BY DEF Next, Others

LEMMA TypedStays == Typed /\ [Next]_wsVars => Typed'
<1> SUFFICES ASSUME Typed, [Next]_wsVars PROVE Typed'
  OBVIOUS
<1>1. CASE \E p \in Proc : Request(p)
  BY <1>1, RequestMoves DEF Typed, meta, roles, jobs
<1>2. CASE \E p \in Proc : Serve(p)
  <2>1. PICK p \in Proc : Serve(p)
    BY <1>2
  <2>2. UNCHANGED <<roles, jobs, quota, mix>>
    BY <2>1 DEF Serve
  <2> QED
    BY <2>1, <2>2, ServeMoves, ServeRows DEF Typed, roles, jobs
<1>3. CASE \E p \in Proc : BreakOff(p)
  BY <1>3, DoneTyped DEF BreakOff, Typed, meta, roles, jobs
<1>4. CASE \E p \in Proc : GuardStep(p) /\ Others
  <2>1. PICK p \in Proc : GuardStep(p) /\ Others
    BY <1>4
  <2>2. UNCHANGED <<row, roles>>
    BY <2>1 DEF GuardStep
  <2> QED
    BY <2>1, <2>2, GuardMoves DEF Typed, roles, jobs, Others
<1>5. CASE Maintain
  BY <1>5, MaintainRows DEF Typed, roles
<1>6. CASE ChangeRoles \/ ChangeLinks
  BY <1>6, RolesTyped DEF Typed, meta, jobs
<1>7. CASE UNCHANGED wsVars
  BY <1>7 DEF Typed, wsVars, meta, roles, jobs
<1> QED
  BY <1>1, <1>2, <1>3, <1>4, <1>5, <1>6, <1>7, Steps
-----------------------------------------------------------------------------
(* WithinLimit: as many documents as the limit lets pass, and one for each *)
(* request that has counted and is about to create.                        *)

(* No step but a creation makes a document count, and none but a count     *)
(* lets a request create.                                                  *)
Grows   == \E e \in Doc : row[e] = None /\ Counted' \subseteq Counted \cup {e} /\ Made' \subseteq Made \cup {e}
Shrinks == Counted' \subseteq Counted /\ Made' \subseteq Made

Stays(d) == \/ row'[d] = row[d]
            \/ row'[d] = "purged" /\ row[d] # None
            \/ row[d] # None /\ Touched(d)

LEMMA RowsShrink ==
  ASSUME Typed, restored \subseteq restored',
         \A d \in Doc : Stays(d)
  PROVE  Shrinks
<1>1. \A d \in Doc : row'[d] # None => row[d] # None
  BY DEF Stays
<1>2. ASSUME NEW d \in Doc, row'[d] \in {"active", "archived"}, d \notin restored'
      PROVE  row[d] \in {"active", "archived"} /\ d \notin restored
  <2>1. row[d] \in Status /\ row'[d] # "purged" /\ d \notin restored
    BY <1>2 DEF Typed
  <2>2. CASE row'[d] = row[d]
    BY <1>2, <2>1, <2>2
  <2>3. CASE row[d] # None /\ Touched(d)
    BY <1>2, <2>1, <2>3 DEF Touched, Exists, Status
  <2> QED
    BY <2>1, <2>2, <2>3 DEF Stays
<1> QED
  BY <1>1, <1>2 DEF Shrinks, Counted, Live, Made

LEMMA ServeCounts ==
  ASSUME Typed, NEW p \in Proc, Serve(p)
  PROVE  Shrinks \/ (Grows /\ Create(p))
<1>1. restored \subseteq restored'
  BY ServeRows
<1>2. CASE RowsKept
  <2>1. \A d \in Doc : Stays(d)
    BY <1>2 DEF RowsKept, Stays
  <2> QED
    BY <1>1, <2>1, RowsShrink
<1>3. CASE ~RowsKept
  <2>1. PICK e \in Doc : /\ Touched(e) /\ (Create(p) \/ row[e] # None)
                         /\ \A d \in Doc \ {e} : row'[d] = row[d]
    BY <1>3, ServeRows
  <2>2. CASE row[e] # None
    <3>1. \A d \in Doc : Stays(d)
      BY <2>1, <2>2 DEF Stays
    <3> QED
      BY <1>1, <3>1, RowsShrink
  <2>3. CASE row[e] = None
    <3>1. Counted' \subseteq Counted \cup {e} /\ Made' \subseteq Made \cup {e}
      BY <1>1, <2>1 DEF Counted, Live, Made
    <3> QED
      BY <2>1, <2>3, <3>1 DEF Grows
  <2> QED
    BY <2>2, <2>3
<1> QED
  BY <1>2, <1>3

LEMMA CountedFinite ==
  ASSUME LimitInv
  PROVE  /\ IsFiniteSet(Counted) /\ Cardinality(Counted) \in Nat
         /\ IsFiniteSet(Creating) /\ Cardinality(Creating) \in Nat
         /\ Cardinality(Creating) <= Cardinality(Proc) /\ Cardinality(Proc) \in Nat
<1>1. IsFiniteSet(Made) /\ Counted \subseteq Made /\ Creating \subseteq Proc
  BY DEF LimitInv, Counted, Live, Made, Creating, None
<1>2. IsFiniteSet(Proc)
  BY WorkspaceAssumption
<1> HIDE DEF Counted, Creating, Made
<1> QED
  BY <1>1, <1>2, FS_Subset, FS_CardinalityType

(* Fewer documents that count, and fewer requests about to create.         *)
LEMMA LimitShrinks ==
  ASSUME LimitInv, Typed', Shrinks, Creating' \subseteq Creating
  PROVE  LimitInv'
<1> DEFINE a == Cardinality(Counted)   a2 == Cardinality(Counted')
           b == Cardinality(Creating)  b2 == Cardinality(Creating')
<1>1. IsFiniteSet(Made) /\ IsFiniteSet(Counted) /\ IsFiniteSet(Creating) /\ a + b < MaxDocs + Cardinality(Proc)
  BY CountedFinite DEF LimitInv
<1>2. a \in Nat /\ b \in Nat /\ Cardinality(Proc) \in Nat /\ MaxDocs \in Nat
  BY CountedFinite, WorkspaceAssumption
<1> HIDE DEF Counted, Creating, Made
<1>3. IsFiniteSet(Made')
  BY <1>1, FS_Subset DEF Shrinks
<1>4. a2 \in Nat /\ a2 <= a
  BY <1>1, FS_Subset, FS_CardinalityType DEF Shrinks
<1>5. b2 \in Nat /\ b2 <= b
  BY <1>1, FS_Subset, FS_CardinalityType
<1> HIDE DEF a, a2, b, b2
<1>6. a2 + b2 < MaxDocs + Cardinality(Proc)
  BY <1>1, <1>2, <1>4, <1>5
<1> QED
  BY <1>3, <1>6 DEF LimitInv, a2, b2

LEMMA CreateKeepsLimit ==
  ASSUME LimitInv, Typed', NEW p \in Proc, Grows, p \in Creating, Creating' \subseteq Creating \ {p}
  PROVE  LimitInv'
<1> DEFINE a == Cardinality(Counted)   a2 == Cardinality(Counted')
           b == Cardinality(Creating)  b2 == Cardinality(Creating')
<1>1. IsFiniteSet(Made) /\ IsFiniteSet(Counted) /\ IsFiniteSet(Creating) /\ a + b < MaxDocs + Cardinality(Proc)
  BY CountedFinite DEF LimitInv
<1>2. a \in Nat /\ b \in Nat /\ Cardinality(Proc) \in Nat /\ MaxDocs \in Nat
  BY CountedFinite, WorkspaceAssumption
<1> HIDE DEF Counted, Creating, Made
<1>3. PICK e \in Doc : Counted' \subseteq Counted \cup {e} /\ Made' \subseteq Made \cup {e}
  BY DEF Grows
<1>4. IsFiniteSet(Made') /\ IsFiniteSet(Counted \cup {e}) /\ Cardinality(Counted \cup {e}) <= a + 1
  <2>1. IsFiniteSet(Made \cup {e}) /\ IsFiniteSet(Counted \cup {e})
    BY <1>1, FS_AddElement
  <2>2. Cardinality(Counted \cup {e}) = IF e \in Counted THEN a ELSE a + 1
    BY <1>1, FS_AddElement
  <2> HIDE DEF a
  <2> QED
    BY <1>2, <1>3, <2>1, <2>2, FS_Subset
<1>5. a2 \in Nat /\ a2 <= a + 1
  <2>1. a2 \in Nat /\ a2 <= Cardinality(Counted \cup {e}) /\ Cardinality(Counted \cup {e}) \in Nat
    BY <1>3, <1>4, FS_Subset, FS_CardinalityType
  <2> HIDE DEF a, a2
  <2> QED
    BY <1>2, <1>4, <2>1
<1>6. b2 \in Nat /\ b2 <= b - 1
  <2>1. IsFiniteSet(Creating \ {p}) /\ Cardinality(Creating \ {p}) = b - 1
    BY <1>1, FS_RemoveElement
  <2>2. b2 \in Nat /\ b2 <= Cardinality(Creating \ {p})
    BY <2>1, FS_Subset, FS_CardinalityType
  <2> QED
    BY <2>1, <2>2
<1> HIDE DEF a, a2, b, b2
<1>7. a2 + b2 < MaxDocs + Cardinality(Proc)
  BY <1>1, <1>2, <1>5, <1>6
<1> QED
  BY <1>4, <1>7 DEF LimitInv, a2, b2

(* A request that may create counted fewer documents than the limit.       *)
LEMMA CountKeepsLimit ==
  ASSUME LimitInv, Typed', NEW p \in Proc, ~(Cardinality(Live) >= MaxDocs), Shrinks
  PROVE  LimitInv'
<1> DEFINE a == Cardinality(Live)      a2 == Cardinality(Counted')
           b2 == Cardinality(Creating')  n == Cardinality(Proc)
<1>1. Live \subseteq Made /\ Counted' \subseteq Live /\ Creating' \subseteq Proc
  BY DEF Shrinks, Made, Live, Counted, Creating, None
<1>2. IsFiniteSet(Made) /\ IsFiniteSet(Proc) /\ MaxDocs \in Nat \ {0}
  BY WorkspaceAssumption DEF LimitInv
<1> HIDE DEF Counted, Creating, Made, Live
<1>3. IsFiniteSet(Made') /\ IsFiniteSet(Live) /\ a \in Nat /\ n \in Nat
  BY <1>1, <1>2, FS_Subset, FS_CardinalityType DEF Shrinks
<1>4. a2 \in Nat /\ a2 <= a /\ b2 \in Nat /\ b2 <= n
  BY <1>1, <1>2, <1>3, FS_Subset, FS_CardinalityType
<1> HIDE DEF a2, b2, n
<1>5. a < MaxDocs
  BY <1>2, <1>3
<1> HIDE DEF a
<1>6. a2 + b2 < MaxDocs + n
  BY <1>2, <1>3, <1>4, <1>5
<1> QED
  BY <1>3, <1>6 DEF LimitInv, a2, b2, n

LEMMA SameShrinks == ASSUME row' = row, restored' = restored PROVE Shrinks
BY DEF Shrinks, Counted, Live, Made

LEMMA InitLimit == Init => LimitInv
<1> SUFFICES ASSUME Init PROVE LimitInv
  OBVIOUS
<1>1. PICK made \in {{}} \cup {{d} : d \in Doc} : row = [d \in Doc |-> IF d \in made THEN "active" ELSE None]
  BY DEF Init
<1>2. \E x : made \subseteq {x}
  OBVIOUS
<1>3. PICK x : Made \subseteq {x} /\ Counted \subseteq {x}
  BY <1>1, <1>2 DEF Made, Counted, Live, None
<1>4. Creating = {}
  BY DEF Init, Creating, At, Idle
<1>5. IsFiniteSet({x}) /\ Cardinality({x}) = 1 /\ Cardinality(Creating) = 0
  BY <1>4, FS_Singleton, FS_EmptySet
<1>6. IsFiniteSet(Made) /\ Cardinality(Counted) \in Nat /\ Cardinality(Counted) <= 1
  BY <1>3, <1>5, FS_Subset, FS_CardinalityType
<1>7. Cardinality(Proc) \in Nat /\ Cardinality(Proc) # 0 /\ MaxDocs \in Nat \ {0}
  BY WorkspaceAssumption, FS_CardinalityType, FS_EmptySet
<1>8. Cardinality(Counted) + Cardinality(Creating) < MaxDocs + Cardinality(Proc)
  BY <1>5, <1>6, <1>7
<1> QED
  BY <1>6, <1>8, InitTyped DEF LimitInv

LEMMA LimitStays == LimitInv /\ [Next]_wsVars => LimitInv'
<1> SUFFICES ASSUME LimitInv, [Next]_wsVars PROVE LimitInv'
  OBVIOUS
<1>0. Typed /\ Typed'
  BY TypedStays DEF LimitInv
<1>1. ASSUME NEW p \in Proc, Request(p) PROVE LimitInv'
  <2>1. Shrinks
    BY <1>0, <1>1, RequestMoves, SameShrinks DEF meta
  <2>2. Creating' \subseteq Creating
    BY <1>0, <1>1, RequestMoves DEF Creating, At
  <2> QED
    BY <1>0, <2>1, <2>2, LimitShrinks
<1>2. ASSUME NEW p \in Proc, Serve(p) PROVE LimitInv'
  <2>1. CASE req'[p].pc = "create"
    <3>1. Count(p) /\ ~(Cardinality(Live) >= MaxDocs)
      BY <1>0, <1>2, <2>1, ServeMoves
    <3>2. Shrinks
      BY <3>1, SameShrinks DEF Count, meta
    <3> QED
      BY <1>0, <3>1, <3>2, CountKeepsLimit
  <2>2. CASE req'[p].pc # "create"
    <3>1. Creating' \subseteq Creating \ {p}
      BY <1>0, <1>2, <2>2, ServeMoves DEF Creating, At
    <3>2. CASE Shrinks
      BY <1>0, <3>1, <3>2, LimitShrinks
    <3>3. CASE Grows /\ Create(p)
      <4>1. p \in Creating
        BY <3>3 DEF Create, Creating
      <4> QED
        BY <1>0, <3>1, <3>3, <4>1, CreateKeepsLimit
    <3> QED
      BY <1>0, <1>2, <3>2, <3>3, ServeCounts
  <2> QED
    BY <2>1, <2>2
<1>3. ASSUME NEW p \in Proc, BreakOff(p) PROVE LimitInv'
  <2>1. Shrinks /\ Done(p)
    BY <1>3, SameShrinks DEF BreakOff, meta
  <2>2. Creating' \subseteq Creating
    BY <1>0, <2>1, DoneTyped DEF Creating, At, Idle
  <2> QED
    BY <1>0, <2>1, <2>2, LimitShrinks
<1>4. ASSUME NEW p \in Proc, GuardStep(p), Others PROVE LimitInv'
  <2>1. Shrinks
    BY <1>4, SameShrinks DEF GuardStep, Others
  <2>2. Creating' \subseteq Creating
    BY <1>0, <1>4, GuardMoves DEF Creating, At
  <2> QED
    BY <1>0, <2>1, <2>2, LimitShrinks
<1>5. CASE Maintain
  <2>1. \A d \in Doc : Stays(d)
    BY <1>0, <1>5, MaintainRows DEF Stays, None
  <2>2. Shrinks /\ Creating' = Creating
    BY <1>0, <1>5, <2>1, MaintainRows, RowsShrink DEF Creating, At
  <2> QED
    BY <1>0, <2>2, LimitShrinks
<1>6. CASE ChangeRoles \/ ChangeLinks
  <2>1. Shrinks /\ Creating' = Creating
    BY <1>0, <1>6, RolesTyped, SameShrinks DEF meta, Creating, At
  <2> QED
    BY <1>0, <2>1, LimitShrinks
<1>7. CASE UNCHANGED wsVars
  <2>1. Shrinks /\ Creating' = Creating
    BY <1>7, SameShrinks DEF wsVars, meta, Creating, At
  <2> QED
    BY <1>0, <2>1, LimitShrinks
<1> QED
  BY <1>1, <1>2, <1>3, <1>4, <1>5, <1>6, <1>7, Steps

LEMMA LimitHolds == LimitInv => WithinLimit
<1> SUFFICES ASSUME LimitInv PROVE WithinLimit
  OBVIOUS
<1>1. /\ Cardinality(Counted) \in Nat /\ Cardinality(Creating) \in Nat /\ Cardinality(Proc) \in Nat
      /\ Cardinality(Counted) + Cardinality(Creating) < MaxDocs + Cardinality(Proc) /\ MaxDocs \in Nat
  BY CountedFinite, WorkspaceAssumption DEF LimitInv
<1>2. Cardinality(Counted) < MaxDocs + Cardinality(Proc)
  BY <1>1
<1> QED
  BY <1>2 DEF WithinLimit, Counted

(* The documents a workspace counts exceed the limit by no more than the   *)
(* requests that can create at once (documents.service.ts create).         *)
THEOREM LimitNearlyKept == Spec => []WithinLimit
<1>1. LimitInv /\ [Next]_wsVars => LimitInv'
  BY LimitStays
<1>2. Init => LimitInv
  BY InitLimit
<1>3. LimitInv => WithinLimit
  BY LimitHolds
<1> QED
  BY <1>1, <1>2, <1>3, PTL DEF Spec
-----------------------------------------------------------------------------
(* ListingAgrees is kept as it stands: a step that changes what a listing  *)
(* shows is followed by the request's own removal of the cached one.       *)
Dropping == \E p \in Proc : At(p, "drop")

LEMMA ListingHeld ==
  ASSUME ListingAgrees, Listing' = Listing, cache' \subseteq cache, stray => stray',
         Dropping => Dropping' \/ stray'
  PROVE  ListingAgrees'
BY DEF ListingAgrees, Dropping

LEMMA SameListing == ASSUME row' = row PROVE Listing' = Listing
BY DEF Listing, Live

LEMMA ServeAgrees ==
  ASSUME Typed, ListingAgrees, NEW p \in Proc, Serve(p)
  PROVE  ListingAgrees'
<1>1. CASE Drop(p)
  BY <1>1 DEF Drop, ListingAgrees
<1>2. CASE Fill(p)
  <2>1. row' = row /\ cache' = {req[p].copy} /\ stray' = (req[p].copy # Listing)
    BY <1>2 DEF Fill, meta
  <2>2. Listing' = Listing
    BY <2>1, SameListing
  <2>3. req[p].copy = Listing' \/ stray'
    BY <2>1, <2>2
  <2> QED
    BY <2>1, <2>3 DEF ListingAgrees
<1>3. CASE req'[p].pc = "drop"
  BY <1>3 DEF ListingAgrees, At
<1>4. CASE ~Drop(p) /\ ~Fill(p) /\ req'[p].pc # "drop"
  <2>1. RowsKept
    BY <1>4, ServeRows
  <2>2. cache' = cache /\ stray' = stray
    BY <1>4 DEF Serve, Read, Count, Create, ReadListing, Query, Update, SoftDelete, Edit
  <2>3. req[p].pc # "drop"
    BY <1>4 DEF Serve, Read, Count, Create, ReadListing, Query, Update, SoftDelete, Edit, Granted, At
  <2>4. Dropping => Dropping'
    BY <2>3, ServeMoves DEF Dropping, At
  <2> QED
    BY <2>1, <2>2, <2>4, SameListing, ListingHeld DEF RowsKept
<1> QED
  BY <1>1, <1>2, <1>3, <1>4

LEMMA ListingStays == Typed /\ ListingAgrees /\ [Next]_wsVars => ListingAgrees'
<1> SUFFICES ASSUME Typed, ListingAgrees, [Next]_wsVars PROVE ListingAgrees'
  OBVIOUS
<1>1. ASSUME NEW p \in Proc, Request(p) PROVE ListingAgrees'
  <2>1. Dropping => Dropping'
    BY <1>1, RequestMoves DEF Dropping, At
  <2> QED
    BY <1>1, <2>1, RequestMoves, SameListing, ListingHeld DEF meta
<1>2. ASSUME NEW p \in Proc, Serve(p) PROVE ListingAgrees'
  BY <1>2, ServeAgrees
<1>3. ASSUME NEW p \in Proc, BreakOff(p) PROVE ListingAgrees'
  <2>1. row' = row /\ cache' = cache /\ stray' = (stray \/ At(p, "drop")) /\ Done(p)
    BY <1>3 DEF BreakOff, meta
  <2>2. Dropping => Dropping' \/ stray'
    BY <2>1, DoneTyped DEF Dropping, At
  <2>3. stray => stray'
    BY <2>1
  <2> QED
    BY <2>1, <2>2, <2>3, SameListing, ListingHeld
<1>4. ASSUME NEW p \in Proc, GuardStep(p), Others PROVE ListingAgrees'
  <2>1. row' = row /\ cache' = cache /\ stray' = stray
    BY <1>4 DEF GuardStep, Others
  <2>2. Dropping => Dropping'
    BY <1>4, GuardMoves DEF Dropping, At
  <2> QED
    BY <2>1, <2>2, SameListing, ListingHeld
<1>5. CASE Maintain
  <2>1. Listing' = Listing
    BY <1>5, MaintainRows DEF Listing, Live
  <2>2. cache' \subseteq cache /\ stray' = stray /\ Dropping' = Dropping
    BY <1>5, MaintainRows DEF Dropping, At
  <2> QED
    BY <2>1, <2>2, ListingHeld
<1>6. CASE ChangeRoles \/ ChangeLinks
  <2>1. row' = row /\ cache' = cache /\ stray' = stray /\ Dropping' = Dropping
    BY <1>6, RolesTyped DEF meta, Dropping, At
  <2> QED
    BY <2>1, SameListing, ListingHeld
<1>7. CASE UNCHANGED wsVars
  <2>1. row' = row /\ cache' = cache /\ stray' = stray /\ Dropping' = Dropping
    BY <1>7 DEF wsVars, meta, Dropping, At
  <2> QED
    BY <2>1, SameListing, ListingHeld
<1> QED
  BY <1>1, <1>2, <1>3, <1>4, <1>5, <1>6, <1>7, Steps

(* A cached listing is the database's unless a removal is pending, failed, *)
(* or was overtaken by a listing read earlier (documents.service.ts list). *)
THEOREM ListingNearlyFresh == Spec => []ListingAgrees
<1>1. Typed /\ [Next]_wsVars => Typed'
  BY TypedStays
<1>2. Typed /\ ListingAgrees /\ [Next]_wsVars => ListingAgrees'
  BY ListingStays
<1>3. Init => Typed /\ ListingAgrees
  BY InitTyped DEF Init, ListingAgrees
<1> QED
  BY <1>1, <1>2, <1>3, PTL DEF Spec
-----------------------------------------------------------------------------
(* ContentKept: what a job listed may go for good, however long it waits.  *)
LEMMA GoneStays ==
  ASSUME Typed, NEW d \in Doc, restored \subseteq restored',
         \/ row'[d] = row[d] /\ deletedAt'[d] = deletedAt[d]
         \/ Touched(d)
         \/ row'[d] = row[d] /\ deletedAt[d] = "recent"
         \/ row'[d] = "purged"
  PROVE  (Gone(d) => Gone(d)') /\ (row[d] = "purged" => row'[d] = "purged")
BY DEF Gone, Expired, Touched, Exists, None

LEMMA ClearHeld ==
  ASSUME ClearInv, Typed', \A d \in Doc : Gone(d) => Gone(d)',
         \A d \in Doc : row[d] = "purged" => row'[d] = "purged",
         \A d \in cleanup' : d \in cleanup \/ Gone(d)',
         \A d \in orphans' : d \in orphans \/ row'[d] = "purged"
  PROVE  ClearInv'
BY DEF ClearInv, Typed

LEMMA SameGone ==
  ASSUME row' = row, deletedAt' = deletedAt, restored' = restored, jobs' = jobs, ClearInv, Typed'
  PROVE  ClearInv'
BY DEF ClearInv, Gone, Expired, jobs

LEMMA ClearStays == ClearInv /\ [Next]_wsVars => ClearInv'
<1> SUFFICES ASSUME ClearInv, [Next]_wsVars PROVE ClearInv'
  OBVIOUS
<1>0. Typed /\ Typed'
  BY TypedStays DEF ClearInv
<1>1. ASSUME NEW p \in Proc, Request(p) PROVE ClearInv'
  BY <1>0, <1>1, RequestMoves, SameGone DEF meta
<1>2. ASSUME NEW p \in Proc, Serve(p) PROVE ClearInv'
  <2>1. jobs' = jobs /\ restored \subseteq restored'
    BY <1>0, <1>2, ServeRows DEF Serve
  <2>2. CASE RowsKept
    BY <1>0, <2>1, <2>2, SameGone DEF RowsKept
  <2>3. CASE ~RowsKept
    <3>1. PICK e \in Doc : /\ Touched(e)
                           /\ \A d \in Doc \ {e} : row'[d] = row[d] /\ deletedAt'[d] = deletedAt[d]
      BY <1>0, <1>2, <2>3, ServeRows
    <3>2. \A d \in Doc : (Gone(d) => Gone(d)') /\ (row[d] = "purged" => row'[d] = "purged")
      BY <1>0, <2>1, <3>1, GoneStays
    <3> QED
      BY <1>0, <2>1, <3>2, ClearHeld DEF jobs
  <2> QED
    BY <2>2, <2>3
<1>3. ASSUME NEW p \in Proc, BreakOff(p) PROVE ClearInv'
  BY <1>0, <1>3, SameGone DEF BreakOff, meta
<1>4. ASSUME NEW p \in Proc, GuardStep(p), Others PROVE ClearInv'
  BY <1>0, <1>4, SameGone DEF GuardStep, Others
<1>5. CASE Maintain
  <2>1. \A d \in Doc : (Gone(d) => Gone(d)') /\ (row[d] = "purged" => row'[d] = "purged")
    BY <1>0, <1>5, MaintainRows, GoneStays
  <2>2. \A d \in cleanup' : d \in cleanup \/ Gone(d)'
    BY <1>0, <1>5, MaintainRows DEF Gone
  <2> QED
    BY <1>0, <1>5, <2>1, <2>2, MaintainRows, ClearHeld
<1>6. CASE ChangeRoles \/ ChangeLinks
  BY <1>0, <1>6, RolesTyped, SameGone DEF meta
<1>7. CASE UNCHANGED wsVars
  BY <1>0, <1>7, SameGone DEF wsVars, meta
<1> QED
  BY <1>1, <1>2, <1>3, <1>4, <1>5, <1>6, <1>7, Steps

Kept == \A d \in content \ content' : d \in restored \/ row[d] = "purged" \/ Expired(d)
LEMMA ClearedOnlyGone == ClearInv /\ [Next]_wsVars => [Kept]_wsVars
<1> SUFFICES ASSUME ClearInv, [Next]_wsVars PROVE Kept \/ UNCHANGED wsVars
  OBVIOUS
<1>0. Typed
  BY DEF ClearInv
<1>1. CASE content \subseteq content'
  BY <1>1 DEF Kept
<1>2. CASE Maintain
  <2>1. content \ content' \subseteq cleanup \cup orphans
    BY <1>0, <1>2, MaintainRows
  <2> QED
    BY <2>1 DEF Kept, ClearInv, Gone
<1>3. content \subseteq content' \/ Maintain \/ UNCHANGED wsVars
  <2>1. ASSUME NEW p \in Proc, Request(p) PROVE content \subseteq content'
    BY <1>0, <2>1, RequestMoves DEF meta
  <2>2. ASSUME NEW p \in Proc, Serve(p) PROVE content \subseteq content'
    BY <1>0, <2>2, ServeRows
  <2>3. ASSUME NEW p \in Proc, BreakOff(p) \/ Others PROVE content \subseteq content'
    BY <2>3 DEF BreakOff, Others, meta
  <2>4. ASSUME ChangeRoles \/ ChangeLinks PROVE content \subseteq content'
    BY <1>0, <2>4, RolesTyped DEF meta
  <2> QED
    BY <2>1, <2>2, <2>3, <2>4, Steps
<1> QED
  BY <1>1, <1>2, <1>3

(* The jobs remove content only of documents deleted long ago or purged,   *)
(* however long they take, but for documents taken back from deleted       *)
(* meanwhile (document-maintenance.service.ts).                            *)
THEOREM ContentNotLost == Spec => ContentKept
<1>1. Init => ClearInv
  BY InitTyped DEF Init, ClearInv
<1>2. ClearInv /\ [Next]_wsVars => ClearInv'
  BY ClearStays
<1>3. ClearInv /\ [Next]_wsVars => [Kept]_wsVars
  BY ClearedOnlyGone
<1> QED
  BY <1>1, <1>2, <1>3, PTL DEF Spec, ContentKept, Kept
-----------------------------------------------------------------------------
(* GuardsAgree: the four copies of the rule, whatever the rows and roles.  *)
LEMMA Ranks ==
  ASSUME NEW role
  PROVE  /\ DocRank(role) \in 0..3
         /\ role = None => DocRank(role) = 0
         /\ role = "viewer" => DocRank(role) = 1
         /\ role = "editor" => DocRank(role) = 2
         /\ role = None => Mapped(role) = None
BY DEF DocRank, Mapped, None

LEMMA RulesAgree == GuardsAgree
<1> SUFFICES ASSUME NEW u \in User, NEW d \in Doc, NEW role \in {"viewer", "editor"}
             PROVE  /\ RestAllows(u, d, role) => SocketAllows(u, d, role)
                    /\ SocketAllows(u, d, role) /\ OwnerOf[d] # u => RestAllows(u, d, role)
                    /\ SocketAllows(u, d, role) => MayBeMentioned(u, d)
                    /\ MayLabel(u, d) => SocketAllows(u, d, role)
  BY DEF GuardsAgree
<1> DEFINE least == DocRank(role)   own == DocRank(perm[<<d, u>>])   mapped == DocRank(Mapped(member[u]))
<1>1. least \in {1, 2}
  BY Ranks
<1>2. own \in 0..3 /\ (perm[<<d, u>>] = None => own = 0) /\ (perm[<<d, u>>] = "editor" => own = 2)
  BY Ranks
<1>3. mapped \in 0..3 /\ (member[u] = None => mapped = 0)
  <2>1. mapped \in 0..3
    BY Ranks
  <2>2. member[u] = None => Mapped(member[u]) = None
    BY Ranks
  <2> QED
    BY <2>1, <2>2, Ranks
<1> HIDE DEF least, own, mapped
<1>4. (own >= least => perm[<<d, u>>] # None) /\ (mapped >= least => member[u] # None)
  BY <1>1, <1>2, <1>3
<1>5. perm[<<d, u>>] = "editor" => own >= least
  BY <1>1, <1>2
<1> QED
  BY <1>4, <1>5 DEF RestAllows, SocketAllows, MayBeMentioned, MayLabel, least, own, mapped

(* The gateway, the comments and the labels follow DocumentGuard's rule,   *)
(* in every reachable state (document.guard.ts, ws.gateway.ts).            *)
THEOREM CopiesOfTheRuleAgree == Spec => []GuardsAgree
<1>1. GuardsAgree
  BY RulesAgree
<1> QED
  BY <1>1, PTL
-----------------------------------------------------------------------------
(* GrantedWasEntitled: what a request has been found to be allowed at each *)
(* stage of its guard, and that its document, once seen, was there.        *)
OnWay(p) ==
  /\ req[p].pc \in {"link", "share"} => req[p].user \in Link
  /\ req[p].pc = "share" =>
       (LinkAllows(req[p].share, req[p].doc, Asks(req[p].op)) => p \in held)
  /\ req[p].pc = "workspace" => req[p].op \in {"create", "list"} /\ req[p].user \in User
  /\ req[p].pc \in {"doc", "perm", "member"} =>
       req[p].op \notin {"create", "list"} /\ req[p].user \in User /\ req[p].doc \in Doc
  /\ req[p].pc \in {"perm", "member"} => row[req[p].doc] # None
  /\ req[p].pc = "granted" =>
       p \in held \/ req[p].doc \in {d \in Doc : row[d] = "purged"} \/ req[p].names # None
WayInv == Typed /\ \A p \in Proc : OnWay(p)

(* Rows are made once and purged for good.                                 *)
RowsOn == \A d \in Doc : /\ row[d] # None => row'[d] # None
                         /\ row[d] = "purged" => row'[d] = "purged"

LEMMA WayKept ==
  ASSUME NEW q \in Proc, OnWay(q), req'[q] = req[q], RowsOn,
         req[q].pc # "idle" => (q \in held => q \in held')
  PROVE  OnWay(q)'
<1>1. CASE req[q].pc \in {"perm", "member"}
  BY <1>1 DEF OnWay, RowsOn
<1>2. CASE req[q].pc \notin {"perm", "member"}
  BY <1>2 DEF OnWay, RowsOn
<1> QED
  BY <1>1, <1>2

LEMMA StillHeld ==
  ASSUME NEW q \in Proc, Witnessed, req[q].pc # "idle", req'[q].pc # "idle", q \in held
  PROVE  q \in held'
BY DEF Witnessed, At

LEMMA EveryoneKept ==
  ASSUME WayInv, Typed', req' = req, RowsOn, Witnessed
  PROVE  WayInv'
<1>1. ASSUME NEW q \in Proc PROVE OnWay(q)'
  <2>1. req[q].pc # "idle" => (q \in held => q \in held')
    BY StillHeld
  <2> QED
    BY <2>1, WayKept DEF WayInv
<1> QED
  BY <1>1 DEF WayInv

LEMMA OthersKept ==
  ASSUME WayInv, Typed', NEW p \in Proc, \A q \in Proc \ {p} : req'[q] = req[q], RowsOn,
         Witnessed, OnWay(p)'
  PROVE  WayInv'
<1>1. ASSUME NEW q \in Proc \ {p} PROVE OnWay(q)'
  <2>1. req[q].pc # "idle" => (q \in held => q \in held')
    BY StillHeld
  <2> QED
    BY <2>1, WayKept DEF WayInv
<1> QED
  BY <1>1 DEF WayInv

(* A request that is entitled when a guard reads its right is witnessed.   *)
LEMMA ReadIsWitnessed ==
  ASSUME NEW p \in Proc, Witnessed, Entitled(req[p]), row' = row, UNCHANGED roles,
         req[p].pc # "idle", req'[p].pc # "idle", req'[p].op = req[p].op,
         req'[p].user = req[p].user, req'[p].doc = req[p].doc
  PROVE  p \in held'
<1>1. member' = member /\ perm' = perm /\ link' = link
  BY DEF roles
<1>2. Entitled(req[p])' <=> Entitled(req[p])
  BY <1>1 DEF Entitled, LinkAllows, WorkspaceAllows, RestAllows, Exists
<1> QED
  BY <1>2 DEF Witnessed, At

LEMMA Rights ==
  ASSUME NEW p \in Proc
  PROVE  /\ req[p].user \in Link /\ LinkAllows(link[req[p].user], req[p].doc, Asks(req[p].op))
              => Entitled(req[p])
         /\ req[p].user \in User /\ req[p].op \in {"create", "list"}
                 /\ WorkspaceAllows(req[p].user, Asks(req[p].op))
              => Entitled(req[p])
         /\ req[p].user \in User /\ req[p].op \notin {"create", "list"}
                 /\ RestAllows(req[p].user, req[p].doc, Asks(req[p].op))
              => Entitled(req[p])
<1>1. req[p].user \in User => req[p].user \notin Link
  BY AccessAssumption
<1>2. CASE req[p].user \in Link
  BY <1>1, <1>2 DEF Entitled
<1>3. CASE req[p].user \notin Link /\ req[p].op \in {"create", "list"}
  BY <1>3 DEF Entitled
<1>4. CASE req[p].user \notin Link /\ req[p].op \notin {"create", "list"}
  BY <1>4 DEF Entitled
<1> QED
  BY <1>2, <1>3, <1>4

LEMMA GuardWay ==
  ASSUME WayInv, NEW p \in Proc, GuardStep(p), Witnessed
  PROVE  OnWay(p)'
<1>0. Typed /\ OnWay(p) /\ row' = row /\ UNCHANGED roles
  BY DEF WayInv, GuardStep
<1>a. {"granted", "perm", "member"} \subseteq Point \ {"link"}
  BY DEF Point
<1>b. req[p].pc # "idle"
  BY <1>0, GuardMoves
<1>c. ASSUME NEW pc \in {"granted", "perm", "member"}, Go(p, pc)
      PROVE  /\ req'[p].pc = pc /\ req'[p].op = req[p].op /\ req'[p].user = req[p].user
             /\ req'[p].doc = req[p].doc /\ req'[p].names = req[p].names
             /\ p \in held \/ Entitled(req[p]) => p \in held'
  <2>1. /\ req'[p].pc = pc /\ req'[p].op = req[p].op /\ req'[p].user = req[p].user
        /\ req'[p].doc = req[p].doc /\ req'[p].names = req[p].names
    BY <1>0, <1>a, <1>c, GoPoint
  <2> QED
    BY <1>0, <1>b, <2>1, ReadIsWitnessed, StillHeld
<1>1. CASE Done(p)
  <2>1. req'[p].pc = "idle"
    BY <1>0, <1>1, DoneTyped DEF Idle
  <2> QED
    BY <2>1 DEF OnWay
<1>2. CASE ReadLink(p) /\ ~Done(p)
  <2> DEFINE share == link[req[p].user]
  <2>1. req[p].pc = "link" /\ req' = [req EXCEPT ![p].share = share, ![p].pc = "share"]
    BY <1>2 DEF ReadLink, At
  <2>2. req[p] \in RequestRecord /\ req'[p] = [req[p] EXCEPT !.share = share, !.pc = "share"]
    BY <1>0, <2>1 DEF Typed
  <2> HIDE DEF share
  <2>3. /\ req'[p].pc = "share" /\ req'[p].op = req[p].op /\ req'[p].user = req[p].user
        /\ req'[p].doc = req[p].doc /\ req'[p].share = share
    BY <2>2 DEF RequestRecord
  <2>4. req[p].user \in Link
    BY <1>0, <2>1 DEF OnWay
  <2>5. LinkAllows(share, req[p].doc, Asks(req[p].op)) => p \in held'
    BY <1>0, <1>b, <2>3, <2>4, Rights, ReadIsWitnessed DEF share
  <2> QED
    BY <2>3, <2>4, <2>5 DEF OnWay
<1>3. CASE AskShare(p) /\ ~Done(p)
  <2>1. req[p].pc = "share" /\ LinkAllows(req[p].share, req[p].doc, Asks(req[p].op)) /\ Go(p, "granted")
    BY <1>3 DEF AskShare, At
  <2>2. p \in held
    BY <1>0, <2>1 DEF OnWay
  <2>3. p \in held' /\ req'[p].pc = "granted"
    BY <1>c, <2>1, <2>2
  <2> QED
    BY <2>3 DEF OnWay
<1>4. CASE AskWorkspace(p) /\ ~Done(p)
  <2>1. /\ req[p].pc = "workspace" /\ Go(p, "granted")
        /\ req[p].names = None => WorkspaceAllows(req[p].user, Asks(req[p].op))
    BY <1>4 DEF AskWorkspace, At
  <2>2. req[p].names = None => Entitled(req[p])
    BY <1>0, <2>1, Rights DEF OnWay
  <2>3. (req[p].names = None => p \in held') /\ req'[p].names = req[p].names /\ req'[p].pc = "granted"
    BY <1>c, <2>1, <2>2
  <2> QED
    BY <2>3 DEF OnWay
<1>5. CASE FindDoc(p) /\ ~Done(p)
  <2>1. req[p].pc = "doc" /\ Exists(req[p].doc) /\ Go(p, "perm")
    BY <1>5 DEF FindDoc, At
  <2>2. /\ req'[p].pc = "perm" /\ req'[p].op = req[p].op /\ req'[p].user = req[p].user
        /\ req'[p].doc = req[p].doc
    BY <1>c, <2>1
  <2>3. row'[req[p].doc] # None
    BY <1>0, <2>1 DEF Exists
  <2> QED
    BY <1>0, <2>1, <2>2, <2>3 DEF OnWay
<1>6. ASSUME req[p].pc \in {"perm", "member"}, Go(p, "granted"),
             \/ DocRank(perm[<<req[p].doc, req[p].user>>]) >= DocRank(Asks(req[p].op))
             \/ DocRank(Mapped(member[req[p].user])) >= DocRank(Asks(req[p].op))
      PROVE  OnWay(p)'
  <2>1. /\ req'[p].pc = "granted" /\ req'[p].doc = req[p].doc
        /\ p \in held \/ Entitled(req[p]) => p \in held'
    BY <1>c, <1>6
  <2>2. /\ req[p].op \notin {"create", "list"} /\ req[p].user \in User /\ req[p].doc \in Doc
        /\ row[req[p].doc] # None
    BY <1>0, <1>6 DEF OnWay
  <2>3. CASE Exists(req[p].doc)
    <3>1. RestAllows(req[p].user, req[p].doc, Asks(req[p].op))
      BY <1>6, <2>3 DEF RestAllows
    <3>2. p \in held'
      BY <2>1, <2>2, <3>1, Rights
    <3> QED
      BY <2>1, <3>2 DEF OnWay
  <2>4. CASE ~Exists(req[p].doc)
    <3>1. req[p].doc \in Doc /\ row'[req[p].doc] = "purged"
      BY <1>0, <2>2, <2>4 DEF Exists
    <3> QED
      BY <2>1, <3>1 DEF OnWay
  <2> QED
    BY <2>3, <2>4
<1>7. CASE FindPerm(p)
  <2>1. CASE DocRank(perm[<<req[p].doc, req[p].user>>]) >= DocRank(Asks(req[p].op))
    BY <1>6, <1>7, <2>1 DEF FindPerm, At
  <2>2. CASE Go(p, "member")
    <3>1. /\ req'[p].pc = "member" /\ req'[p].op = req[p].op /\ req'[p].user = req[p].user
          /\ req'[p].doc = req[p].doc
      BY <1>c, <2>2
    <3>2. req[p].pc = "perm"
      BY <1>7 DEF FindPerm, At
    <3>3. row'[req[p].doc] # None
      BY <1>0, <3>2 DEF OnWay
    <3> QED
      BY <1>0, <3>1, <3>2, <3>3 DEF OnWay
  <2> QED
    BY <1>7, <2>1, <2>2 DEF FindPerm
<1>8. CASE FindRole(p) /\ ~Done(p)
  BY <1>6, <1>8 DEF FindRole, At
<1> QED
  BY <1>1, <1>2, <1>3, <1>4, <1>5, <1>7, <1>8 DEF GuardStep

LEMMA WayStays == WayInv /\ [Next]_wsVars => WayInv'
<1> SUFFICES ASSUME WayInv, [Next]_wsVars PROVE WayInv'
  OBVIOUS
<1>0. Typed /\ Typed'
  BY TypedStays DEF WayInv
<1>a. row' = row => RowsOn
  BY DEF RowsOn
<1>1. ASSUME NEW p \in Proc, Request(p) PROVE WayInv'
  <2>1. RowsOn
    BY <1>0, <1>1, <1>a, RequestMoves DEF meta
  <2>2. OnWay(p)'
    BY <1>0, <1>1, RequestMoves DEF OnWay
  <2>3. ASSUME NEW q \in Proc \ {p} PROVE OnWay(q)'
    <3>1. req'[q] = req[q] /\ (q \in held' <=> q \in held)
      BY <1>0, <1>1, RequestMoves
    <3> QED
      BY <2>1, <3>1, WayKept DEF WayInv
  <2> QED
    BY <1>0, <2>2, <2>3 DEF WayInv
<1>2. ASSUME NEW p \in Proc, Serve(p), Witnessed PROVE WayInv'
  <2>1. RowsOn
    <3>1. CASE RowsKept
      BY <1>a, <3>1 DEF RowsKept
    <3>2. CASE ~RowsKept
      <4>1. PICK e \in Doc : Touched(e) /\ \A d \in Doc \ {e} : row'[d] = row[d]
        BY <1>0, <1>2, <3>2, ServeRows
      <4> QED
        BY <4>1 DEF RowsOn, Touched, Exists, None
    <3> QED
      BY <3>1, <3>2
  <2>2. OnWay(p)'
    BY <1>0, <1>2, ServeMoves DEF OnWay
  <2>3. \A q \in Proc \ {p} : req'[q] = req[q]
    BY <1>0, <1>2, ServeMoves
  <2> QED
    BY <1>0, <1>2, <2>1, <2>2, <2>3, OthersKept
<1>3. ASSUME NEW p \in Proc, BreakOff(p), Witnessed PROVE WayInv'
  <2>1. RowsOn /\ Done(p)
    BY <1>3, <1>a DEF BreakOff, meta
  <2>2. req'[p].pc = "idle" /\ \A q \in Proc \ {p} : req'[q] = req[q]
    BY <1>0, <2>1, DoneTyped DEF Idle
  <2>3. OnWay(p)'
    BY <2>2 DEF OnWay
  <2> QED
    BY <1>0, <1>3, <2>1, <2>2, <2>3, OthersKept
<1>4. ASSUME NEW p \in Proc, GuardStep(p), Witnessed, Others PROVE WayInv'
  <2>1. RowsOn /\ OnWay(p)'
    BY <1>4, <1>a, GuardWay DEF GuardStep
  <2>2. \A q \in Proc \ {p} : req'[q] = req[q]
    BY <1>0, <1>4, GuardMoves
  <2> QED
    BY <1>0, <1>4, <2>1, <2>2, OthersKept
<1>5. CASE Maintain /\ Witnessed
  <2>1. req' = req /\ \A d \in Doc : row'[d] = row[d] \/ row'[d] = "purged"
    BY <1>0, <1>5, MaintainRows
  <2>2. RowsOn
    BY <2>1 DEF RowsOn, None
  <2> QED
    BY <1>0, <1>5, <2>1, <2>2, EveryoneKept
<1>6. CASE (ChangeRoles \/ ChangeLinks) /\ Witnessed
  <2>1. req' = req /\ RowsOn
    BY <1>0, <1>6, <1>a, RolesTyped DEF meta
  <2> QED
    BY <1>0, <1>6, <2>1, EveryoneKept
<1>7. CASE UNCHANGED wsVars
  <2>1. req' = req /\ RowsOn /\ held' = held
    BY <1>7, <1>a DEF wsVars, meta
  <2>2. ASSUME NEW q \in Proc PROVE OnWay(q)'
    BY <2>1, WayKept DEF WayInv
  <2> QED
    BY <1>0, <2>2 DEF WayInv
<1> QED
  BY <1>1, <1>2, <1>3, <1>4, <1>5, <1>6, <1>7, Steps

(* Whoever passes a guard was entitled at some moment since the request    *)
(* began, unless the document went meanwhile or the body named another     *)
(* workspace (document.guard.ts, workspace.guard.ts, auth.guard.ts), for   *)
(* any number of requests, users, links and changes of roles.              *)
THEOREM GuardsWitnessed == Spec => []GrantedWasEntitled
<1>1. Init => WayInv
  BY InitTyped DEF Init, WayInv, OnWay, Idle
<1>2. WayInv /\ [Next]_wsVars => WayInv'
  BY WayStays
<1>3. WayInv => GrantedWasEntitled
  BY DEF WayInv, OnWay, GrantedWasEntitled, At
<1> QED
  BY <1>1, <1>2, <1>3, PTL DEF Spec
=============================================================================
