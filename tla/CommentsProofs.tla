--------------------------- MODULE CommentsProofs ---------------------------
(***************************************************************************)
(* The safety properties of Comments, for any users, views, reads, any     *)
(* number of comments and any loads.                                       *)
(***************************************************************************)
EXTENDS Comments, SequenceTheorems, TLAPS

(* A request that has found a comment, and what it will write there.       *)
Change(op, values) == [op : {op}, c : Id, at : {"write", "tell"}, to : {{}}, val : values]
Posting == [op : {"post"}, c : Id, at : {"notes", "toast", "tell"}, to : SUBSET User,
            val : User \cup {None}]
Requests ==
  {NoRequest} \cup Posting
  \cup Change("react", [votes : Int]) \cup Change("edit", Bodies)
  \cup Change("remove", [gone : {TRUE}]) \cup Change("escalate", [priority : Int])
  \cup [op : {"resolve"}, c : Id, at : {"tell"}, to : {{}}, val : {None}]

(* What a request in hand may rely on: its comment is stored; a mention it *)
(* is about to tell of is; a deletion it is about to tell of is written.   *)
RequestFine(r, st, nt) ==
  /\ r # NoRequest => r.c \in DOMAIN st
  /\ r.op = "post" /\ r.at = "toast" => <<r.val, r.c>> \in nt
  /\ r.op = "remove" /\ r.at = "tell" => st[r.c].gone

NewsFine(n, st) == /\ n.view \in View /\ n.c \in DOMAIN st
                   /\ n.kind = "deleted" => st[n.c].gone

(* A listing, however old, names stored comments.                          *)
ThreadSet == [id : Id, status : Statuses, replies : SUBSET Id]
Names(ts, st) == ts \subseteq ThreadSet /\ \A t \in ts : t.id \in DOMAIN st

(* A read for a view is one of threads.                                    *)
FetchFine(g, st) ==
  \/ g = NoFetch
  \/ /\ g = [at |-> g.at, kind |-> g.kind, view |-> g.view, got |-> g.got]
     /\ g.view \in View \cup {None} /\ (g.view \in View => g.kind = "threads")
     /\ g.kind = "threads" => Names(g.got, st)

StoredInv  == stored \in Seq(CommentSet) /\ Len(stored) <= MaxComments
RequestInv == /\ request \in [User -> Requests]
              /\ \A u \in User : RequestFine(request[u], stored, notes)
NewsInv    == /\ open \subseteq View /\ \A n \in news : NewsFine(n, stored)
              /\ toasts \subseteq notes
ReadInv    == /\ threadCache # None => Names(threadCache, stored)
              /\ shown = [v \in View |-> shown[v]] /\ \A v \in View : Names(shown[v], stored)
              /\ fetch = [f \in Fetch |-> fetch[f]] /\ \A f \in Fetch : FetchFine(fetch[f], stored)

(* A reaction under way writes no more than the reactions written so far,  *)
(* and itself; unless two met, exactly one more than is stored.            *)
VoteFine(c, st, n, overlapped, crossed) ==
  /\ c \notin DOMAIN st => n = 0
  /\ c \in DOMAIN st /\ ~crossed => st[c].votes <= n /\ (~overlapped => st[c].votes = n)
ReactionFine(r, n, overlapped, crossed) ==
  ~crossed => r.val.votes <= n + 1 /\ (~overlapped => r.val.votes = n + 1)

VoteInv ==
  /\ cast \in [Id -> Int]
  /\ \A c \in Id : /\ VoteFine(c, stored, cast[c], c \in met, c \in upset)
                   /\ \A u \in Reacting(c) : ReactionFine(request[u], cast[c], c \in met, c \in upset)

Inv == StoredInv /\ RequestInv /\ NewsInv /\ ReadInv /\ VoteInv

(* No comment is dropped and no deletion undone.                           *)
Later(old, new) == \A c \in DOMAIN old : c \in DOMAIN new /\ (old[c].gone => new[c].gone)

LEMMA InvInit == Init => Inv
<1> SUFFICES ASSUME Init PROVE Inv
  OBVIOUS
<1>1. stored = <<>> /\ cast = [c \in Id |-> 0] /\ met = {} /\ upset = {} /\ threadCache = None
      /\ request = [u \in User |-> NoRequest] /\ fetch = [f \in Fetch |-> NoFetch]
      /\ shown = [v \in View |-> {}] /\ news = {} /\ notes = {} /\ toasts = {}
      /\ open \subseteq View
  BY DEF Init
<1>2. stored \in Seq(CommentSet) /\ Len(stored) = 0 /\ DOMAIN stored = {}
  BY <1>1
<1>3. StoredInv
  BY <1>2, CommentsAssumption DEF StoredInv
<1>4. RequestInv
  BY <1>1 DEF RequestInv, RequestFine, Requests, NoRequest
<1>5. NewsInv
  BY <1>1 DEF NewsInv
<1>6. ReadInv
  BY <1>1 DEF ReadInv, Names, FetchFine
<1>7. VoteInv
  <2>1. \A c \in Id : Reacting(c) = {}
    BY <1>1 DEF Reacting, NoRequest
  <2> QED BY <1>1, <1>2, <2>1 DEF VoteInv, VoteFine
<1> QED BY <1>3, <1>4, <1>5, <1>6, <1>7 DEF Inv
-----------------------------------------------------------------------------
(* Writes to a comment                                                     *)

(* One field is given another value of its kind.                           *)
KeepsVotes(old, val) ==
  /\ Written(old, val) \in CommentSet /\ "votes" \notin DOMAIN val
  /\ old.gone => Written(old, val).gone
  /\ Written(old, val).votes = old.votes

PlainBodies ==
  [status : Statuses] \cup [mark : Marks] \cup [priority : Int] \cup [by : User]
  \cup [parent : Id \cup {None}] \cup [thread : Id \cup {None}]

LEMMA PlainWritten ==
  ASSUME NEW old \in CommentSet, NEW val \in PlainBodies
  PROVE  KeepsVotes(old, val)
<1>1. ASSUME val \in [status : Statuses] PROVE KeepsVotes(old, val)
  <2>1. Written(old, val) = [old EXCEPT !.status = val.status] /\ val.status \in Statuses /\ "votes" \notin DOMAIN val
    BY <1>1 DEF Written, CommentSet
  <2> QED BY <2>1 DEF CommentSet, KeepsVotes
<1>2. ASSUME val \in [mark : Marks] PROVE KeepsVotes(old, val)
  <2>1. Written(old, val) = [old EXCEPT !.mark = val.mark] /\ val.mark \in Marks /\ "votes" \notin DOMAIN val
    BY <1>2 DEF Written, CommentSet
  <2> QED BY <2>1 DEF CommentSet, KeepsVotes
<1>3. ASSUME val \in [priority : Int] PROVE KeepsVotes(old, val)
  <2>1. Written(old, val) = [old EXCEPT !.priority = val.priority] /\ val.priority \in Int /\ "votes" \notin DOMAIN val
    BY <1>3 DEF Written, CommentSet
  <2> QED BY <2>1 DEF CommentSet, KeepsVotes
<1>4. ASSUME val \in [by : User] PROVE KeepsVotes(old, val)
  <2>1. Written(old, val) = [old EXCEPT !.by = val.by] /\ val.by \in User /\ "votes" \notin DOMAIN val
    BY <1>4 DEF Written, CommentSet
  <2> QED BY <2>1 DEF CommentSet, KeepsVotes
<1>5. ASSUME val \in [parent : Id \cup {None}] PROVE KeepsVotes(old, val)
  <2>1. Written(old, val) = [old EXCEPT !.parent = val.parent] /\ val.parent \in (Id \cup {None}) /\ "votes" \notin DOMAIN val
    BY <1>5 DEF Written, CommentSet
  <2> QED BY <2>1 DEF CommentSet, KeepsVotes
<1>6. ASSUME val \in [thread : Id \cup {None}] PROVE KeepsVotes(old, val)
  <2>1. Written(old, val) = [old EXCEPT !.thread = val.thread] /\ val.thread \in (Id \cup {None}) /\ "votes" \notin DOMAIN val
    BY <1>6 DEF Written, CommentSet
  <2> QED BY <2>1 DEF CommentSet, KeepsVotes
<1> QED BY <1>1, <1>2, <1>3, <1>4, <1>5, <1>6 DEF PlainBodies

LEMMA MarkWritten ==
  ASSUME NEW old \in CommentSet, NEW val \in [gone : {TRUE}]
  PROVE  KeepsVotes(old, val) /\ Written(old, val).gone
<1>1. Written(old, val) = [old EXCEPT !.gone = TRUE] /\ "votes" \notin DOMAIN val
  BY DEF Written, CommentSet
<1> QED BY <1>1 DEF CommentSet, KeepsVotes

LEMMA VotesWritten ==
  ASSUME NEW old \in CommentSet, NEW val \in [votes : Int]
  PROVE  /\ Written(old, val) \in CommentSet /\ "votes" \in DOMAIN val /\ val.votes \in Int
         /\ old.gone => Written(old, val).gone
         /\ Written(old, val).votes = val.votes
<1>1. Written(old, val) = [old EXCEPT !.votes = val.votes] /\ "votes" \in DOMAIN val /\ val.votes \in Int
  BY DEF Written, CommentSet
<1> QED BY <1>1 DEF CommentSet

LEMMA WrittenFine ==
  ASSUME NEW old \in CommentSet, NEW r \in Requests, r # NoRequest, r.at = "write"
  PROVE  /\ Written(old, r.val) \in CommentSet
         /\ old.gone \/ r.op = "remove" => Written(old, r.val).gone
         /\ Written(old, r.val).votes = IF r.op = "react" \/ Sets(r) THEN r.val.votes ELSE old.votes
         /\ r.op = "react" \/ Sets(r) => r.val.votes \in Int
<1>1. CASE r \in Change("react", [votes : Int])
  <2>1. r.op = "react" /\ r.val \in [votes : Int]
    BY <1>1 DEF Change
  <2> QED BY <2>1, VotesWritten
<1>2. CASE r \in Change("edit", Bodies)
  <2>1. r.op = "edit" /\ r.val \in Bodies
    BY <1>2 DEF Change
  <2>2. r.val \in PlainBodies \/ r.val \in [gone : {TRUE}] \/ r.val \in [votes : Int]
    BY <2>1, CommentsAssumption DEF Bodies, PlainBodies
  <2>3. Sets(r) <=> "votes" \in DOMAIN r.val
    BY <2>1 DEF Sets
  <2> QED BY <2>1, <2>2, <2>3, PlainWritten, MarkWritten, VotesWritten DEF KeepsVotes
<1>3. CASE r \in Change("remove", [gone : {TRUE}])
  <2>1. r.op = "remove" /\ r.val \in [gone : {TRUE}] /\ ~Sets(r)
    BY <1>3 DEF Change, Sets
  <2> QED BY <2>1, MarkWritten DEF KeepsVotes
<1>4. CASE r \in Change("escalate", [priority : Int])
  <2>1. r.op = "escalate" /\ r.val \in [priority : Int] /\ ~Sets(r)
    BY <1>4 DEF Change, Sets
  <2>2. r.val \in PlainBodies
    BY <2>1 DEF PlainBodies
  <2> QED BY <2>1, <2>2, PlainWritten DEF KeepsVotes
<1>5. r \notin Posting /\ r \notin [op : {"resolve"}, c : Id, at : {"tell"}, to : {{}}, val : {None}]
  BY DEF Posting
<1> QED BY <1>1, <1>2, <1>3, <1>4, <1>5 DEF Requests
-----------------------------------------------------------------------------
(* What is stored only grows                                               *)

LEMMA KnownIds == StoredInv => Known = 1..Len(stored) /\ Known \subseteq Id /\ Len(stored) \in Nat
BY CommentsAssumption DEF StoredInv, Id, Known

LEMMA SaveGrows ==
  ASSUME StoredInv, NEW u \in User, NEW p \in Id \cup {None}, NEW t \in Id \cup {None}, NEW ms,
         Save(u, p, t, ms)
  PROVE  /\ StoredInv' /\ Later(stored, stored')
         /\ \E c \in Id : /\ c \notin DOMAIN stored /\ DOMAIN stored' = DOMAIN stored \cup {c}
                          /\ stored'[c].votes = 0
                          /\ \A k \in DOMAIN stored : stored'[k] = stored[k]
                          /\ request' = [request EXCEPT ![u] =
                               [op |-> "post", c |-> c, at |-> "notes",
                                to |-> (ms \cap Reader) \ {u}, val |-> None]]
<1> DEFINE c == Len(stored) + 1
           new == Comment(u, p, t)
<1>1. /\ c \in Id /\ stored' = Append(stored, new)
      /\ request' = [request EXCEPT ![u] =
           [op |-> "post", c |-> c, at |-> "notes", to |-> (ms \cap Reader) \ {u}, val |-> None]]
  BY DEF Save, Open
<1>2. new \in CommentSet /\ new.votes = 0
  BY CommentsAssumption DEF Comment, CommentSet, Statuses, Marks
<1> HIDE DEF new
<1>3. /\ stored \in Seq(CommentSet) /\ Len(stored) \in Nat /\ MaxComments \in Nat
      /\ DOMAIN stored = 1..Len(stored)
  BY CommentsAssumption DEF StoredInv
<1>4. /\ stored' \in Seq(CommentSet) /\ Len(stored') = c
      /\ \A k \in 1..Len(stored) : stored'[k] = stored[k]
      /\ stored'[c] = new
  BY <1>1, <1>2, <1>3, AppendProperties
<1>5. DOMAIN stored' = 1..c /\ c \notin DOMAIN stored /\ DOMAIN stored' = DOMAIN stored \cup {c}
  BY <1>3, <1>4
<1>6. StoredInv'
  BY <1>1, <1>4, CommentsAssumption DEF StoredInv, Id
<1>7. Later(stored, stored')
  BY <1>3, <1>4, <1>5 DEF Later
<1> QED BY <1>1, <1>2, <1>3, <1>4, <1>5, <1>6, <1>7

(* One comment is given another value.                                     *)
LEMMA ChangeGrows ==
  ASSUME StoredInv, NEW c \in DOMAIN stored, NEW new \in CommentSet,
         stored' = [stored EXCEPT ![c] = new], stored[c].gone => new.gone
  PROVE  /\ StoredInv' /\ Later(stored, stored') /\ DOMAIN stored' = DOMAIN stored
         /\ stored'[c] = new /\ \A k \in DOMAIN stored \ {c} : stored'[k] = stored[k]
<1>1. /\ stored \in Seq(CommentSet) /\ Len(stored) \in Nat /\ DOMAIN stored = 1..Len(stored)
  BY DEF StoredInv
<1>2. DOMAIN stored' = 1..Len(stored) /\ stored' \in Seq(CommentSet) /\ Len(stored') = Len(stored)
  BY <1>1, ExceptSeq
<1>3. stored'[c] = new /\ \A k \in DOMAIN stored \ {c} : stored'[k] = stored[k]
  BY <1>1
<1>4. Later(stored, stored')
  BY <1>1, <1>2, <1>3 DEF Later
<1>5. StoredInv'
  BY <1>2 DEF StoredInv
<1> QED BY <1>1, <1>2, <1>3, <1>4, <1>5

(* The update of a request that has found its comment.                     *)
LEMMA WriteGrows ==
  ASSUME StoredInv, RequestInv, NEW u \in User, Write(u)
  PROVE  /\ StoredInv' /\ Later(stored, stored') /\ DOMAIN stored' = DOMAIN stored
         /\ request[u] # NoRequest /\ request[u].at = "write" /\ request[u].c \in DOMAIN stored
         /\ \A k \in DOMAIN stored : stored'[k].votes =
              IF k = request[u].c /\ (request[u].op = "react" \/ Sets(request[u]))
              THEN request[u].val.votes ELSE stored[k].votes
         /\ request[u].op = "react" \/ Sets(request[u]) => request[u].val.votes \in Int
         /\ request[u].op = "remove" => stored'[request[u].c].gone
<1> DEFINE r == request[u]
           new == Written(stored[r.c], r.val)
<1>1. /\ r.op # "none" /\ r.at = "write" /\ stored' = [stored EXCEPT ![r.c] = new]
  BY DEF Write
<1>2. r # NoRequest /\ r \in Requests /\ RequestFine(r, stored, notes)
  BY <1>1 DEF RequestInv, NoRequest
<1>3. r.c \in DOMAIN stored
  BY <1>2 DEF RequestFine
<1>4. stored[r.c] \in CommentSet
  BY <1>3 DEF StoredInv
<1>5. /\ new \in CommentSet /\ (stored[r.c].gone \/ r.op = "remove" => new.gone)
      /\ new.votes = IF r.op = "react" \/ Sets(r) THEN r.val.votes ELSE stored[r.c].votes
      /\ r.op = "react" \/ Sets(r) => r.val.votes \in Int
  BY <1>1, <1>2, <1>4, WrittenFine
<1> HIDE DEF new
<1>6. stored[r.c].gone => new.gone
  BY <1>5
<1> HIDE DEF r
<1>7. /\ StoredInv' /\ Later(stored, stored') /\ DOMAIN stored' = DOMAIN stored
      /\ stored'[r.c] = new /\ \A k \in DOMAIN stored \ {r.c} : stored'[k] = stored[k]
  BY <1>1, <1>3, <1>5, <1>6, ChangeGrows
<1>8. \A k \in DOMAIN stored : stored'[k].votes =
        IF k = r.c /\ (r.op = "react" \/ Sets(r)) THEN r.val.votes ELSE stored[k].votes
  BY <1>5, <1>7
<1>9. r.op = "remove" => stored'[r.c].gone
  BY <1>5, <1>7
<1> QED BY <1>1, <1>2, <1>3, <1>5, <1>7, <1>8, <1>9 DEF r

LEMMA ResolveGrows ==
  ASSUME StoredInv, NEW u \in User, Resolve(u)
  PROVE  /\ StoredInv' /\ Later(stored, stored') /\ DOMAIN stored' = DOMAIN stored
         /\ \A k \in DOMAIN stored : stored'[k].votes = stored[k].votes
         /\ \E c \in DOMAIN stored : request' = [request EXCEPT ![u] =
              [op |-> "resolve", c |-> c, at |-> "tell", to |-> {}, val |-> None]]
<1>1. PICK c \in Known : /\ stored' = [stored EXCEPT ![c].status = "resolved"]
                         /\ Open(u, "resolve", c, "tell", {}, None)
  BY DEF Resolve
<1> DEFINE new == [stored[c] EXCEPT !.status = "resolved"]
<1>3. c \in DOMAIN stored
  BY DEF Known
<1>4. stored[c] \in CommentSet
  BY <1>3 DEF StoredInv
<1>5. new \in CommentSet /\ new.gone = stored[c].gone /\ new.votes = stored[c].votes
  BY <1>4 DEF CommentSet, Statuses
<1>6. stored' = [stored EXCEPT ![c] = new]
  BY <1>1
<1>7. request' = [request EXCEPT ![u] =
              [op |-> "resolve", c |-> c, at |-> "tell", to |-> {}, val |-> None]]
  BY <1>1 DEF Open
<1> HIDE DEF new
<1>8. stored[c].gone => new.gone
  BY <1>5
<1>9. /\ StoredInv' /\ Later(stored, stored') /\ DOMAIN stored' = DOMAIN stored
      /\ stored'[c] = new /\ \A k \in DOMAIN stored \ {c} : stored'[k] = stored[k]
  BY <1>3, <1>5, <1>6, <1>8, ChangeGrows
<1> QED BY <1>3, <1>5, <1>7, <1>9

LEMMA ModerateGrows ==
  ASSUME StoredInv, NEW u \in User, Moderate(u)
  PROVE  /\ StoredInv' /\ Later(stored, stored') /\ DOMAIN stored' = DOMAIN stored
         /\ \A k \in DOMAIN stored : stored'[k].votes = stored[k].votes
<1>1. PICK c \in DOMAIN stored : \E mark \in Marks \ {"pending"} : stored' = [stored EXCEPT ![c].mark = mark]
  BY DEF Moderate, Known
<1>2. PICK mark \in Marks : stored' = [stored EXCEPT ![c].mark = mark]
  BY <1>1
<1> DEFINE new == [stored[c] EXCEPT !.mark = mark]
<1>3. stored[c] \in CommentSet
  BY DEF StoredInv
<1>4. new \in CommentSet /\ new.gone = stored[c].gone /\ new.votes = stored[c].votes
  BY <1>3 DEF CommentSet
<1>5. stored' = [stored EXCEPT ![c] = new]
  BY <1>2
<1> HIDE DEF new
<1>6. stored[c].gone => new.gone
  BY <1>4
<1>7. /\ StoredInv' /\ Later(stored, stored') /\ DOMAIN stored' = DOMAIN stored
      /\ stored'[c] = new /\ \A k \in DOMAIN stored \ {c} : stored'[k] = stored[k]
  BY <1>4, <1>5, <1>6, ChangeGrows
<1> QED BY <1>4, <1>7
-----------------------------------------------------------------------------
(* A longer history disturbs nobody                                        *)

LEMMA LaterNames ==
  ASSUME NEW old, NEW new, Later(old, new)
  PROVE  /\ \A ts : Names(ts, old) => Names(ts, new)
         /\ \A g : FetchFine(g, old) => FetchFine(g, new)
         /\ \A n : NewsFine(n, old) => NewsFine(n, new)
         /\ \A r, more : \A nt \in SUBSET more : RequestFine(r, old, nt) /\ r \in Requests
                                                   => RequestFine(r, new, more)
<1>1. \A ts : Names(ts, old) => Names(ts, new)
  BY DEF Later, Names
<1>2. \A g : FetchFine(g, old) => FetchFine(g, new)
  BY <1>1 DEF FetchFine
<1>3. \A n : NewsFine(n, old) => NewsFine(n, new)
  BY DEF Later, NewsFine
<1>4. ASSUME NEW r \in Requests, NEW more, NEW nt \in SUBSET more, RequestFine(r, old, nt)
      PROVE  RequestFine(r, new, more)
  <2>1. r.op = "remove" => r # NoRequest
    BY DEF NoRequest
  <2> QED BY <1>4, <2>1 DEF Later, RequestFine
<1> QED BY <1>1, <1>2, <1>3, <1>4

LEMMA ReadsGrow ==
  ASSUME ReadInv, UNCHANGED reads, Later(stored, stored')
  PROVE  ReadInv'
<1>1. /\ \A ts : Names(ts, stored) => Names(ts, stored')
      /\ \A g : FetchFine(g, stored) => FetchFine(g, stored')
  BY LaterNames
<1> QED BY <1>1 DEF ReadInv, reads

LEMMA NewsGrow ==
  ASSUME NewsInv, UNCHANGED <<open, news>>, Later(stored, stored'), toasts' \subseteq notes'
  PROVE  NewsInv'
<1>1. \A n : NewsFine(n, stored) => NewsFine(n, stored')
  BY LaterNames
<1> QED BY <1>1 DEF NewsInv

LEMMA RequestsGrow ==
  ASSUME RequestInv, Later(stored, stored'), notes \subseteq notes', NEW u \in User,
         NEW r \in Requests, request' = [request EXCEPT ![u] = r], RequestFine(r, stored', notes')
  PROVE  RequestInv'
<1>1. \A v \in User : RequestFine(request[v], stored', notes')
  <2>1. \A q, more : \A nt \in SUBSET more : RequestFine(q, stored, nt) /\ q \in Requests
                                               => RequestFine(q, stored', more)
    BY LaterNames
  <2> QED BY <2>1 DEF RequestInv
<1>2. request' \in [User -> Requests]
  BY DEF RequestInv
<1>3. \A v \in User : RequestFine(request'[v], stored', notes')
  BY <1>1 DEF RequestInv
<1> QED BY <1>2, <1>3 DEF RequestInv

(* Nothing happens to the votes, and nobody begins to react.               *)
LEMMA VotesKeep ==
  ASSUME VoteInv, UNCHANGED <<cast, met, upset>>, DOMAIN stored' = DOMAIN stored,
         \A k \in DOMAIN stored : stored'[k].votes = stored[k].votes,
         \A v \in User : request'[v] = request[v] \/ ~(request'[v].op = "react" /\ request'[v].at = "write")
  PROVE  VoteInv'
<1>1. cast' \in [Id -> Int]
  BY DEF VoteInv
<1>2. ASSUME NEW c \in Id
      PROVE  /\ VoteFine(c, stored', cast'[c], c \in met', c \in upset')
             /\ \A u \in Reacting(c)' : ReactionFine(request'[u], cast'[c], c \in met', c \in upset')
  <2>1. VoteFine(c, stored, cast[c], c \in met, c \in upset)
    BY DEF VoteInv
  <2>2. VoteFine(c, stored', cast'[c], c \in met', c \in upset')
    BY <2>1 DEF VoteFine
  <2>3. ASSUME NEW u \in Reacting(c)'
        PROVE  ReactionFine(request'[u], cast'[c], c \in met', c \in upset')
    <3>1. u \in User /\ request'[u].op = "react" /\ request'[u].at = "write" /\ request'[u].c = c
      BY <2>3 DEF Reacting
    <3>2. request'[u] = request[u] /\ u \in Reacting(c)
      BY <3>1 DEF Reacting
    <3>3. ReactionFine(request[u], cast[c], c \in met, c \in upset)
      BY <3>2 DEF VoteInv
    <3> QED BY <3>2, <3>3
  <2> QED BY <2>2, <2>3
<1> QED BY <1>1, <1>2 DEF VoteInv
-----------------------------------------------------------------------------
(* The requests                                                            *)

LEMMA LaterSame == stored' = stored => Later(stored, stored')
BY DEF Later

LEMMA SaveStays ==
  ASSUME Inv, UNCHANGED reads, NEW u \in User, NEW p \in Id \cup {None}, NEW t \in Id \cup {None},
         NEW ms, Save(u, p, t, ms)
  PROVE  Inv'
<1>1. StoredInv /\ RequestInv /\ NewsInv /\ ReadInv /\ VoteInv
  BY DEF Inv
<1>2. UNCHANGED <<cast, met, upset, news, notes, toasts, open>>
  BY DEF Save, reads
<1>3. StoredInv' /\ Later(stored, stored')
  BY <1>1, SaveGrows
<1>4. PICK c \in Id : /\ c \notin DOMAIN stored /\ DOMAIN stored' = DOMAIN stored \cup {c}
                      /\ stored'[c].votes = 0
                      /\ \A k \in DOMAIN stored : stored'[k] = stored[k]
                      /\ request' = [request EXCEPT ![u] =
                           [op |-> "post", c |-> c, at |-> "notes",
                            to |-> (ms \cap Reader) \ {u}, val |-> None]]
  BY <1>1, SaveGrows
<1> DEFINE r == [op |-> "post", c |-> c, at |-> "notes", to |-> (ms \cap Reader) \ {u}, val |-> None]
<1>5. r \in Requests /\ r.op = "post" /\ RequestFine(r, stored', notes')
  BY <1>4, CommentsAssumption DEF Requests, Posting, RequestFine
<1>6. request' = [request EXCEPT ![u] = r]
  BY <1>4
<1> HIDE DEF r
<1>7. RequestInv'
  BY <1>1, <1>2, <1>3, <1>5, <1>6, RequestsGrow
<1>8. NewsInv'
  BY <1>1, <1>2, <1>3, NewsGrow DEF NewsInv
<1>9. ReadInv'
  BY <1>1, <1>3, ReadsGrow
<1>10. VoteInv'
  <2>1. ASSUME NEW k \in Id PROVE VoteFine(k, stored', cast[k], k \in met, k \in upset)
    <3>1. VoteFine(k, stored, cast[k], k \in met, k \in upset)
      BY <1>1 DEF VoteInv
    <3>2. CASE k = c
      BY <1>4, <3>1, <3>2 DEF VoteFine
    <3>3. CASE k # c
      BY <1>4, <3>1, <3>3 DEF VoteFine
    <3> QED BY <3>2, <3>3
  <2>2. ASSUME NEW k \in Id, NEW v \in Reacting(k)'
        PROVE  ReactionFine(request'[v], cast[k], k \in met, k \in upset)
    <3>1. v \in User /\ request'[v].op = "react" /\ request'[v].at = "write" /\ request'[v].c = k
      BY <2>2 DEF Reacting
    <3>2. request'[v] = request[v]
      BY <1>1, <1>5, <1>6, <3>1 DEF RequestInv
    <3>3. v \in Reacting(k)
      BY <3>1, <3>2 DEF Reacting
    <3> QED BY <1>1, <3>2, <3>3 DEF VoteInv
  <2> QED BY <1>1, <1>2, <2>1, <2>2 DEF VoteInv
<1> QED BY <1>3, <1>7, <1>8, <1>9, <1>10 DEF Inv

LEMMA PostStays ==
  ASSUME Inv, UNCHANGED reads, NEW u \in User, Create(u) \/ Reply(u)
  PROVE  Inv'
<1>1. CASE Create(u)
  BY <1>1, SaveStays DEF Create
<1>2. CASE Reply(u)
  <2>1. PICK p \in Known, ms \in Mentions : \E t \in ThreadsFor(p) : Save(u, p, t, ms)
    BY <1>2 DEF Reply
  <2>2. PICK t \in ThreadsFor(p) : Save(u, p, t, ms)
    BY <2>1
  <2>3. p \in Id /\ stored[p].thread \in Id \cup {None}
    <3>1. p \in DOMAIN stored /\ StoredInv
      BY DEF Known, Inv
    <3>2. stored[p] \in CommentSet
      BY <3>1 DEF StoredInv
    <3> QED BY <3>1, <3>2, KnownIds DEF CommentSet
  <2>4. t \in Id
    BY <2>3 DEF ThreadsFor
  <2> QED BY <2>2, <2>3, <2>4, SaveStays
<1> QED BY <1>1, <1>2

(* One request goes on; nothing is stored but notifications.               *)
LEMMA HandStays ==
  ASSUME Inv, UNCHANGED <<reads, store>>, NEW u \in User, NEW r \in Requests,
         request' = [request EXCEPT ![u] = r], ~(r.op = "react" /\ r.at = "write"),
         notes \subseteq notes', toasts' \subseteq notes', RequestFine(r, stored, notes'),
         \A n \in news' : NewsFine(n, stored)
  PROVE  Inv'
<1>1. StoredInv /\ RequestInv /\ NewsInv /\ ReadInv /\ VoteInv
  BY DEF Inv
<1>2. UNCHANGED <<stored, cast, met, upset, open>> /\ Later(stored, stored')
  BY LaterSame DEF store, reads
<1>3. RequestInv'
  BY <1>1, <1>2, RequestsGrow
<1>4. NewsInv'
  BY <1>1, <1>2 DEF NewsInv
<1>5. ReadInv'
  BY <1>1, <1>2, ReadsGrow
<1>6. VoteInv'
  <2>1. \A v \in User : request'[v] = request[v] \/ ~(request'[v].op = "react" /\ request'[v].at = "write")
    BY <1>1 DEF RequestInv
  <2> QED BY <1>1, <1>2, <2>1, VotesKeep
<1> QED BY <1>1, <1>2, <1>3, <1>4, <1>5, <1>6 DEF Inv, StoredInv

LEMMA MentionStays ==
  ASSUME Inv, UNCHANGED reads, NEW u \in User, Note(u) \/ Toast(u) \/ NotesEnd(u)
  PROVE  Inv'
<1> DEFINE r == request[u]
<1>1. /\ r.op = "post" /\ r.at \in {"notes", "toast"}
      /\ UNCHANGED <<store, news>>
  BY DEF Note, Toast, NotesEnd
<1>2. r \in Posting /\ r.c \in DOMAIN stored /\ toasts \subseteq notes
      /\ \A n \in news : NewsFine(n, stored)
  <2>1. r \in Requests /\ RequestFine(r, stored, notes)
    BY DEF Inv, RequestInv
  <2>2. r # NoRequest /\ r.op = "post"
    BY <1>1 DEF NoRequest
  <2> HIDE DEF r
  <2>5. r \in Posting
    BY <2>1, <2>2 DEF Requests, Change
  <2>3. r.c \in DOMAIN stored
    BY <2>1, <2>2 DEF RequestFine
  <2>4. toasts \subseteq notes /\ \A n \in news : NewsFine(n, stored)
    BY DEF Inv, NewsInv
  <2> QED BY <2>3, <2>4, <2>5
<1>3. CASE Note(u)
  <2>1. PICK m \in r.to : /\ notes' = notes \cup {<<m, r.c>>}
                          /\ request' = [request EXCEPT ![u].at = "toast", ![u].val = m]
    BY <1>3 DEF Note
  <2> DEFINE q == [r EXCEPT !.at = "toast", !.val = m]
  <2>2. q \in Posting /\ q.op = "post" /\ q.at = "toast" /\ q.val = m /\ q.c = r.c
    BY <1>2, <2>1 DEF Posting
  <2>3. request' = [request EXCEPT ![u] = q]
    BY <2>1
  <2> HIDE DEF q
  <2>4. q \in Requests /\ RequestFine(q, stored, notes')
    BY <1>2, <2>1, <2>2 DEF Requests, RequestFine
  <2>5. toasts' = toasts
    BY <1>3 DEF Note
  <2> QED BY <1>1, <1>2, <2>1, <2>2, <2>3, <2>4, <2>5, HandStays
<1>4. CASE Toast(u)
  <2> DEFINE q == [r EXCEPT !.at = "notes", !.to = r.to \ {r.val}]
  <2>1. /\ toasts' \in {toasts, toasts \cup {<<r.val, r.c>>}} /\ notes' = notes
        /\ request' = [request EXCEPT ![u] = q] /\ r.at = "toast"
    BY <1>4 DEF Toast
  <2>2. q \in Posting /\ q.op = "post" /\ q.at = "notes" /\ q.c = r.c
    BY <1>2 DEF Posting
  <2> HIDE DEF q
  <2>3. q \in Requests /\ RequestFine(q, stored, notes')
    BY <1>2, <2>2 DEF Requests, RequestFine
  <2>4. <<r.val, r.c>> \in notes
    BY <1>1, <2>1 DEF Inv, RequestInv, RequestFine
  <2>5. toasts' \subseteq notes'
    BY <1>2, <2>1, <2>4
  <2> QED BY <1>1, <1>2, <2>1, <2>2, <2>3, <2>5, HandStays
<1>5. CASE NotesEnd(u)
  <2> DEFINE q == [r EXCEPT !.at = "tell", !.to = {}]
  <2>1. request' = [request EXCEPT ![u] = q] /\ UNCHANGED <<notes, toasts>>
    BY <1>5 DEF NotesEnd
  <2>2. q \in Posting /\ q.op = "post" /\ q.at = "tell" /\ q.c = r.c
    BY <1>2 DEF Posting
  <2> HIDE DEF q
  <2>3. q \in Requests /\ RequestFine(q, stored, notes')
    BY <1>2, <2>2 DEF Requests, RequestFine
  <2> QED BY <1>1, <1>2, <2>1, <2>2, <2>3, HandStays
<1> QED BY <1>3, <1>4, <1>5

LEMMA TellStays ==
  ASSUME Inv, UNCHANGED reads, NEW u \in User, Tell(u) \/ BreakOff(u)
  PROVE  Inv'
<1> DEFINE r == request[u]
<1>1. /\ request' = [request EXCEPT ![u] = NoRequest] /\ UNCHANGED <<store, notes, toasts>>
      /\ r # NoRequest /\ r \in Requests /\ RequestFine(r, stored, notes)
  BY DEF Tell, BreakOff, Ended, Inv, RequestInv, NoRequest
<1>2. NoRequest \in Requests /\ NoRequest.op = "none"
  BY DEF NoRequest, Requests
<1>3. RequestFine(NoRequest, stored, notes')
  BY <1>2 DEF RequestFine
<1>4. toasts' \subseteq notes' /\ open \subseteq View /\ \A n \in news : NewsFine(n, stored)
  BY <1>1 DEF Inv, NewsInv
<1>5. \A n \in news' : NewsFine(n, stored)
  <2>1. CASE news' = news
    BY <1>4, <2>1
  <2>2. CASE Tell(u) /\ news' = Hear(KindOf(r.op), r.c)
    <3>1. r.c \in DOMAIN stored
      BY <1>1 DEF RequestFine
    <3>2. KindOf(r.op) = "deleted" => stored[r.c].gone
      <4>1. KindOf(r.op) = "deleted" => r.op = "remove"
        BY DEF KindOf
      <4>2. r.at = "tell"
        BY <2>2 DEF Tell
      <4> QED BY <1>1, <4>1, <4>2 DEF RequestFine
    <3>3. \A v \in open : NewsFine([view |-> v, kind |-> KindOf(r.op), c |-> r.c], stored)
      BY <1>4, <3>1, <3>2 DEF NewsFine
    <3>4. \A n \in news' : n \in news \/ \E v \in open : n = [view |-> v, kind |-> KindOf(r.op), c |-> r.c]
      BY <2>2 DEF Hear
    <3> QED BY <1>4, <3>3, <3>4
  <2>3. news' = news \/ (Tell(u) /\ news' = Hear(KindOf(r.op), r.c))
    BY DEF Tell, BreakOff
  <2> QED BY <2>1, <2>2, <2>3
<1> QED BY <1>1, <1>2, <1>3, <1>4, <1>5, HandStays

LEMMA FindStays ==
  ASSUME Inv, UNCHANGED reads, NEW u \in User,
         React(u) \/ Escalate(u) \/ Edit(u) \/ Remove(u)
  PROVE  Inv'
<1>1. StoredInv /\ RequestInv /\ NewsInv /\ ReadInv /\ VoteInv
  BY DEF Inv
<1>2. ASSUME NEW op \in {"react", "escalate", "edit", "remove"}, NEW c \in Known, NEW val, NEW S,
             val \in S, Change(op, S) \subseteq Requests, Find(u, op, c, val),
             op = "react" => val = [votes |-> stored[c].votes + 1]
      PROVE  Inv'
  <2> DEFINE r == [op |-> op, c |-> c, at |-> "write", to |-> {}, val |-> val]
  <2>1. request[u] = NoRequest /\ request' = [request EXCEPT ![u] = r]
        /\ UNCHANGED <<store, news, notes, toasts>>
    BY <1>2 DEF Find, May, Open
  <2>2. c \in Id /\ c \in DOMAIN stored
    BY <1>1, KnownIds DEF Known
  <2>3. r \in Change(op, S) /\ r.op = op /\ r.at = "write" /\ r.c = c /\ r.val = val
    BY <1>2, <2>2 DEF Change
  <2> HIDE DEF r
  <2>4. r \in Requests
    BY <1>2, <2>3
  <2>5. RequestFine(r, stored, notes')
    BY <1>2, <2>2, <2>3 DEF RequestFine
  <2>6. toasts' \subseteq notes' /\ \A n \in news' : NewsFine(n, stored)
    BY <1>1, <2>1 DEF NewsInv
  <2>7. CASE op # "react"
    BY <2>1, <2>3, <2>4, <2>5, <2>6, <2>7, HandStays
  <2>8. CASE op = "react"
    <3>1. UNCHANGED <<stored, cast, met, upset, open>> /\ Later(stored, stored')
      BY <2>1, LaterSame DEF store, reads
    <3>2. RequestInv'
      BY <1>1, <2>1, <2>4, <2>5, <3>1, RequestsGrow
    <3>3. NewsInv'
      BY <1>1, <2>1, <3>1, NewsGrow DEF NewsInv
    <3>4. ReadInv'
      BY <1>1, <3>1, ReadsGrow
    <3>5. VoteInv'
      <4>1. VoteFine(c, stored, cast[c], c \in met, c \in upset) /\ cast[c] \in Int
        BY <1>1, <2>2 DEF VoteInv
      <4>2. stored[c].votes \in Int
        <5>1. stored[c] \in CommentSet
          BY <1>1, <2>2 DEF StoredInv
        <5> QED BY <5>1 DEF CommentSet
      <4>3. ReactionFine(r, cast[c], c \in met, c \in upset)
        <5>1. r.val.votes = stored[c].votes + 1
          BY <1>2, <2>3, <2>8
        <5>2. c \notin upset => stored[c].votes <= cast[c] /\ (c \notin met => stored[c].votes = cast[c])
          BY <2>2, <4>1 DEF VoteFine
        <5> QED BY <4>1, <4>2, <5>1, <5>2 DEF ReactionFine
      <4>4. ASSUME NEW k \in Id, NEW v \in Reacting(k)'
            PROVE  ReactionFine(request'[v], cast[k], k \in met, k \in upset)
        <5>1. v \in User /\ request'[v].op = "react" /\ request'[v].at = "write" /\ request'[v].c = k
          BY <4>4 DEF Reacting
        <5>2. CASE v = u
          <6>1. request'[v] = r /\ k = c
            BY <1>1, <2>1, <2>3, <5>1, <5>2 DEF RequestInv
          <6> QED BY <4>3, <6>1
        <5>3. CASE v # u
          <6>1. request'[v] = request[v] /\ v \in Reacting(k)
            BY <1>1, <2>1, <5>1, <5>3 DEF RequestInv, Reacting
          <6> QED BY <1>1, <6>1 DEF VoteInv
        <5> QED BY <5>2, <5>3
      <4> QED BY <1>1, <3>1, <4>4 DEF VoteInv
    <3> QED BY <1>1, <3>1, <3>2, <3>3, <3>4, <3>5 DEF Inv, StoredInv
  <2> QED BY <2>7, <2>8
<1>3. CASE React(u)
  <2>1. PICK c \in Known : Find(u, "react", c, [votes |-> stored[c].votes + 1])
    BY <1>3 DEF React
  <2>2. stored[c] \in CommentSet
    BY <1>1 DEF StoredInv, Known
  <2>3. [votes |-> stored[c].votes + 1] \in [votes : Int] /\ Change("react", [votes : Int]) \subseteq Requests
    BY <2>2 DEF CommentSet, Requests
  <2> QED BY <1>2, <2>1, <2>3
<1>4. CASE Escalate(u)
  <2>1. PICK c \in Known : Find(u, "escalate", c, [priority |-> Raised(stored[c].priority)])
    BY <1>4 DEF Escalate
  <2>2. stored[c] \in CommentSet
    BY <1>1 DEF StoredInv, Known
  <2>3. Raised(stored[c].priority) \in Int
    BY <2>2, CommentsAssumption DEF CommentSet, Raised
  <2>4. Change("escalate", [priority : Int]) \subseteq Requests
    BY DEF Requests
  <2> DEFINE val == [priority |-> Raised(stored[c].priority)]
  <2>5. val \in [priority : Int]
    BY <2>3
  <2> HIDE DEF val
  <2>6. Find(u, "escalate", c, val)
    BY <2>1 DEF val
  <2> QED BY <1>2, <2>4, <2>5, <2>6
<1>5. CASE Edit(u)
  <2>1. PICK c \in Known, b \in Bodies : Find(u, "edit", c, b)
    BY <1>5 DEF Edit
  <2>2. Change("edit", Bodies) \subseteq Requests
    BY DEF Requests
  <2> QED BY <1>2, <2>1, <2>2
<1>6. CASE Remove(u)
  <2>1. PICK c \in Known : Find(u, "remove", c, [gone |-> TRUE])
    BY <1>6 DEF Remove
  <2>2. [gone |-> TRUE] \in [gone : {TRUE}] /\ Change("remove", [gone : {TRUE}]) \subseteq Requests
    BY DEF Requests
  <2> QED BY <1>2, <2>1, <2>2
<1> QED BY <1>3, <1>4, <1>5, <1>6

LEMMA WriteStays ==
  ASSUME Inv, UNCHANGED reads, NEW u \in User, Write(u)
  PROVE  Inv'
<1> DEFINE r == request[u]
           c == r.c
<1>1. StoredInv /\ RequestInv /\ NewsInv /\ ReadInv /\ VoteInv
  BY DEF Inv
<1>2. /\ StoredInv' /\ Later(stored, stored') /\ DOMAIN stored' = DOMAIN stored
      /\ r # NoRequest /\ r.at = "write" /\ c \in DOMAIN stored
      /\ \A k \in DOMAIN stored : stored'[k].votes =
           IF k = c /\ (r.op = "react" \/ Sets(r)) THEN r.val.votes ELSE stored[k].votes
      /\ r.op = "react" \/ Sets(r) => r.val.votes \in Int
      /\ r.op = "remove" => stored'[c].gone
  BY <1>1, WriteGrows
<1>3. UNCHANGED <<news, notes, toasts, open>>
  BY DEF Write, reads
<1>4. r \in Requests
  BY <1>1 DEF RequestInv
<1>5. /\ ~(r.op = "react" \/ Sets(r)) => UNCHANGED <<cast, met, upset>>
      /\ r.op = "react" => /\ cast' = [cast EXCEPT ![c] = cast[c] + 1] /\ upset' = upset
                           /\ met' = IF Reacting(c) = {u} THEN met ELSE met \cup {c}
      /\ Sets(r) => /\ r.op # "react" /\ cast' = [cast EXCEPT ![c] = r.val.votes] /\ met' = met
                    /\ upset' = IF Reacting(c) # {} THEN upset \cup {c} ELSE upset
  <2>1. /\ cast' = [cast EXCEPT ![c] = CASE r.op = "react" -> cast[c] + 1
                                         [] Sets(r)        -> r.val.votes
                                         [] OTHER          -> cast[c]]
        /\ met' = IF r.op = "react" /\ Reacting(c) # {u} THEN met \cup {c} ELSE met
        /\ upset' = IF Sets(r) /\ Reacting(c) # {} THEN upset \cup {c} ELSE upset
    BY DEF Write
  <2>2. Sets(r) => r.op # "react"
    BY DEF Sets
  <2>3. cast \in [Id -> Int] /\ c \in Id
    BY <1>1, <1>2, KnownIds DEF VoteInv, Known
  <2> HIDE DEF c, r
  <2> QED BY <2>1, <2>2, <2>3
<1>6. PICK q \in Requests : /\ request' = [request EXCEPT ![u] = q]
                            /\ q = NoRequest \/ q = [r EXCEPT !.at = "tell"]
  <2>1. CASE r.op = "escalate"
    <3>1. request' = [request EXCEPT ![u] = NoRequest]
      BY <2>1 DEF Write, Ended
    <3> QED BY <3>1 DEF Requests
  <2>2. CASE r.op # "escalate"
    <3>1. request' = [request EXCEPT ![u] = [r EXCEPT !.at = "tell"]]
      BY <2>2 DEF Write
    <3>2. [r EXCEPT !.at = "tell"] \in Requests
      <4>1. ASSUME NEW op, NEW S, r \in Change(op, S) PROVE [r EXCEPT !.at = "tell"] \in Change(op, S)
        BY <4>1 DEF Change
      <4>2. r \notin Posting /\ r \notin [op : {"resolve"}, c : Id, at : {"tell"}, to : {{}}, val : {None}]
        BY <1>2 DEF Posting
      <4> QED BY <1>2, <1>4, <4>1, <4>2 DEF Requests
    <3> QED BY <3>1, <3>2
  <2> QED BY <2>1, <2>2
<1>7. q.at # "write" \/ q.op # "react"
  <2>1. CASE q = NoRequest
    BY <2>1 DEF NoRequest
  <2>2. CASE q = [r EXCEPT !.at = "tell"]
    BY <1>2, <1>4, <2>2 DEF Requests, Change, Posting
  <2> QED BY <1>6, <2>1, <2>2
<1>8. RequestFine(q, stored', notes')
  <2>1. CASE q = NoRequest
    BY <2>1 DEF RequestFine, NoRequest
  <2>2. CASE q = [r EXCEPT !.at = "tell"]
    <3>1. q.op = r.op /\ q.at = "tell" /\ q.c = c
      BY <1>2, <1>4, <2>2 DEF Requests, Change, Posting
    <3> QED BY <1>2, <3>1 DEF RequestFine
  <2> QED BY <1>6, <2>1, <2>2
<1> HIDE DEF c, r
<1>9. RequestInv'
  BY <1>1, <1>2, <1>3, <1>6, <1>8, RequestsGrow
<1>10. NewsInv'
  BY <1>1, <1>2, <1>3, NewsGrow DEF NewsInv
<1>11. ReadInv'
  BY <1>1, <1>2, ReadsGrow
<1>12. VoteInv'
  <2>1. \A v \in User : request'[v] = request[v] \/ ~(request'[v].op = "react" /\ request'[v].at = "write")
    BY <1>1, <1>6, <1>7 DEF RequestInv
  <2>2. CASE ~(r.op = "react" \/ Sets(r))
    BY <1>1, <1>2, <1>5, <2>1, <2>2, VotesKeep
  <2>4. CASE Sets(r)
    <3>1. c \in Id /\ cast \in [Id -> Int] /\ cast' = [cast EXCEPT ![c] = r.val.votes] /\ met' = met
      BY <1>1, <1>2, <1>5, <2>4, KnownIds DEF Known, VoteInv
    <3>2. /\ cast'[c] = r.val.votes /\ r.val.votes \in Int /\ cast' \in [Id -> Int]
          /\ \A k \in Id \ {c} : cast'[k] = cast[k] /\ (k \in upset' <=> k \in upset)
          /\ Reacting(c) # {} => c \in upset'
      BY <1>2, <1>5, <2>4, <3>1
    <3>3. stored'[c].votes = r.val.votes
      BY <1>2, <2>4
    <3>4. ASSUME NEW k \in Id PROVE VoteFine(k, stored', cast'[k], k \in met', k \in upset')
      <4>1. CASE k = c
        BY <1>2, <3>2, <3>3, <4>1 DEF VoteFine
      <4>2. CASE k # c
        <5>1. VoteFine(k, stored, cast[k], k \in met, k \in upset)
          BY <1>1 DEF VoteInv
        <5> QED BY <1>2, <3>1, <3>2, <4>2, <5>1 DEF VoteFine
      <4> QED BY <4>1, <4>2
    <3>5. ASSUME NEW k \in Id, NEW v \in Reacting(k)'
          PROVE  ReactionFine(request'[v], cast'[k], k \in met', k \in upset')
      <4>1. v \in User /\ request'[v].op = "react" /\ request'[v].at = "write" /\ request'[v].c = k
        BY <3>5 DEF Reacting
      <4>2. request'[v] = request[v] /\ v \in Reacting(k)
        BY <2>1, <4>1 DEF Reacting
      <4>3. ReactionFine(request[v], cast[k], k \in met, k \in upset)
        BY <1>1, <4>2 DEF VoteInv
      <4>4. CASE k = c
        BY <3>2, <4>2, <4>4 DEF ReactionFine
      <4>5. CASE k # c
        BY <3>1, <3>2, <4>2, <4>3, <4>5
      <4> QED BY <4>4, <4>5
    <3> QED BY <3>2, <3>4, <3>5 DEF VoteInv
  <2>3. CASE r.op = "react"
    <3>1. u \in Reacting(c) /\ c \in Id
      BY <1>1, <1>2, <2>3, KnownIds DEF Reacting, Known, r, c
    <3>2. /\ cast \in [Id -> Int] /\ cast[c] \in Int /\ cast'[c] = cast[c] + 1 /\ cast' \in [Id -> Int]
          /\ \A k \in Id \ {c} : cast'[k] = cast[k] /\ (k \in met' <=> k \in met)
          /\ upset' = upset
      BY <1>1, <1>5, <2>3, <3>1 DEF VoteInv
    <3>3. ReactionFine(r, cast[c], c \in met, c \in upset) /\ VoteFine(c, stored, cast[c], c \in met, c \in upset)
      BY <1>1, <3>1 DEF VoteInv, r
    <3>4. c \notin met' => c \notin met /\ Reacting(c) = {u}
      BY <1>5, <2>3
    <3>5. stored'[c].votes = r.val.votes
      BY <1>2, <2>3
    <3>6. ASSUME NEW k \in Id PROVE VoteFine(k, stored', cast'[k], k \in met', k \in upset')
      <4>1. CASE k = c
        BY <1>2, <3>2, <3>3, <3>4, <3>5, <4>1 DEF VoteFine, ReactionFine
      <4>2. CASE k # c
        <5>1. VoteFine(k, stored, cast[k], k \in met, k \in upset)
          BY <1>1 DEF VoteInv
        <5> QED BY <1>2, <3>2, <4>2, <5>1 DEF VoteFine
      <4> QED BY <4>1, <4>2
    <3>7. ASSUME NEW k \in Id, NEW v \in Reacting(k)'
          PROVE  ReactionFine(request'[v], cast'[k], k \in met', k \in upset')
      <4>1. v \in User /\ request'[v].op = "react" /\ request'[v].at = "write" /\ request'[v].c = k
        BY <3>7 DEF Reacting
      <4>2. request'[v] = request[v] /\ v \in Reacting(k) /\ v # u
        BY <1>1, <1>6, <1>7, <2>1, <4>1 DEF Reacting, RequestInv
      <4>3. ReactionFine(request[v], cast[k], k \in met, k \in upset)
        BY <1>1, <4>2 DEF VoteInv
      <4>4. CASE k = c
        <5>1. c \in met'
          BY <3>4, <4>2, <4>4
        <5>2. request[v].val.votes \in Int
          <6>1. request[v] \in Requests /\ request[v] # NoRequest
            BY <1>1, <4>1, <4>2 DEF RequestInv, NoRequest
          <6> QED BY <4>1, <4>2, <6>1 DEF Requests, Change, Posting
        <5> QED BY <3>2, <4>2, <4>3, <4>4, <5>1, <5>2 DEF ReactionFine
      <4>5. CASE k # c
        BY <3>2, <4>2, <4>3, <4>5
      <4> QED BY <4>4, <4>5
    <3> QED BY <3>2, <3>6, <3>7 DEF VoteInv
  <2> QED BY <2>2, <2>3, <2>4
<1> QED BY <1>2, <1>9, <1>10, <1>11, <1>12 DEF Inv

LEMMA MarkStays ==
  ASSUME Inv, UNCHANGED reads, NEW u \in User, Resolve(u) \/ Moderate(u)
  PROVE  Inv'
<1>1. StoredInv /\ RequestInv /\ NewsInv /\ ReadInv /\ VoteInv
  BY DEF Inv
<1>2. UNCHANGED <<cast, met, upset, news, notes, toasts, open>>
  BY DEF Resolve, Moderate, reads
<1>3. /\ StoredInv' /\ Later(stored, stored') /\ DOMAIN stored' = DOMAIN stored
      /\ \A k \in DOMAIN stored : stored'[k].votes = stored[k].votes
  BY <1>1, ResolveGrows, ModerateGrows
<1>4. \E q \in Requests : /\ request' = [request EXCEPT ![u] = q] /\ RequestFine(q, stored', notes')
                          /\ q = request[u] \/ q.op = "resolve"
  <2>1. CASE Resolve(u)
    <3>1. PICK c \in DOMAIN stored : request' = [request EXCEPT ![u] =
              [op |-> "resolve", c |-> c, at |-> "tell", to |-> {}, val |-> None]]
      BY <1>1, <2>1, ResolveGrows
    <3> DEFINE q == [op |-> "resolve", c |-> c, at |-> "tell", to |-> {}, val |-> None]
    <3>2. q \in Requests
      BY <1>1, KnownIds DEF Requests, Known
    <3>3. RequestFine(q, stored', notes')
      BY <1>3 DEF RequestFine
    <3> QED BY <3>1, <3>2, <3>3
  <2>2. CASE Moderate(u)
    <3>1. request' = request /\ request[u] \in Requests /\ RequestFine(request[u], stored, notes)
      BY <1>1, <2>2 DEF Moderate, RequestInv
    <3>2. request' = [request EXCEPT ![u] = request[u]]
      BY <1>1, <3>1 DEF RequestInv
    <3>3. RequestFine(request[u], stored', notes')
      BY <1>2, <1>3, <3>1, LaterNames
    <3> QED BY <3>1, <3>2, <3>3
  <2> QED BY <2>1, <2>2
<1>5. PICK q \in Requests : /\ request' = [request EXCEPT ![u] = q] /\ RequestFine(q, stored', notes')
                            /\ q = request[u] \/ q.op = "resolve"
  BY <1>4
<1>6. RequestInv'
  BY <1>1, <1>2, <1>3, <1>5, RequestsGrow
<1>7. NewsInv'
  BY <1>1, <1>2, <1>3, NewsGrow DEF NewsInv
<1>8. ReadInv'
  BY <1>1, <1>3, ReadsGrow
<1>9. VoteInv'
  <2>1. \A v \in User : request'[v] = request[v] \/ ~(request'[v].op = "react" /\ request'[v].at = "write")
    BY <1>1, <1>5 DEF RequestInv
  <2> QED BY <1>1, <1>2, <1>3, <2>1, VotesKeep
<1> QED BY <1>3, <1>6, <1>7, <1>8, <1>9 DEF Inv
-----------------------------------------------------------------------------
(* The reads and the views                                                 *)

(* What changes no more than the caches, the reads, the views and the news.*)
LEMMA BrowseFrame ==
  ASSUME Inv, UNCHANGED <<store, request, notes, toasts>>, NewsInv', ReadInv'
  PROVE  Inv'
<1>1. UNCHANGED <<stored, cast, met, upset>>
  BY DEF store
<1>2. VoteInv'
  <2>1. \A v \in User : request'[v] = request[v]
    OBVIOUS
  <2> QED BY <1>1, <2>1, VotesKeep DEF Inv
<1> QED BY <1>1, <1>2 DEF Inv, StoredInv, RequestInv

LEMMA ListingsRead ==
  ASSUME StoredInv
  PROVE  /\ Names(RootsRead, stored)
         /\ \A ts : Names(ts, stored) => Names(Joined(ts), stored)
<1>1. Known \subseteq Id /\ \A c \in Known : stored[c] \in CommentSet
  BY KnownIds DEF StoredInv, Known
<1>2. Names(RootsRead, stored)
  <2>1. \A t \in Roots : t \in Known /\ t \in Id /\ stored[t].status \in Statuses
    BY <1>1 DEF Roots, CommentSet
  <2>2. \A t \in RootsRead : t \in ThreadSet /\ t.id \in DOMAIN stored
    BY <2>1 DEF RootsRead, Thread, ThreadSet, Known
  <2> QED BY <2>2 DEF Names
<1>3. ASSUME NEW ts, Names(ts, stored) PROVE Names(Joined(ts), stored)
  <2>1. \A t : Replies(t) \in SUBSET Id
    BY <1>1 DEF Replies
  <2>2. \A t \in ts : t.id \in Id /\ t.status \in Statuses /\ t.id \in DOMAIN stored
    BY <1>3 DEF Names, ThreadSet
  <2>3. \A t \in Joined(ts) : t \in ThreadSet /\ t.id \in DOMAIN stored
    BY <2>1, <2>2 DEF Joined, Thread, ThreadSet
  <2> QED BY <2>3 DEF Names
<1> QED BY <1>2, <1>3

LEMMA FetchStays ==
  ASSUME ReadInv, UNCHANGED <<stored, threadCache, shown>>, NEW f \in Fetch, NEW g,
         FetchFine(g, stored), fetch' = [fetch EXCEPT ![f] = g]
  PROVE  ReadInv'
<1>1. fetch' = [h \in Fetch |-> fetch'[h]] /\ \A h \in Fetch : fetch'[h] = IF h = f THEN g ELSE fetch[h]
  BY DEF ReadInv
<1> QED BY <1>1 DEF ReadInv

LEMMA RefreshFine ==
  ASSUME NEW f, NEW v \in View, Refresh(f, v)
  PROVE  \E g : FetchFine(g, stored) /\ fetch' = [fetch EXCEPT ![f] = g]
<1> DEFINE g == [at |-> "ask", kind |-> "threads", view |-> v, got |-> {}]
<1>1. fetch' = [fetch EXCEPT ![f] = g]
  BY DEF Refresh
<1>2. FetchFine(g, stored)
  BY DEF FetchFine, Names
<1> QED BY <1>1, <1>2

LEMMA FetchMoves ==
  ASSUME NEW st, NEW g, FetchFine(g, st), g # NoFetch, NEW a, NEW x,
         g.kind = "threads" => Names(x, st)
  PROVE  /\ FetchFine([g EXCEPT !.at = a, !.got = x], st)
         /\ FetchFine([g EXCEPT !.at = a], st)
<1>1. /\ g = [at |-> g.at, kind |-> g.kind, view |-> g.view, got |-> g.got]
      /\ g.view \in View \cup {None} /\ (g.view \in View => g.kind = "threads")
      /\ g.kind = "threads" => Names(g.got, st)
  BY DEF FetchFine
<1>2. /\ [g EXCEPT !.at = a, !.got = x] = [at |-> a, kind |-> g.kind, view |-> g.view, got |-> x]
      /\ [g EXCEPT !.at = a] = [at |-> a, kind |-> g.kind, view |-> g.view, got |-> g.got]
  <2>1. ASSUME NEW z, NEW k, NEW w, NEW y, g = [at |-> z, kind |-> k, view |-> w, got |-> y]
        PROVE  /\ g.kind = k /\ g.view = w /\ g.got = y
               /\ [g EXCEPT !.at = a, !.got = x] = [at |-> a, kind |-> k, view |-> w, got |-> x]
               /\ [g EXCEPT !.at = a] = [at |-> a, kind |-> k, view |-> w, got |-> y]
    <3>1. g.kind = k /\ g.view = w /\ g.got = y
      BY <2>1
    <3>2. [g EXCEPT !.at = a] = [at |-> a, kind |-> k, view |-> w, got |-> y]
      BY <2>1
    <3>3. [g EXCEPT !.at = a, !.got = x] = [[g EXCEPT !.at = a] EXCEPT !.got = x]
      <4>1. DOMAIN g = {"at", "kind", "view", "got"}
        BY <2>1
      <4> QED BY ONLY <4>1
    <3>4. [[at |-> a, kind |-> k, view |-> w, got |-> y] EXCEPT !.got = x]
            = [at |-> a, kind |-> k, view |-> w, got |-> x]
      BY ONLY TRUE
    <3> QED BY <3>1, <3>2, <3>3, <3>4
  <2> QED BY <1>1, <2>1
<1>3. FetchFine([at |-> a, kind |-> g.kind, view |-> g.view, got |-> x], st)
  BY <1>1 DEF FetchFine
<1>4. FetchFine([at |-> a, kind |-> g.kind, view |-> g.view, got |-> g.got], st)
  BY <1>1 DEF FetchFine
<1> QED BY <1>2, <1>3, <1>4

(* A step of a read.                                                       *)
LEMMA ReadStays ==
  ASSUME Inv, UNCHANGED <<store, request, notes, toasts>>, NEW f \in Fetch,
         AskStats(f) \/ ReadStep(f) \/ ReadFails(f)
  PROVE  Inv'
<1> DEFINE g == fetch[f]
<1>1. /\ StoredInv /\ ReadInv /\ NewsInv /\ FetchFine(g, stored)
      /\ UNCHANGED <<stored, notes, toasts>>
  BY DEF Inv, ReadInv, store
<1>2. UNCHANGED <<open, news>>
  BY DEF AskStats, ReadStep, ReadFails, ReadCache, QueryRoots, QueryReplies, QueryStats, Fill, Answer
<1>3. NewsInv'
  BY <1>1, <1>2 DEF NewsInv
<1>4. CASE AskStats(f)
  <2> DEFINE h == [at |-> "ask", kind |-> "stats", view |-> None, got |-> {}]
  <2>1. fetch' = [fetch EXCEPT ![f] = h] /\ UNCHANGED <<threadCache, shown>>
    BY <1>4 DEF AskStats
  <2>2. FetchFine(h, stored)
    BY CommentsAssumption DEF FetchFine
  <2> HIDE DEF h
  <2>3. ReadInv'
    BY <1>1, <2>1, <2>2, FetchStays
  <2> QED BY <1>3, <2>3, BrowseFrame
<1>5. CASE ReadFails(f)
  <2>1. fetch' = [fetch EXCEPT ![f] = NoFetch] /\ UNCHANGED <<threadCache, shown>>
    BY <1>5 DEF ReadFails
  <2>2. FetchFine(NoFetch, stored)
    BY DEF FetchFine
  <2>3. ReadInv'
    BY <1>1, <2>1, <2>2, FetchStays
  <2> QED BY <1>3, <2>3, BrowseFrame
<1>6. CASE ReadCache(f)
  <2> DEFINE hit == Cached(g.kind)
  <2>1. /\ g.at = "ask" /\ UNCHANGED <<threadCache, shown>>
        /\ fetch' = [fetch EXCEPT ![f] = IF hit = None THEN [g EXCEPT !.at = "query"]
                                         ELSE [g EXCEPT !.at = "answer", !.got = hit]]
    BY <1>6 DEF ReadCache
  <2>2. g # NoFetch
    BY <2>1 DEF NoFetch
  <2>3. hit # None /\ g.kind = "threads" => Names(hit, stored)
    BY <1>1 DEF ReadInv, Cached
  <2> HIDE DEF g, hit
  <2>4. CASE hit = None
    <3>1. FetchFine([g EXCEPT !.at = "query"], stored)
      <4>1. g.kind = "threads" => Names({}, stored)
        BY DEF Names
      <4> QED BY <1>1, <2>2, <4>1, FetchMoves
    <3>2. fetch' = [fetch EXCEPT ![f] = [g EXCEPT !.at = "query"]]
      BY <2>1, <2>4
    <3>3. ReadInv'
      BY <1>1, <2>1, <3>1, <3>2, FetchStays
    <3> QED BY <1>3, <3>3, BrowseFrame
  <2>5. CASE hit # None
    <3>1. FetchFine([g EXCEPT !.at = "answer", !.got = hit], stored)
      BY <1>1, <2>2, <2>3, <2>5, FetchMoves
    <3>2. fetch' = [fetch EXCEPT ![f] = [g EXCEPT !.at = "answer", !.got = hit]]
      BY <2>1, <2>5
    <3>3. ReadInv'
      BY <1>1, <2>1, <3>1, <3>2, FetchStays
    <3> QED BY <1>3, <3>3, BrowseFrame
  <2> QED BY <2>4, <2>5
<1>7. CASE QueryRoots(f) \/ QueryReplies(f) \/ QueryStats(f)
  <2>1. /\ g # NoFetch /\ UNCHANGED <<threadCache, shown>>
        /\ \E a, x : /\ fetch' = [fetch EXCEPT ![f] = [g EXCEPT !.at = a, !.got = x]]
                     /\ g.kind = "threads" => x \in {RootsRead, Joined(g.got)}
    <3>1. CASE QueryRoots(f)
      <4>1. fetch' = [fetch EXCEPT ![f] = [g EXCEPT !.at = "replies", !.got = RootsRead]]
        BY <3>1 DEF QueryRoots
      <4>2. g # NoFetch /\ UNCHANGED <<threadCache, shown>>
        BY <3>1 DEF QueryRoots, NoFetch
      <4> QED BY <4>1, <4>2
    <3>2. CASE QueryReplies(f)
      <4>1. fetch' = [fetch EXCEPT ![f] = [g EXCEPT !.at = "fill", !.got = Joined(g.got)]]
        BY <3>2 DEF QueryReplies
      <4>2. g # NoFetch /\ UNCHANGED <<threadCache, shown>>
        BY <3>2 DEF QueryReplies, NoFetch
      <4> QED BY <4>1, <4>2
    <3>3. CASE QueryStats(f)
      <4>1. fetch' = [fetch EXCEPT ![f] = [g EXCEPT !.at = "fill", !.got = Stats]]
        BY <3>3 DEF QueryStats
      <4>2. g # NoFetch /\ g.kind # "threads" /\ UNCHANGED <<threadCache, shown>>
        BY <3>3 DEF QueryStats, NoFetch
      <4> HIDE DEF g
      <4> QED BY <4>1, <4>2
    <3> QED BY <1>7, <3>1, <3>2, <3>3
  <2>2. PICK a, x : /\ fetch' = [fetch EXCEPT ![f] = [g EXCEPT !.at = a, !.got = x]]
                    /\ g.kind = "threads" => x \in {RootsRead, Joined(g.got)}
    BY <2>1
  <2>3. g.kind = "threads" => Names(x, stored)
    <3>1. g.kind = "threads" => Names(g.got, stored)
      BY <1>1, <2>1 DEF FetchFine
    <3> QED BY <1>1, <2>2, <3>1, ListingsRead
  <2> HIDE DEF g
  <2>4. FetchFine([g EXCEPT !.at = a, !.got = x], stored)
    BY <1>1, <2>1, <2>3, FetchMoves
  <2>5. ReadInv'
    BY <1>1, <2>1, <2>2, <2>4, FetchStays
  <2> QED BY <1>3, <2>5, BrowseFrame
<1>8. CASE Fill(f)
  <2>1. /\ g # NoFetch /\ fetch' = [fetch EXCEPT ![f] = [g EXCEPT !.at = "answer"]]
        /\ shown' = shown /\ threadCache' = IF g.kind = "threads" THEN g.got ELSE threadCache
    BY <1>8 DEF Fill, NoFetch
  <2>2. g.kind = "threads" => Names(g.got, stored)
    BY <1>1, <2>1 DEF FetchFine
  <2> HIDE DEF g
  <2>3. FetchFine([g EXCEPT !.at = "answer"], stored)
    BY <1>1, <2>1, <2>2, FetchMoves
  <2>4. /\ fetch' = [h \in Fetch |-> fetch'[h]]
        /\ \A h \in Fetch : FetchFine(fetch'[h], stored)
    BY <1>1, <2>1, <2>3 DEF ReadInv
  <2>5. threadCache' # None => Names(threadCache', stored)
    BY <1>1, <2>1, <2>2 DEF ReadInv
  <2>6. ReadInv'
    BY <1>1, <2>1, <2>4, <2>5 DEF ReadInv
  <2> QED BY <1>3, <2>6, BrowseFrame
<1>9. CASE Answer(f)
  <2>1. /\ g # NoFetch /\ fetch' = [fetch EXCEPT ![f] = NoFetch] /\ threadCache' = threadCache
        /\ shown' = [v \in View |-> IF v = g.view THEN g.got ELSE shown[v]]
    BY <1>9 DEF Answer, NoFetch
  <2>2. \A v \in View : v = g.view => Names(g.got, stored)
    BY <1>1, <2>1 DEF FetchFine
  <2> HIDE DEF g
  <2>3. /\ fetch' = [h \in Fetch |-> fetch'[h]]
        /\ \A h \in Fetch : FetchFine(fetch'[h], stored)
    BY <1>1, <2>1 DEF ReadInv, FetchFine
  <2>4. shown' = [v \in View |-> shown'[v]] /\ \A v \in View : Names(shown'[v], stored)
    BY <1>1, <2>1, <2>2 DEF ReadInv
  <2>5. ReadInv'
    BY <1>1, <2>1, <2>3, <2>4 DEF ReadInv
  <2> QED BY <1>3, <2>5, BrowseFrame
<1> QED BY <1>4, <1>5, <1>6, <1>7, <1>8, <1>9 DEF ReadStep

(* The views open, close, refresh, filter and hear news.                   *)
LEMMA ViewStays ==
  ASSUME Inv, UNCHANGED <<store, request, notes, toasts>>,
         \/ \E v \in View : OpenSide(v) \/ CloseSide(v) \/ Reload(v) \/ Filter(v)
         \/ \E n \in news : HandleNews(n)
         \/ ThreadsLapse \/ StatsLapse
  PROVE  Inv'
<1>1. /\ StoredInv /\ ReadInv /\ NewsInv /\ UNCHANGED <<stored, notes, toasts>>
  BY DEF Inv, store
<1>2. ASSUME NEW f \in Fetch, NEW v \in View, Refresh(f, v), UNCHANGED <<threadCache, shown>>
      PROVE  ReadInv'
  <2>1. PICK g : FetchFine(g, stored) /\ fetch' = [fetch EXCEPT ![f] = g]
    BY <1>2, RefreshFine
  <2> QED BY <1>1, <1>2, <2>1, FetchStays
<1>3. ASSUME NEW v \in View, OpenSide(v) PROVE Inv'
  <2>1. ReadInv'
    BY <1>2, <1>3 DEF OpenSide
  <2>2. NewsInv'
    BY <1>1, <1>3 DEF OpenSide, NewsInv
  <2> QED BY <2>1, <2>2, BrowseFrame
<1>4. ASSUME NEW v \in View, CloseSide(v) PROVE Inv'
  <2>1. /\ open' = open \ {v} /\ shown' = [shown EXCEPT ![v] = {}] /\ threadCache' = threadCache
        /\ news' = {n \in news : n.view # v}
        /\ fetch' = [f \in Fetch |-> IF fetch[f] # NoFetch /\ fetch[f].view = v
                                     THEN [fetch[f] EXCEPT !.view = None] ELSE fetch[f]]
    BY <1>4 DEF CloseSide
  <2>2. NewsInv'
    BY <1>1, <2>1 DEF NewsInv
  <2>3. ASSUME NEW f \in Fetch PROVE FetchFine(fetch'[f], stored)
    <3> DEFINE g == fetch[f]
    <3>1. FetchFine(g, stored)
      BY <1>1 DEF ReadInv
    <3>2. CASE g # NoFetch /\ g.view = v
      <4>1. fetch'[f] = [g EXCEPT !.view = None]
        BY <2>1, <3>2
      <4> HIDE DEF g
      <4>2. /\ g = [at |-> g.at, kind |-> g.kind, view |-> g.view, got |-> g.got]
            /\ g.kind = "threads" => Names(g.got, stored)
        BY <3>1, <3>2 DEF FetchFine
      <4>3. [g EXCEPT !.view = None] = [at |-> g.at, kind |-> g.kind, view |-> None, got |-> g.got]
        BY <4>2
      <4>4. FetchFine([at |-> g.at, kind |-> g.kind, view |-> None, got |-> g.got], stored)
        BY <4>2, CommentsAssumption DEF FetchFine
      <4> QED BY <4>1, <4>3, <4>4
    <3>3. CASE ~(g # NoFetch /\ g.view = v)
      BY <2>1, <3>1, <3>3
    <3> QED BY <3>2, <3>3
  <2>4. shown' = [w \in View |-> shown'[w]] /\ \A w \in View : Names(shown'[w], stored)
    <3>1. shown = [w \in View |-> shown[w]] /\ \A w \in View : Names(shown[w], stored)
      BY <1>1 DEF ReadInv
    <3>2. Names({}, stored)
      BY DEF Names
    <3> QED BY <2>1, <3>1, <3>2
  <2>5. fetch' = [f \in Fetch |-> fetch'[f]]
    BY <2>1
  <2>6. ReadInv'
    BY <1>1, <2>1, <2>3, <2>4, <2>5 DEF ReadInv
  <2> QED BY <2>2, <2>6, BrowseFrame
<1>5. ASSUME NEW v \in View, Reload(v) PROVE Inv'
  <2>1. ReadInv'
    BY <1>2, <1>5 DEF Reload
  <2>2. NewsInv'
    BY <1>1, <1>5 DEF Reload, NewsInv
  <2> QED BY <2>1, <2>2, BrowseFrame
<1>6. ASSUME NEW v \in View, Filter(v) PROVE Inv'
  <2>1. PICK s \in Statuses : shown' = [shown EXCEPT ![v] = {t \in shown[v] : t.status = s}]
    BY <1>6 DEF Filter
  <2>2. UNCHANGED <<threadCache, fetch, open, news>>
    BY <1>6 DEF Filter
  <2>3. Names({t \in shown[v] : t.status = s}, stored)
    BY <1>1 DEF ReadInv, Names
  <2>4. shown' = [w \in View |-> shown'[w]] /\ \A w \in View : Names(shown'[w], stored)
    <3>1. shown = [w \in View |-> shown[w]] /\ \A w \in View : Names(shown[w], stored)
      BY <1>1 DEF ReadInv
    <3> QED BY <2>1, <2>3, <3>1
  <2>5. ReadInv'
    BY <1>1, <2>2, <2>4 DEF ReadInv
  <2>6. NewsInv'
    BY <1>1, <2>2 DEF NewsInv
  <2> QED BY <2>5, <2>6, BrowseFrame
<1>7. ASSUME NEW n \in news, HandleNews(n) PROVE Inv'
  <2>1. n.view \in View
    BY <1>1 DEF NewsInv, NewsFine
  <2>2. ReadInv'
    BY <1>2, <1>7, <2>1 DEF HandleNews
  <2>3. NewsInv'
    BY <1>1, <1>7 DEF HandleNews, NewsInv
  <2> QED BY <2>2, <2>3, BrowseFrame
<1>8. CASE ThreadsLapse \/ StatsLapse
  <2>1. UNCHANGED <<fetch, shown, open, news>> /\ (threadCache' = None \/ threadCache' = threadCache)
    BY <1>8 DEF ThreadsLapse, StatsLapse
  <2>2. ReadInv'
    BY <1>1, <2>1 DEF ReadInv
  <2>3. NewsInv'
    BY <1>1, <2>1 DEF NewsInv
  <2> QED BY <2>2, <2>3, BrowseFrame
<1> QED BY <1>3, <1>4, <1>5, <1>6, <1>7, <1>8
-----------------------------------------------------------------------------
(* The theorems                                                            *)

LEMMA HandleGrows ==
  ASSUME Inv, NEW u \in User, Handle(u)
  PROVE  Inv' /\ Later(stored, stored')
<1>1. UNCHANGED reads /\ StoredInv /\ RequestInv /\ ReadInv
  BY DEF Handle, Inv
<1>2. CASE Create(u) \/ Reply(u)
  <2>1. PICK p \in Id \cup {None}, t \in Id \cup {None} : \E ms : Save(u, p, t, ms)
    <3>1. CASE Create(u)
      BY <3>1 DEF Create
    <3>2. CASE Reply(u)
      <4>1. PICK p \in Known, ms \in Mentions : \E t \in ThreadsFor(p) : Save(u, p, t, ms)
        BY <3>2 DEF Reply
      <4>2. p \in Id /\ stored[p].thread \in Id \cup {None}
        <5>1. stored[p] \in CommentSet
          BY <1>1 DEF StoredInv, Known
        <5> QED BY <1>1, <5>1, KnownIds DEF CommentSet
      <4>3. ThreadsFor(p) \subseteq Id
        BY <4>2 DEF ThreadsFor
      <4> QED BY <4>1, <4>2, <4>3
    <3> QED BY <1>2, <3>1, <3>2
  <2>2. PICK ms : Save(u, p, t, ms)
    BY <2>1
  <2>3. Later(stored, stored')
    BY <1>1, <2>2, SaveGrows
  <2> QED BY <1>1, <2>2, <2>3, SaveStays
<1>3. CASE Write(u)
  BY <1>1, <1>3, WriteGrows, WriteStays
<1>4. CASE Resolve(u) \/ Moderate(u)
  BY <1>1, <1>4, ResolveGrows, ModerateGrows, MarkStays
<1>5. CASE Note(u) \/ Toast(u) \/ NotesEnd(u)
  <2>1. stored' = stored
    BY <1>5 DEF Note, Toast, NotesEnd, store
  <2> QED BY <1>1, <1>5, <2>1, LaterSame, MentionStays
<1>6. CASE React(u) \/ Escalate(u) \/ Edit(u) \/ Remove(u)
  <2>1. stored' = stored
    BY <1>6 DEF React, Escalate, Edit, Remove, Find, store
  <2> QED BY <1>1, <1>6, <2>1, LaterSame, FindStays
<1>7. CASE Tell(u) \/ BreakOff(u)
  <2>1. stored' = stored
    BY <1>7 DEF Tell, BreakOff, store
  <2> QED BY <1>1, <1>7, <2>1, LaterSame, TellStays
<1> QED BY <1>2, <1>3, <1>4, <1>5, <1>6, <1>7 DEF Handle

LEMMA InvStays == Inv /\ [Next]_vars => Inv' /\ Later(stored, stored')
<1> SUFFICES ASSUME Inv, [Next]_vars PROVE Inv' /\ Later(stored, stored')
  OBVIOUS
<1>1. ASSUME NEW u \in User, Handle(u) PROVE Inv' /\ Later(stored, stored')
  BY <1>1, HandleGrows
<1>2. CASE Browse
  <2>1. UNCHANGED <<store, request, notes, toasts>> /\ Later(stored, stored')
    BY <1>2, LaterSame DEF Browse, store
  <2>2. CASE \E f \in Fetch : AskStats(f) \/ ReadStep(f) \/ ReadFails(f)
    BY <2>1, <2>2, ReadStays
  <2>3. CASE ~ \E f \in Fetch : AskStats(f) \/ ReadStep(f) \/ ReadFails(f)
    BY <1>2, <2>1, <2>3, ViewStays DEF Browse
  <2> QED BY <2>2, <2>3
<1>3. CASE UNCHANGED vars
  <2>1. UNCHANGED <<store, reads, request, notes, toasts, news>>
    BY <1>3 DEF vars
  <2>2. UNCHANGED <<stored, threadCache, shown, fetch, open, news, notes, toasts>>
    BY <2>1 DEF store, reads
  <2>3. NewsInv' /\ ReadInv'
    BY <2>2 DEF Inv, NewsInv, ReadInv
  <2> QED BY <2>1, <2>2, <2>3, BrowseFrame, LaterSame
<1> QED BY <1>1, <1>2, <1>3 DEF Next

(* Reactions are read, raised and written back (react in the comments'     *)
(* controller): those under way at once may count as one, but none is ever *)
(* counted that was not made since the author last set their number, and   *)
(* without such an overlap the count is exact, whatever edits, deletions   *)
(* and failures come between. A comment whose author sets the number while *)
(* a reaction is under way (update, with any body) is left out.            *)
THEOREM CountsKeptAlways == Spec => []CountsKept
<1>1. Inv => CountsKept
  <2> SUFFICES ASSUME Inv, NEW c \in Known \ upset
               PROVE  /\ stored[c].votes <= cast[c]
                      /\ c \notin met => stored[c].votes = cast[c]
    BY DEF CountsKept
  <2>1. c \in Id /\ c \in DOMAIN stored
    BY KnownIds DEF Inv, Known
  <2>2. VoteFine(c, stored, cast[c], c \in met, c \in upset)
    BY <2>1 DEF Inv, VoteInv
  <2> QED BY <2>1, <2>2 DEF VoteFine
<1> QED BY <1>1, InvInit, InvStays, PTL DEF Spec

(* What is announced is stored before it is heard: a created, changed or   *)
(* deleted comment before the page is told of it (publish in the           *)
(* controller), a notification before its user is.                         *)
THEOREM AnnouncedIsStoredAlways == Spec => []AnnouncedIsStored
<1>1. Inv => AnnouncedIsStored
  BY DEF Inv, NewsInv, NewsFine, AnnouncedIsStored, Known
<1> QED BY <1>1, InvInit, InvStays, PTL DEF Spec

(* A deleted comment stays deleted, and none is ever dropped: an update    *)
(* that was prepared before a deletion and is made after it names other    *)
(* fields (findByIdAndUpdate in the comments' repository).                 *)
THEOREM GoneForGoodAlways == Spec => GoneForGood
<1>1. Inv /\ [Next]_vars => [\A c \in Known : c \in DOMAIN stored' /\ (stored[c].gone => stored'[c].gone)]_vars
  BY InvStays DEF Later, Known
<1> QED BY <1>1, InvInit, InvStays, PTL DEF Spec, GoneForGood
=============================================================================
