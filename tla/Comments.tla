------------------------------ MODULE Comments ------------------------------
(***************************************************************************)
(* The comments of one document: the requests of comments.controller.ts on *)
(* the stored comments, the two cached reads (the threads for 30 s, the    *)
(* analytics for 60 s), the announcements that go out through the gateway, *)
(* and the views of one user's page: the sidebar and the editor's overlay. *)
(*                                                                         *)
(* A handler takes one step per call that it awaits, so handlers overlap;  *)
(* one that breaks off (a failed call, a crash) leaves what it has written.*)
(* Comments are numbered as they are stored. Text, anchors, due dates and  *)
(* tags are left out: no other part of the program reads them. Reactions   *)
(* are those with one emoji, as a number; a comment stays in its document. *)
(***************************************************************************)
EXTENDS Integers, FiniteSets, Sequences, Functions, TLC

CONSTANTS User,          \* users with an account
          Reader,        \* those who can read the document
          View,          \* what one page shows threads in
          Side,          \* the views a user opens, closes and filters
          Fetch,         \* reads that can be under way at once
          None,
          MaxComments,   \* comments ever stored
          MaxPriority,   \* where escalation ends (10)
          Figures,       \* numbers an author may write into a comment
          Loads          \* what a behaviour does: the requests it makes, how
                         \* many of them write, and which reads it uses

ASSUME CommentsAssumption ==
  /\ Reader \subseteq User /\ Side \subseteq View /\ None \notin View
  /\ MaxComments \in Nat /\ MaxPriority \in Nat /\ Figures \subseteq Int
  /\ \A l \in Loads : l.writes \in Nat /\ l.reads \subseteq Fetch

VARIABLES stored,      \* the comments, in the order they were stored
          threadCache, \* comments:list:<doc>, or None
          statCache,   \* comments:analytics:<doc>, or None
          request,     \* request[u]: the write user u has under way
          fetch,       \* fetch[f]: a read under way
          open,        \* the views on screen
          shown,       \* shown[v]: the threads view v shows
          news,        \* announcements that reached the page, not yet handled
          notes,       \* notifications stored for users
          toasts,      \* notifications published to users
          cast,        \* history: cast[c], the reactions written to c since its
                       \* author last set their number, and that number
          met,         \* history: comments with two reactions under way at once
          upset,       \* history: those whose author set the number of reactions
                       \* while one was under way
          writes,      \* how many writing requests were started
          load         \* what this behaviour does

store == <<stored, cast, met, upset>>
reads == <<threadCache, statCache, fetch, shown, open>>
vars  == <<store, reads, request, news, notes, toasts, writes, load>>

Id       == 1..MaxComments
Known    == DOMAIN stored
Statuses == {"open", "resolved", "closed"}
Marks    == {"pending", "approved", "rejected"}
NoRequest == [op |-> "none"]
NoFetch   == [at |-> "none"]

Init ==
  /\ load \in Loads
  /\ stored = <<>> /\ cast = [c \in Id |-> 0] /\ met = {} /\ upset = {}
  /\ threadCache = None /\ statCache = None
  /\ request = [u \in User |-> NoRequest]
  /\ fetch = [f \in Fetch |-> NoFetch]
  /\ open = IF "view" \in load.ops THEN View \ Side ELSE {}
  /\ shown = [v \in View |-> {}]
  /\ news = {} /\ notes = {} /\ toasts = {}
  /\ writes = 0

-----------------------------------------------------------------------------
(* What the queries of the repository answer.                              *)

Live(c)    == c \in Known /\ ~stored[c].gone
Roots      == {c \in Known : Live(c) /\ stored[c].parent = None}
Replies(t) == {c \in Known : Live(c) /\ stored[c].thread = t}

Thread(t, status, rs) == [id |-> t, status |-> status, replies |-> rs]
RootsRead   == {Thread(t, stored[t].status, {}) : t \in Roots}
Joined(ts)  == {Thread(t.id, t.status, Replies(t.id)) : t \in ts}
Threads     == Joined(RootsRead)

Votes(live) == FoldFunctionOnSet(+, 0, [c \in Known |-> stored[c].votes], live)
Stats == LET live == {c \in Known : Live(c)}
             tops == {c \in live : stored[c].parent = None}
         IN [threads |-> Cardinality(tops), replies |-> Cardinality(live \ tops), votes |-> Votes(live)]

Current(kind) == IF kind = "threads" THEN Threads ELSE Stats

-----------------------------------------------------------------------------
(* Requests that write.                                                    *)

Comment(u, p, t) ==
  [by |-> u, parent |-> p, thread |-> t, status |-> "open", gone |-> FALSE,
   votes |-> 0, priority |-> 0, mark |-> "pending"]

\* A reply carries the thread its sender names, else the comment it answers:
\* the sidebar names the root, other callers may name nothing.
ThreadsFor(p) == {p} \cup ({stored[p].thread} \ {None})

Mentions == IF "mention" \in load.ops THEN SUBSET User ELSE {{}}

May(u, op) == request[u] = NoRequest /\ op \in load.ops /\ writes < load.writes

Open(u, op, c, at, to, val) ==
  /\ request' = [request EXCEPT ![u] =
                   [op |-> op, c |-> c, at |-> at, to |-> to, val |-> val]]
  /\ writes' = writes + 1

Save(u, p, t, mentioned) ==
  LET c == Len(stored) + 1
  IN /\ c \in Id
     /\ stored' = Append(stored, Comment(u, p, t))
     /\ Open(u, "post", c, "notes", (mentioned \cap Reader) \ {u}, None)
     /\ UNCHANGED <<cast, met, upset, news, notes, toasts>>

Create(u) ==
  May(u, "post") /\ \E ms \in Mentions : Save(u, None, None, ms)

Reply(u) ==
  /\ May(u, "reply")
  /\ \E p \in Known, ms \in Mentions : \E t \in ThreadsFor(p) : Save(u, p, t, ms)

\* mutant: the notification is published in the step that should store it
NoteByToast(u) ==
  /\ request[u].op = "post" /\ request[u].at = "notes"
  /\ \E m \in request[u].to :
       /\ toasts' = toasts \cup {<<m, request[u].c>>}
       /\ request' = [request EXCEPT ![u].at = "toast", ![u].val = m]
  /\ UNCHANGED <<store, news, notes, writes>>

\* The mentioned are served one by one: stored first, then told. A failure
\* ends the loop and the request goes on.
Note(u) ==
  /\ request[u].op = "post" /\ request[u].at = "notes"
  /\ \E m \in request[u].to :
       /\ notes' = notes \cup {<<m, request[u].c>>}
       /\ request' = [request EXCEPT ![u].at = "toast", ![u].val = m]
  /\ UNCHANGED <<store, news, toasts, writes>>

Toast(u) ==
  /\ request[u].op = "post" /\ request[u].at = "toast"
  /\ toasts' \in {toasts, toasts \cup {<<request[u].val, request[u].c>>}}
  /\ request' = [request EXCEPT ![u].at = "notes", ![u].to = @ \ {request[u].val}]
  /\ UNCHANGED <<store, news, notes, writes>>

NotesEnd(u) ==
  /\ request[u].op = "post" /\ request[u].at = "notes"
  /\ request' = [request EXCEPT ![u].at = "tell", ![u].to = {}]
  /\ UNCHANGED <<store, news, notes, toasts, writes>>

-----------------------------------------------------------------------------
(* Changes of a stored comment. All but resolve and moderation read it     *)
(* first; findById and findByIdAndUpdate find deleted comments too.        *)

\* Nothing looks at the body of a PATCH: it may name any field, one at a time
\* here. A comment is deleted as soon as it has a deletedAt, be it null.
Bodies ==
  [status : Statuses] \cup [mark : Marks] \cup [priority : Figures] \cup [votes : Figures]
  \cup [gone : {TRUE}] \cup [by : User] \cup [parent : Id \cup {None}] \cup [thread : Id \cup {None}]

Raised(n) == IF n < MaxPriority THEN n + 1 ELSE MaxPriority

Find(u, op, c, val) ==
  /\ May(u, op) /\ c \in Known
  /\ Open(u, op, c, "write", {}, val)
  /\ UNCHANGED <<store, news, notes, toasts>>

\* mutant: an edit clears the mark of deletion
EditRevives(u) == \E c \in Known, b \in Bodies :
                    stored[c].by = u /\ Find(u, "edit", c, b @@ [gone |-> FALSE])

\* mutant: the reactions are counted from an empty map
ReactAnew(u) == \E c \in Known : Find(u, "react", c, [votes |-> 1])

React(u)    == \E c \in Known : Find(u, "react", c, [votes |-> stored[c].votes + 1])
Escalate(u) == \E c \in Known : Find(u, "escalate", c, [priority |-> Raised(stored[c].priority)])
Edit(u)     == \E c \in Known, b \in Bodies : stored[c].by = u /\ Find(u, "edit", c, b)
Remove(u)   == \E c \in Known : stored[c].by = u /\ Find(u, "remove", c, [gone |-> TRUE])

\* An update sets the fields it names and leaves the others.
Written(old, val) == [field \in DOMAIN old |-> IF field \in DOMAIN val THEN val[field] ELSE old[field]]

Reacting(c) == {u \in User : request[u].op = "react" /\ request[u].at = "write" /\ request[u].c = c}

\* The author sets the number of reactions.
Sets(r) == r.op = "edit" /\ "votes" \in DOMAIN r.val

Ended(u) == request' = [request EXCEPT ![u] = NoRequest]

Write(u) ==
  LET r == request[u]
  IN /\ r.op # "none" /\ r.at = "write"
     /\ stored' = [stored EXCEPT ![r.c] = Written(@, r.val)]
     /\ cast' = [cast EXCEPT ![r.c] = CASE r.op = "react" -> @ + 1
                                          [] Sets(r)        -> r.val.votes
                                          [] OTHER          -> @]
     /\ met' = IF r.op = "react" /\ Reacting(r.c) # {u} THEN met \cup {r.c} ELSE met
     /\ upset' = IF Sets(r) /\ Reacting(r.c) # {} THEN upset \cup {r.c} ELSE upset
     /\ IF r.op = "escalate"
        THEN Ended(u)
        ELSE request' = [request EXCEPT ![u].at = "tell"]
     /\ UNCHANGED <<news, notes, toasts, writes>>

Resolve(u) ==
  /\ May(u, "resolve")
  /\ \E c \in Known :
       /\ stored' = [stored EXCEPT ![c].status = "resolved"]
       /\ Open(u, "resolve", c, "tell", {}, None)
  /\ UNCHANGED <<cast, met, upset, news, notes, toasts>>

Moderate(u) ==
  /\ May(u, "moderate")
  /\ \E c \in Known, mark \in Marks \ {"pending"} : stored' = [stored EXCEPT ![c].mark = mark]
  /\ writes' = writes + 1
  /\ UNCHANGED <<cast, met, upset, request, news, notes, toasts>>

-----------------------------------------------------------------------------
(* Announcements: published on the document's channel, passed on by the    *)
(* gateway, dispatched to the views on screen. Any of these may fail.      *)

KindOf(op) == CASE op = "post"    -> "created"
                [] op = "remove"  -> "deleted"
                [] op = "resolve" -> "resolved"
                [] OTHER          -> "updated"

Hear(kind, c) == news \cup {[view |-> v, kind |-> kind, c |-> c] : v \in open}

Tell(u) ==
  LET r == request[u]
  IN /\ r.op # "none" /\ r.at = "tell"
     /\ news' \in {news, Hear(KindOf(r.op), r.c)}
     /\ Ended(u)
     /\ UNCHANGED <<store, notes, toasts, writes>>

BreakOff(u) ==
  /\ request[u].op # "none"
  /\ Ended(u)
  /\ UNCHANGED <<store, news, notes, toasts, writes>>

Handle(u) ==
  /\ \/ Create(u) \/ Reply(u) \/ Note(u) \/ Toast(u) \/ NotesEnd(u)
     \/ React(u) \/ Escalate(u) \/ Edit(u) \/ Remove(u) \/ Write(u)
     \/ Resolve(u) \/ Moderate(u) \/ Tell(u) \/ BreakOff(u)
  /\ UNCHANGED <<reads, load>>

-----------------------------------------------------------------------------
(* Reads. A thread listing takes two queries: the roots, then the replies  *)
(* of those roots. Neither cache is ever cleared by a write.               *)

Refresh(f, v) ==
  /\ f \in load.reads /\ fetch[f] = NoFetch
  /\ fetch' = [fetch EXCEPT ![f] = [at |-> "ask", kind |-> "threads", view |-> v, got |-> {}]]

AskStats(f) ==
  /\ f \in load.reads /\ fetch[f] = NoFetch /\ "stats" \in load.ops
  /\ fetch' = [fetch EXCEPT ![f] = [at |-> "ask", kind |-> "stats", view |-> None, got |-> {}]]
  /\ UNCHANGED <<threadCache, statCache, shown, open, news>>

Cached(kind) == IF kind = "threads" THEN threadCache ELSE statCache

ReadCache(f) ==
  /\ fetch[f].at = "ask"
  /\ LET hit == Cached(fetch[f].kind)
     IN fetch' = [fetch EXCEPT ![f] = IF hit = None
                    THEN [@ EXCEPT !.at = "query"]
                    ELSE [@ EXCEPT !.at = "answer", !.got = hit]]
  /\ UNCHANGED <<threadCache, statCache, shown, open, news>>

QueryRoots(f) ==
  /\ fetch[f].at = "query" /\ fetch[f].kind = "threads"
  /\ fetch' = [fetch EXCEPT ![f].at = "replies", ![f].got = RootsRead]
  /\ UNCHANGED <<threadCache, statCache, shown, open, news>>

QueryReplies(f) ==
  /\ fetch[f].at = "replies"
  /\ fetch' = [fetch EXCEPT ![f].at = "fill", ![f].got = Joined(@)]
  /\ UNCHANGED <<threadCache, statCache, shown, open, news>>

QueryStats(f) ==
  /\ fetch[f].at = "query" /\ fetch[f].kind = "stats"
  /\ fetch' = [fetch EXCEPT ![f].at = "fill", ![f].got = Stats]
  /\ UNCHANGED <<threadCache, statCache, shown, open, news>>

Fill(f) ==
  /\ fetch[f].at = "fill"
  /\ IF fetch[f].kind = "threads"
     THEN threadCache' = fetch[f].got /\ UNCHANGED statCache
     ELSE statCache' = fetch[f].got /\ UNCHANGED threadCache
  /\ fetch' = [fetch EXCEPT ![f].at = "answer"]
  /\ UNCHANGED <<shown, open, news>>

\* Answers come in any order; each replaces what the view shows.
Answer(f) ==
  /\ fetch[f].at = "answer"
  /\ shown' = [v \in View |-> IF v = fetch[f].view THEN fetch[f].got ELSE shown[v]]
  /\ fetch' = [fetch EXCEPT ![f] = NoFetch]
  /\ UNCHANGED <<threadCache, statCache, open, news>>

ReadFails(f) ==
  /\ fetch[f] # NoFetch
  /\ fetch' = [fetch EXCEPT ![f] = NoFetch]
  /\ UNCHANGED <<threadCache, statCache, shown, open, news>>

ReadStep(f) ==
  \/ ReadCache(f) \/ QueryRoots(f) \/ QueryReplies(f) \/ QueryStats(f) \/ Fill(f) \/ Answer(f)

\* mutant: the cached entries never lapse
ThreadsKept == FALSE /\ threadCache' = None /\ UNCHANGED <<statCache, fetch, shown, open, news>>

ThreadsLapse ==
  /\ threadCache # None /\ threadCache' = None
  /\ UNCHANGED <<statCache, fetch, shown, open, news>>

StatsLapse ==
  /\ statCache # None /\ statCache' = None
  /\ UNCHANGED <<threadCache, fetch, shown, open, news>>

-----------------------------------------------------------------------------
(* The views.                                                              *)

OpenSide(v) ==
  /\ "view" \in load.ops /\ v \in Side \ open /\ open' = open \cup {v}
  /\ \E f \in Fetch : Refresh(f, v)
  /\ UNCHANGED <<threadCache, statCache, shown, news>>

\* The sidebar is unmounted: it forgets its threads, hears no more news, and
\* an answer still under way for it is dropped.
CloseSide(v) ==
  /\ v \in Side \cap open /\ open' = open \ {v}
  /\ shown' = [shown EXCEPT ![v] = {}]
  /\ news' = {n \in news : n.view # v}
  /\ fetch' = [f \in Fetch |-> IF fetch[f] # NoFetch /\ fetch[f].view = v
                               THEN [fetch[f] EXCEPT !.view = None] ELSE fetch[f]]
  /\ UNCHANGED <<threadCache, statCache>>

\* The page refreshes when it loads, and after what its own user has done.
Reload(v) ==
  /\ v \in open /\ \E f \in Fetch : Refresh(f, v)
  /\ UNCHANGED <<threadCache, statCache, shown, open, news>>

HandleNews(n) ==
  /\ \E f \in Fetch : Refresh(f, n.view)
  /\ news' = news \ {n}
  /\ UNCHANGED <<threadCache, statCache, shown, open>>

Filter(v) ==
  /\ v \in Side \cap open /\ shown[v] # {}
  /\ \E s \in Statuses : shown' = [shown EXCEPT ![v] = {t \in @ : t.status = s}]
  /\ UNCHANGED <<threadCache, statCache, fetch, open, news>>

Browse ==
  /\ \/ \E f \in Fetch : AskStats(f) \/ ReadStep(f) \/ ReadFails(f)
     \/ \E v \in View : OpenSide(v) \/ CloseSide(v) \/ Reload(v) \/ Filter(v)
     \/ \E n \in news : HandleNews(n)
     \/ ThreadsLapse \/ StatsLapse
  /\ UNCHANGED <<store, request, notes, toasts, writes, load>>

Next == Browse \/ \E u \in User : Handle(u)
Spec == Init /\ [][Next]_vars

(* The server goes on with the reads it has begun, and Redis honours TTLs. *)
Frame == UNCHANGED <<store, request, notes, toasts, writes, load>>
FairSpec ==
  /\ Spec
  /\ WF_vars(ThreadsLapse /\ Frame) /\ WF_vars(StatsLapse /\ Frame)
  /\ \A f \in Fetch : WF_vars(ReadStep(f) /\ Frame)

-----------------------------------------------------------------------------
(* Properties.                                                             *)

Listing == SUBSET [id : Id, status : Statuses, replies : SUBSET Id]
StatSet == [threads : 0..MaxComments, replies : 0..MaxComments, votes : Int]
CommentSet ==
  [by : User, parent : Id \cup {None}, thread : Id \cup {None}, status : Statuses,
   gone : BOOLEAN, votes : Int, priority : Int, mark : Marks]

\* Every variable keeps the shape the code gives it, and requests name stored
\* comments.
TypeOK ==
  /\ Len(stored) <= MaxComments /\ \A c \in Known : stored[c] \in CommentSet
  /\ threadCache = None \/ threadCache \in Listing
  /\ statCache = None \/ statCache \in StatSet
  /\ \A u \in User : request[u] = NoRequest \/ request[u].c \in Known
  /\ \A f \in Fetch : fetch[f] = NoFetch \/ fetch[f].view \in View \cup {None}
  /\ open \subseteq View /\ \A v \in View : shown[v] \in Listing

\* A deleted comment stays deleted, and no comment is ever dropped, whatever
\* reactions, edits, escalations and moderation overlap the deletion: every
\* write names the fields it changes.
GoneForGood ==
  [][\A c \in Known : c \in DOMAIN stored' /\ (stored[c].gone => stored'[c].gone)]_vars

\* Reactions are read, raised and written back, so two under way at once may
\* count as one; but none is ever counted that was not made since the author
\* last set their number, and without such an overlap the count is exact,
\* whatever other requests find and write the comment meanwhile. Only where the
\* author sets the number while a reaction is under way is nothing promised.
CountsKept ==
  \A c \in Known \ upset : /\ stored[c].votes <= cast[c]
                            /\ c \notin met => stored[c].votes = cast[c]

\* What is announced is stored before it is heard, whatever broke off: a page
\* refreshes when it hears of a comment, and a user who is told of a mention
\* opens the stored notification.
AnnouncedIsStored ==
  /\ \A n \in news : n.c \in Known /\ (n.kind = "deleted" => stored[n.c].gone)
  /\ toasts \subseteq notes

\* Nothing clears the caches, and a read begun before a write may put its old
\* answer there after it; still, once the writing has ended, every answer is
\* the stored threads and counts, for good.
Settles ==
  <>[](\A f \in Fetch : fetch[f].at = "answer" => fetch[f].got = Current(fetch[f].kind))
=============================================================================
