# A formal model of the realtime collaborative editor

TLA+ modules that model how an edit travels through the editor and what
surrounds it (rooms, presence, comments, documents, access, accounts), TLC
configurations that check them on small instances, and theorems that TLAPS
proves for all of them. Paths are relative to the repository's root; `api/`
stands for `src/api/src/` and `web/` for `src/web/src/`.

Contents: [Inventory](#inventory) · [Modules](#modules) · [DocStore](#docstore)
· [UpdateRelay](#updaterelay) · [DocRoom](#docroom) · [YProvider](#yprovider) ·
[Accounts](#accounts-and-credentials) · [Workspace](#access-and-workspace) ·
[Comments](#comments) · [Presence](#presence) · [Runs](#runs) ·
[Bounds](#bounds) · [Fairness](#fairness) · [Proofs](#proofs) ·
[Findings](#findings) · [Divergences](#divergences) · [Left out](#left-out) ·
[Plan](#plan)

## Inventory

The program is a NestJS API (REST and a Socket.IO gateway), run in several
instances against one MongoDB and one Redis, and a Next.js web client whose
documents are Yjs CRDTs. An instance is one event loop: code between two
`await`s is atomic, and everything across an `await`, an instance or a client is
not.

| Component | State | Operations | Talks to | Hard |
|---|---|---|---|---|
| Document store (`documents.service.ts`, repositories, `lock.service.ts`, `document-jobs.service.ts`) | `documents.version`, `docupdates`, `doccontents`, `docsnapshots`; lock `lock:doc`; caches in Redis and in each process | `applyYUpdate`, `getYState`, rollback, manual snapshot, repair, compaction, snapshot and retention jobs | MongoDB transactions, Redis | the row is read before the lock; lock TTL; two cache tiers; jobs without a lock |
| Update relay (`ws.gateway.ts`) | `ws:dedup`, `ws:lastseq`, an in-memory batch with a timer, offline queues, pub/sub | `y-update`, `flushDoc`, `queueForOffline`, `publishFanout`, subscriber | document store, Redis, rooms | retries on two instances, overlapping flushes, at-most-once fanout, crash with a batch |
| Document rooms (`ws.gateway.ts`) | Socket.IO rooms, `joinedDocs`, `subRefs`, `ws:online` | connect, `doc:join`, `doc:leave`, disconnect | relay, store | a join is many awaits; capacity; reference counts; two tabs of one user |
| Web sync provider (`yjsProvider.ts`) | `Y.Doc`, REST queue with timer and backoff, `wsSeq`, IndexedDB, `localStorage`, BroadcastChannel | edit, load, resync, flush, retry, reload, socket events | gateway, REST | offline queue, failed requests, reload at any time, echoes between tabs |
| Presence and section claims (gateway, `EditorCollab.tsx`) | expiring Redis records and sets; the page's lists | `presence`, `section:claim`, `section:release`, lists at a join, clean-up | rooms, fanout | TTLs of record and index differ; swallowed errors; a record older than its list |
| Document metadata and listing | `documents`, `docs:ws` cache (30 s) | create, update, softDelete, list | workspaces, maintenance | count then create; a stale listing cached after a change |
| Access control (guards, `hasDocAccess`, `canAccessDoc`) | permissions, memberships, `share:link` | check, grant, revoke | all handlers | one rule written four times, checked before awaits |
| Workspaces, members, sharing links | collections; `share:link` records | create, invite, remove, share | access control | a workspace and its owner's membership in one transaction |
| Accounts (`auth.*`, `users.service.ts`, `privacy.controller.ts`) | `refresh`, `session`, `user-sessions`, one-time tokens, attempts and lock | register, login, refresh, logout, revoke, delete | Redis, signing keys | several records per session, written one by one |
| Signing keys (`jwt-keys.service.ts`) | `jwt:keys` | initialise, rotate, prune, sign, verify | accounts | load-modify-save from every instance; key names |
| Comments (`comments.controller.ts`, `CommentsSidebar.tsx`) | `comments`, cached lists, reactions, notifications; the page's views | create, reply, resolve, react, escalate, moderate, remove, announce, read | fanout, notifications | read-modify-write of reactions; caches no write clears; partial failures |
| Job queue and maintenance | job records, timers, counters | add, run, retry, cleanup, archive, retention | document store, workspace | a retry of what was done; work racing live writes |
| Rate limiting (`rate-limit.middleware.ts`, `ws-rate.ts`) | counters with TTL in Redis, requests in flight per instance | bump, block, throttle, finish | all requests and messages | `INCR` without `EXPIRE`; a count taken down by an event that may not come |
| Memory cache | bounded map | get, set, evict | store | eviction order |
| Other messages, migrations, search, notifications, features, chaos, metrics, audit, encryption, pages | see `PROJECT.json` | | | little state that others read |

What makes them correct, in a sentence each:

- *Store*: versions are handed out once and in order; compaction takes a prefix
  and leaves the last `DOC_UPDATE_KEEP`; nobody is served a state the document
  never had; stale caches die out; the lock is never released for another; a
  rebuild from the log misses nothing between two batches.
- *Relay*: what anyone is shown is stored; nobody is shown it twice; a retried
  message is stored once; no batch waits without a timer; what is stored is seen.
- *Rooms*: a room never overfills; an instance with a settled socket stays
  subscribed, unless `SUBSCRIBE` failed or a leave took a reference that was not
  its own; a socket that has joined misses no version but those given up on their
  way to it, or stored before a y-init that was outdated or did not come.
- *Provider*: an edit is stored, or the tab still has it to send; it gets to
  the server; tabs converge and fall silent.
- *Accounts*: the current key exists; a token verifies until it expires; the
  sessions listed are those that can be refreshed; a session lives once; the
  lock follows the attempts; a used token is spent.
- *Workspace*: the listing agrees with the database; the limit is passed by no
  more than what was counted together; the copies of the role rule agree; what a
  guard grants was due at some moment of the request, unless its document was
  purged meanwhile or its body named another workspace; content goes only with its document, and does go.
- *Comments*: reactions are counted, from the number the author last set if he
  did; deletions stay, what is announced is
  stored, and reads settle.
- *Presence*: nobody is shown a minute after his last sign; a claim that the set
  read by joining pages was given a life for stays in it while it holds.
- *Rate limits*: a window lets through no more than it may and has an end; the
  requests at work are counted right.

`PROJECT.json` lists the hazards found in reading the code, each at its line,
with the properties that would catch it.

## Modules

| Module | Is | Uses |
|---|---|---|
| `UpdateLog` | abstract history of a document: what persistence promises | |
| `DocStore` | the stored state of one document under every operation | `INSTANCE UpdateLog` |
| `UpdateRelay` | from `y-update` to the history, the rooms and the queues | |
| `DocRoom` | joins, leaves and lost connections, composed with the relay | `EXTENDS UpdateRelay` |
| `YProvider` | the tabs of one browser with their storage, and the server behind them | |
| `SessionLife` | abstract life of sessions: what signing in promises | |
| `Accounts` | signing keys, tokens and sessions of one user | `INSTANCE SessionLife` |
| `Credentials` | the requests before a session: registration, attempts, lock, one-time tokens | composed in `MCAccounts` |
| `Access` | roles, permissions, share links, and the guards read by read | |
| `Workspace` | the documents of one workspace, their listing, deletion and clean-up | `EXTENDS Access` |
| `Comments` | the comments of one document, announcements, cached reads and a page's views | |
| `Presence` | presence and claims of one document, in Redis and on the pages | |
| `Throttle` | rate limits and requests in flight, for one address | composed in `MCPresence` |
| `MC…` | values of the constants for TLC | the module of that name |
| `…Proofs` | theorems about the module of that name; `AccountsProofs` also about `Credentials` | it, `TLAPS` |
| `GatewayProofs` | theorems about `Presence` and `Throttle` | both, `TLAPS` |

`DocRoom`'s next-state relation is the relay's (`Relay`, and `Arrive` of a
message on a connected socket) together with the room's own actions; a crash is
the relay's `Crash` and the loss of the instance's sockets, joins and reference
counts in one step (`CrashInstance`). The relay keeps of the store only what it
needs — the lock, and a history to which a commit appends — since `DocStore`
models the rest; `YProvider` keeps of the gateway one step per message.
`Workspace` extends the guards of `Access` with the requests they protect, so
that a request is checked and served step by step while roles change.
`Accounts` and `Credentials` share no variable and no name: `MCAccounts` extends
both and puts them in one run, whose behaviours are of the one or of the other;
`MCPresence` does so with `Presence` and `Throttle`.

Conventions. A Yjs update or state is a *set*, and merging is union: Yjs is
external, and what the code relies on is that merging is idempotent, commutative
and associative. An action ends at an `await`; `pc` (or `fpc`, `jpc`, `lpc`, the
field `at` of a request) names the await a call is suspended at. A variable
marked as history is there for the properties, which use it to name the
exceptions they make; it does not change what the others can do. Operators marked `mutant:` are
plausible bugs: for each checked property one of them, put in place of the
definition after it, makes TLC find the property violated.

## DocStore

| State | Code |
|---|---|
| `version`, `log`, `content`, `snaps` | `documents.version`, `docupdates`, `doccontents`, `docsnapshots` |
| `lock` | Redis `lock:doc:<id>`; the token is the request |
| `mem[i]`, `redis` | `doc:y:<id>` in the memory cache of instance `i`, and in Redis |
| `pc`, `delta`, `st`, `seq` | a request's control point, its update, merged state, version or cursor |
| `expired`, `stored` | history variables: requests whose lock lapsed under them; states the row has had |

`applyYUpdate` is `Submit`, `ReadMerge` (before the lock: 149-180), `Acquire`
(`SET NX PX`, or Conflict), `Commit` (the transaction: version, log entry,
content, periodic snapshot), `Compact`, `Release` (compared token), `DropMem`,
`DropRedis`, `SetRedis`; `FailLocked` is an exception inside the lock. The
transaction is one step because `withTransaction` commits or aborts. `getYState`
is `AskRedis`, `FillFromRedis`, `FetchRow`, `KeepRow`, `SetRedis`. Rollback,
manual snapshot, repair (`RepairStart` … `RepairWarm`) and the two jobs
(`JobStart` … `JobWrite`; `CompactJobRead`, `CompactJobDelete`) follow the same
way, with one step per batch of rows they read; `Retain` is the maintenance job
that keeps the last snapshots of a document. The environment lets TTLs lapse,
calls fail, stored bytes rot, and a process die with its requests and memory
cache while its lock stays.

`HistoryKept` says that this implements `UpdateLog`: every step appends the next
version, skips a number (a manual snapshot), prunes a prefix that leaves the
last `Keep` versions, or leaves `version` and `log` alone. The mapping is the
identity: `UpdateLog` is what remains when everything else is hidden.
`RebuildMissesNothing` is about the cursor of the snapshot job and the repair:
what they write holds every update that is logged at that moment up to the last
version they read, though writes append and compaction cuts between two batches.
It says nothing of updates compaction had cut before (see Divergences).

## UpdateRelay

| State | Code |
|---|---|
| `pc[h]` | a call of `onYUpdate`: an arrival of message `Carries[h]` on socket `From[h]` |
| `ids`, `lastseq` | Redis `ws:dedup:<doc>` and `ws:lastseq:<doc>:<user>` |
| `pending[i]`, `timer[i]` | the batch entry of `pendingBatches` on instance `i` |
| `fpc`, `fupd`, `fver`, `away`, `whom` | a call of `flushDoc`; the absent users it has yet to push to, and the one whose queue it has yet to trim |
| `log` | the history: version `v` is the batch `log[v]` |
| `wire`, `subs` | published messages not handled yet; subscribed instances |
| `got`, `queue` | events emitted to a socket; Redis `ws:queue:<doc>:<user>` |
| `room`, `joined`, `online` | Socket.IO room, `joinedDocs`, `ws:online:doc:<id>` |
| `quota` | what may still go wrong in this behaviour |
| `lapsed`, `again`, `overfull` | history variables: expired dedup entries; sockets shown an event twice; users whose queue's last trim was given up |

A message arrives (`Arrive`), is looked up and entered in one `SADD` (`Dedup`),
compared with the last sequence number and only later written as the new one
(`ReadSeq`, `WriteSeq`), put in the batch and acknowledged (`Accept`), or refused
at any point (`Refuse`). A timer that fires takes the batch (`TakeBatch`); the
flush asks for the lock and drops the batch on Conflict (`AskLock`), commits,
emits, reads who is absent (everybody, if the online set cannot be read), pushes
to their queues, and publishes. `LPUSH` and `LTRIM` are two steps (`PushAbsent`,
`TrimQueue`): between them, and after a failure or a crash there until the next
trim, a queue is over its cap, and `QueueBounded` says by how much. The subscriber
ignores what its own instance published (`Receive`). Several calls of either
kind overlap, also on one instance. Faults, switched by the constant `Faults`:
refused messages, failed calls, lost publications, lapsed keys, crashes.

Every message has a `msgId` and a `seq`, as the web client's always do. The lock
is ideal here: it lapses only when its holder died (`LockLapses`); lapses under a
live holder are `DocStore`'s. `pruneIdle` removes entries nobody waits for and
cannot be observed.

## DocRoom

| State | Code |
|---|---|
| `connected`, `closing` | live sockets; those whose `handleDisconnect` waits for its audit entry |
| `jpc`, `lpc` | where a socket's `doc:join` and `doc:leave` are |
| `refs`, `orders` | `subRefs` of an instance; the `SUBSCRIBE`s and `UNSUBSCRIBE`s its connection has yet to carry out |
| `init` | the version of the y-init a socket has |
| `base`, `behind` | history: the version stored when it was read; sockets whose y-init was outdated or did not come |
| `deaf`, `robbed` | history: instances whose last `SUBSCRIBE` failed; those that lost a reference to a leave without a counted join |
| `unheard` | history: the versions given up before they reached an instance |

`Connect` is `handleConnection`: until it has attached the user every message of
the socket is refused, and it may turn the socket away. `onJoin` is `Ask`
(document and role are looked up) or `Deny`, `Enter` (capacity check and
`client.join` without an await in between), `MarkOnline`, `DrainOne` repeated and
`Drained`, `SendInit`, `Subscribe`. `SendInit` may read an outdated cache, or fail
and be swallowed: the join goes on without a y-init. `Subscribe` counts the
reference and gives the order; the connection carries it out later and in order,
and its failure is swallowed (`Execute`), so the instance stays counted and
unsubscribed. `onLeave` is `LeaveRoom`, `Forget`, `Unsubscribe`, at any moment of
any socket, joined or not; a lost connection is `Disconnect`, and after an audit
entry `MarkOffline`. Joining a room with a closed socket does nothing (Socket.IO,
external). A user comes back on another socket, so a reconnection is a join of a
fresh one.

The two properties make exceptions of what the code does lose, and each exception
is a history variable that one kind of step sets. `SettledIsSubscribed` leaves out
the instances that are `deaf` or `robbed`. `JoinedCatchesUp` leaves out versions
stored before a y-init that was outdated or missing, and those `unheard`: not
published, lost, or published while the instance was not subscribed - which is
what becomes of an update between the read of the state and the subscription in
the first join on an instance. What is left is that the y-init, the room, the
flushes and the messages under way leave no other gap between them, whatever
joins, leaves and faults come between.

## YProvider

| State | Code |
|---|---|
| `doc[t]` | `ydoc` of tab `t` |
| `queue`, `timer`, `retry` | `queue`; the batch timer; a flush due after a backoff or resync |
| `post`, `loading` | POST bodies and GETs without an answer |
| `seq`, `connected`, `up`, `down` | `wsSeq`, `wsConnected`, the socket in both directions |
| `kept`, `idb`, `bc` | `localStorage` `doc-queue:<id>`, IndexedDB `doc-<id>`, what BroadcastChannel has not delivered |
| `stored`, `joining`, `member`, `lastseq` | the server: document, sockets joining and joined, last sequence number |
| `dropped` | history variable: edits the socket took and the server did not |

At first every tab has just opened a document that is still empty and waits for
its `load`. Every way a document grows — an edit, another tab, IndexedDB, an answer, a socket
event — is `Apply`: Yjs fires `update` exactly when the document grew, and the
listener sends the difference over the socket or queues it, and tells the other
tabs, without looking at its origin. `Enqueue` returns before `persistQueue` when
the timer is armed. `Flush` empties the queue into one body; `PostAnswered`
persists the queue as it is then, `PostFails` queues the body again, and the
server may have stored it all the same. `Reload` starts the page over from
`localStorage` (no timer is armed), IndexedDB (loaded later) and the server;
requests under way may still be served. `wsQueue` is left out: `sendYUpdate` is
called only while `wsConnected`, so it is always empty. On the server's side a
socket that is not yet in the room is refused (`ServerUpdates`), an old sequence
number is only acknowledged, and what REST stores is told to no socket.

## Accounts and Credentials

| State | Code |
|---|---|
| `store` | Redis `jwt:keys`: ids, secrets, times of creation, the current id |
| `req[p]` | a request: its control point, the session it is about, the copy of the key store it loaded |
| `refresh`, `session` | `refresh:<jti>`, `session:<jti>` with their expiry |
| `listed`, `until` | `user-sessions:<user>` and its expiry |
| `tok`, `given` | the refresh tokens that were signed, and the cookies clients hold |
| `reused`, `fresh`, `lineage`, `dropped`, `broken` | history |
| `attempts`, `timed`, `locked` | `login:<email>:<ip>`, whether it has a TTL, `lock:<email>` |
| `hash`, `verified`, `token` | the user's row; `verify:<token>`, `reset:<token>` |
| `early`, `stuck`, `missed`, `used` | history |

A signature is `Load` (load, rotate if due), `Save` of the copy that was loaded,
`Reload`. Sign-in goes on with one write per step (`SetRefresh`, `SetSession`,
`List`, `Expire`); an exchange first deletes the three records of the old session
(`GetRefresh` … `Unlist`). Sign-out and revocation are `RevokeRefresh`, `Find`
(who owns it) and `DelSession`, `Unlist` or `DelUnowned`. `Erase` deletes what the
listing names. A request may break off between any two steps. The clock
passes between requests; `R`, `Short` and `Long` are the rotation period and the
two times to live. A key is kept for three periods, so `AccountsAssumption` asks
that no token outlives two: with `JWT_ROTATE_DAYS` under 15 a thirty-day token
may lose its key. `Starts` gives what a
behaviour starts with: the key store and its time, the operations in play, and how
many requests break off. Of such a store the assumption asks what the others
are shown to keep: its current id names a key, and no id names two. `LivesOnce` says
that this implements `SessionLife` (a session opens once, closes once, and one
that replaces another opens after the other has closed for good): a session is
open while `refresh:<jti>` is there, and closed when it was and is no longer.
`LoggedOutIsClosed` is about sessions no client holds any more whose token was
signed with `JWT_SECRET`, the only ones a sign-out can verify.

`Credentials` counts attempts in two calls, `INCR` and, by the request that found
no counter, `EXPIRE`. `More` counts no further than one beyond the limit, since
the code only asks whether the limit is passed. `Minute` ends a counter that has
a TTL; one whose `EXPIRE` never came counts on. `GetToken`, `DelToken` and
`WriteUser` are one-time tokens; two requests may share one if both read it before either
deleted it, which the property allows and later use it does not.

## Access and Workspace

| State | Code |
|---|---|
| `row`, `deletedAt` | `documents.status` (or removed by the TTL index), `documents.deletedAt` |
| `content` | whether `doccontents` has a row for it |
| `member`, `perm` | `workspacemembers.role`, `permissions.role` |
| `link` | `share:link:<token>` |
| `cache` | `docs:ws:<id>`: one listing, or nothing |
| `req[p]` | a request in a guard or in its handler |
| `cleanup`, `orphans` | what `cleanupDeleted` and `cleanupOrphans` have listed |
| `held`, `restored`, `stray` | history |

The role rule is written four times in the code, and four times in `Access`:
`RestAllows` (`DocumentGuard`), `SocketAllows` (`hasDocAccess`), `MayBeMentioned`
(`canAccessDoc`), `MayLabel` (`updateSnapshotMeta`). `GuardStep` reads document,
permission and membership in turn. `OwnerOf` never matches in `RestAllows`, as
the code compares a string with an ObjectId there; `GuardsAgree` says exactly how
much further the gateway goes. `GrantedWasEntitled` relates a guard, which reads
the database three times, to a moment at which all it read was true together: it
excepts a document that the TTL index took between two reads. `AskWorkspace` is
`WorkspaceGuard`, which takes the workspace from the path, then the body, then the
query, while the listing uses the query: a request whose body `names` another
workspace is asked about there, with either answer, and acts here. `Workspace` has creation (count, create, drop the
cached listing), the listing (cache, query, fill), update, soft deletion, an edit
that stores content, and the three things that clear up. A status stands for all
of a document's metadata. `ListingAgrees` excepts what a 30 s cache filled by
readers must show: a listing read before and cached after a change.

## Comments

| State | Code |
|---|---|
| `stored` | the `comments` collection, in the order of insertion |
| `threadCache`, `statCache` | `comments:list:<doc>` (30 s), `comments:analytics:<doc>` (60 s) |
| `request[u]`, `fetch[f]` | a write, and a read, under way |
| `notes`, `toasts`, `news` | stored notifications, published ones, announcements at the page |
| `open`, `shown` | the views on screen (sidebar, overlay) and their threads |
| `cast`, `met`, `upset` | history: the reactions made since the author last set their number, and that number; comments where two reactions met, or one and the author's number |

Posting is `Create` or `Reply`, then per mention `Note` and `Toast`, then `Tell`;
a failure of a notification ends the loop and not the request. A change of a
comment is `Find`, `Write`, `Tell`: the value is computed when it is found and the
update sets only the fields it names. Nothing looks at the body of a `PATCH`, so
an author's `Edit` may write any field (`Bodies`, one at a time), the number of
reactions included; that number is where `CountsKept` then counts from, and a
comment where it met a reaction under way is left out (`upset`). A thread listing is two queries
(`QueryRoots`, `QueryReplies`) and is cached after both; no write clears a cache.
Announcements may be lost, reads may fail, and a user may close the sidebar with
a read under way.

## Presence

| State | Code |
|---|---|
| `members`, `record[u]` | `ws:presence:doc:<doc>:users`, `ws:presence:doc:<doc>:<user>`, with expiry |
| `claimSet`, `claimKey[k]` | `ws:section:doc:<doc>`, `ws:section:doc:<doc>:<claim>`, with expiry |
| `page[c]` | what an open page lists: people with their time, typing marks, claims |
| `task[c]`, `joining[c]`, `leaving[c]` | a message, the rest of a join, the rest of a disconnect |
| `wire[i]` | publications instance `i` has yet to receive |
| `lastSent` | history |

A presence message is kept (`KeepMember`, `KeepRecord`) and passed on (`Tell`); a
claim likewise, with its key, the set and the set's life in three commands
(`KeepClaim`, `ListClaim`, `Extend`), any of which may fail and skip the rest; a release looks at the owner first
(`CheckOwner`) and is announced whatever it found, since the refusal is caught
with every other error. A joining socket is in the room before it is sent the
lists. The code reads each as a set and then key by key; here the keys are read in
one step, so what a list overwrites while it is read (a newer event, for the two
seconds until the page cleans up) is left out. A tick is half a minute and comes
when nothing is under way, since handlers take milliseconds; with it keys lapse
and pages clean up. `LiveClaimsListed` is about the claims the set was given a life
for (`kept`): not about one whose `EXPIRE` did not come, until another's does, nor
about one that outlives what the latest claim gave the set.

## Throttle

The limits that every request and every socket message meets first, for one
address: `Through` names the order of the windows, `Judged` what a full one does.

| Variable | Code |
|---|---|
| `counter`, `timed` | the counters in Redis and which of them have a TTL; for `paths` the number of members of the set |
| `blocked` | `block:ip:<ip>` |
| `inflight` | the map of that name in each instance |
| `call[c].at`, `win`, `slot` | the command awaited and its window; whether the request is counted, or answered with its finish event to come |
| `passed`, `leaked`, `orphans` | history |

`Count` and `SetWindow` are the two commands of `bump` (and of `allowWsMessage`),
each with the checks that follow it up to the next `await`; the check of the
requests in flight has none before it and belongs to `Ask` or to the emergency
window. A refusal of a document or comment request is answered before it is
counted as abuse, so its finish event may come first. A lost connection sends
none (`HangUp`). Nothing catches an error of the middleware, and an unhandled
rejection ends the process, so a failed command is a crash (`NodeFails`); for a
message it is an error reply (`MessageFails`).

## Runs

| Run | Module, cfg | Checks | Shows |
|---|---|---|---|
| `docstore` | `MCDocStore`, `DocStore` | `VersionsAssignedOnce`, `ServedWasStored`, `LockHeldInside`, `HistoryKept`, `RebuildMissesNothing` | safety of all operations under all faults |
| `docstore_live` | `MCDocStore`, `DocStoreLive` | `LockFreed`, `CachesConverge` | orphaned locks and stale caches die out |
| `lost_update` | `MCDocStore`, `LostUpdate` | `LoggedIsStored` violated | the read before the lock loses an update |
| `relay` | `MCUpdateRelay`, `UpdateRelay` | `SeenIsStored`, `DeliveredOnce`, `StoredOnce`, `BatchHasTimer`, `QueueBounded` | safety of the relay under all faults |
| `relay_live` | `MCUpdateRelay`, `RelayLive` | `StoredIsSeen` | without faults, what is stored is seen on both instances |
| `rooms` | `MCDocRoom`, `Rooms` | `RoomWithinCapacity`, `SettledIsSubscribed`, `JoinedCatchesUp` | joins, leaves and any one fault around an update, on two instances |
| `provider` | `MCYProvider`, `Provider` | `HeldUnlessDropped`, `EditSyncs`, `TabsSettle` | edits survive faults and reloads, tabs converge |
| `accounts` | `MCAccounts`, `Accounts` | `CurrentUsable`, `OpenVerifies`, `ListingTrue`, `LoggedOutIsClosed`, `LivesOnce`, `LocksAgree`, `UsedIsSpent` | keys, tokens, sessions, attempts and one-time tokens with requests that overlap and break off |
| `rotated_access` | `MCAccounts`, `RotatedAccess` | `AccessAccepted` violated | after the first rotation no new access token is accepted |
| `workspace` | `MCWorkspace`, `Workspace` | `WithinLimit`, `ListingAgrees`, `GrantedWasEntitled`, `GuardsAgree`, `ContentKept`, `OrphansGo` | documents, listing, guards and clean-up while roles change and links lapse |
| `comments` | `MCComments`, `Comments` | `CountsKept`, `AnnouncedIsStored`, `GoneForGood`, `Settles` | comments of two users with failures, and cached reads |
| `presence` | `MCPresence`, `Presence` | `ShownIsRecent`, `LiveClaimsListed`, `SlotsHold`, `WindowsHold` | presence on two instances for a minute and a half, claims for two and a half; rate limits on one instance |

Runs that pass use `CHECK_DEADLOCK FALSE` because the modelled system may come
to rest: all messages handled, all bounds used up.

## Bounds

| Run | Instance | Why it is enough |
|---|---|---|
| `docstore` | 2 requests at once on 2 instances, 2 updates, 3 writing operations, `Keep` = 1, snapshot every 2, hot above 1, batches of 1, one snapshot kept | two requests meet in every pair of awaits; three operations reach compaction, a periodic snapshot, a hot document, and a write or a cut between two batches |
| `docstore_live` | writes, reads, rollbacks, snapshot retention and crashes, a snapshot per write, batches of 2 | three writing operations order any two warm-ups against an invalidation |
| `relay` | 2 instances, 2 messages on 3 arrivals, 3 flushes, one absent user with a queue of 1, two things that go wrong | a retry on the other instance, a follow-up, two flushes of one instance overlapping, a queue over its limit between two commands and after a fault; a fault on top of another |
| `rooms` | 4 sockets of 2 users on 2 instances, capacity 2, one update, one thing that goes wrong: a leave, a lost connection, a crash, a failed or lost call, an outdated cache | a full room, two tabs of a user, a leave against a join against a flush, a first join on the other instance while the update is published; the two tabs are symmetric |
| `provider` | 2 tabs, 1 edit, 1 fault | every fault at every point of an edit's way, a failed `load` included; echoes between two tabs and the server |
| `accounts` | 2 requests at once, 2 sessions, a clock of one rotation period of two ticks (a short token lives one, a long one two), in three starts: a new key store with every operation but erasure and one request that breaks off; the same with sign-in, exchange and erasure; a store after four rotations with every operation but revocation. 2 addresses, 1 free attempt, 2 passwords, 1 token, one request that breaks off | two exchanges of one token, two rotations at once, a short sign-in beside a long one, a rotation that reuses an id, a counter at one beyond the limit while another address counts |
| `workspace` | 2 requests at once, 3 documents, limit 1, 1 role change or broken-off request, 1 link, in seven mixes of operations | creations counted together; a listing that overlaps a change; a delete, restore or edit around each clean-up step; a role or a link that goes between two reads of a guard |
| `comments` | 2 users, 3 comments, up to 4 writing requests, 2 reads, in four loads | two reactions at once, a deletion inside every other request, a mention that fails at each call, a read that straddles a write |
| `presence` | 3 pages of 2 users on 2 instances, 3 ticks (5 with claims, which are made for half a minute, one minute or two and a half), in four loads: two pages and two messages; two tabs of one user, of which one goes, beside another's page; a page that goes and a fault; two claims or releases and a fault. 3 calls, two at once on one instance | a record that outlives its page, a list older than its members, a set that was extended by a later, shorter claim; calls of one kind or mix, windows of 1 to 3, one fault, for every window full, a full instance, a call cut off between two commands |

`Quota`, `Changes` and `Breaks` bound how much of what the environment does to a
behaviour there is (faults, departures, role changes, writing operations), in the
guards; `Sessions`, `MaxComments` and
`MaxClaims` bound what is ever made, `Span` and `time` the clock; calls are
bounded by the sets `Proc`, `Handler`, `Flusher` and `Fetch`. Where a module has
`Mixes` or `Loads`, one run checks several kinds of behaviours, each with the
bounds it can afford; the choice is made in `Init` and stays. Symmetry is used
in runs without liveness only, over sets whose members the model never tells
apart (`Update` in `docstore`, two tabs of one user in `rooms`, `Proc` in
`accounts`). The theorems have none of these bounds.

## Fairness

- `DocStore`: a request whose process lives takes its next step (an event loop
  and drivers that answer or throw), and keys with a TTL lapse. Nothing makes
  clients call.
- `UpdateRelay`: handlers and flushes go on, an armed `setTimeout` fires, a
  subscriber handles what it received. Used only without faults, since Redis
  pub/sub never resends.
- `YProvider`: as long as a timer, a request, a socket or BroadcastChannel has a
  step to take, one of them takes one. That is less than fairness of each, which
  the browser's event loop would justify, and it is enough. Faults are finite in number; reconnecting and
  editing are never required. Nothing is fair about a queue that a reload
  restored (the code arms no timer for it): `EditSyncs` holds without it because
  IndexedDB brings the edit back as an update, which is queued or sent anew.
- `Workspace`: the maintenance timer runs `cleanupOrphans` every minute: its
  listing and its deletion happen if there is something to list or delete.
  Nothing is fair about requests, ageing or the TTL index.
- `Comments`: a read that has begun goes on, and the two caches lapse. Nothing
  makes anyone read or write.

All of it is weak fairness: of single steps, and for `YProvider` of all of them together.

## Proofs

TLAPS checks every theorem for all values of the constants that meet the named
assumptions: `DocAssumption`, `RelayAssumption`, `RoomAssumption`,
`ProviderAssumption`, `AccountsAssumption`, `CredentialsAssumption`,
`AccessAssumption`, `WorkspaceAssumption`, `CommentsAssumption`,
`PresenceAssumption`, `ThrottleAssumption`. Apart from the shapes of the
constants they say that absent values are different from real ones, that limits
are natural numbers (positive for capacities, divisors and lifetimes), that
`Socket`, `Call` and `Workspace`'s `Proc` are finite (and `Proc` not empty), that
no user's id is a share link's, and that a key store at first is a usable one.

| Theorem | Property | Inductive invariant |
|---|---|---|
| `DocStoreProofs!TypeCorrect` | types | with `LocalsDecoded`: only a manual snapshot copies undecoded bytes |
| `LockSafe` | `LockHeldInside` | itself: every step inside either holds the lock or is recorded as expired |
| `ServedSafe` | `ServedWasStored` | `StateInv`: what a request is about to cache has been the content, and what it will commit contains its own update. Without it a cache write could come from anywhere |
| `VersionsSafe` | `VersionsAssignedOnce` | `VersionInv`: a manual snapshot in flight owns its number; compaction works from numbers not ahead of the version |
| `HistoryRefined` | `HistoryKept` | a step simulation on top of the above: the numbers in flight bound what a prune may cut |
| `RebuildsWhole` | `RebuildMissesNothing` | `Gathered`: what a rebuild has merged so far holds every logged update up to its cursor. The log only gains versions above the current one and loses a prefix, so no row appears behind the cursor |
| `UpdateRelayProofs!RelayTypeCorrect` | types | itself |
| `BatchesTimed` | `BatchHasTimer` | itself |
| `SeenSafe` | `SeenIsStored` | `EventInv`: flushes past their commit and messages on the wire carry versions of the history; versions are stable since the history only grows |
| `DeliverySafe` | `DeliveredOnce` | `FreshInv`: who can already have the version of a flush, of a message |
| `DedupSafe` | `StoredOnce` | `OnceInv`: a message with a live dedup entry is in one place among handlers, batches, flushes, versions, and in none without an entry |
| `QueuesBounded` | `QueueBounded` | `QueueInv`: a version that is still to be pushed to a user is not in his queue yet, so the queue holds each once, in the order of the pushes, and what it is over its cap by is owed by flushes that have pushed and not trimmed, or was given up with one of them |
| `DocRoomProofs!RoomTypeCorrect` | types | itself |
| `RoomsBounded` | `RoomWithinCapacity` | itself, with cardinalities of finite sets |
| `Subscribed` | `SettledIsSubscribed` | an instance not robbed has at least as many references as sockets that are in, and one with a reference is subscribed or deaf, or its last order is `SUBSCRIBE` |
| `JoinsCatchUp` | `JoinedCatchesUp` | of the versions its y-init lacked, a socket past its entry got each, or a flush or a message that has yet to bring it holds it, or it is in `unheard` or under `base`; a version enters `unheard` in the very step that gives it up |
| `YProviderProofs!ProviderTypeCorrect` | types | itself |
| `EditsHeld` | `HeldUnlessDropped` | itself, with lemmas on what is still to send as messages and requests come and go |
| `AccountsProofs!KeysStayUsable` | `CurrentUsable` | `Base`: types, and that the copies requests hold, written back whole, are usable too |
| `OpenTokensVerify` | `OpenVerifies` | for any rotation period and any times to live of at most two of them. `KeyInv`: rotations that overlap hold copies of one store, which is still there or was rotated by one of them, and the key that signs is not due; the key of a token outlives it, unless its id was reused |
| `SessionsLiveOnce` | `LivesOnce` | `LifeInv`, then a step simulation: ids are handed out in order, each opened once and by the request that made it, and a session that replaces another finds it closed |
| `SignOutCloses` | `LoggedOutIsClosed` | `SessionInv`: until a session is listed nobody knows it; one whose token nobody holds is closed, or its request is still at work on it |
| `ListingIsTrue` | `ListingTrue` | `SessionInv`: what is open and in hand is shown unless the list was cut short, what is shown is open or about to vanish, and the records lapse with the token |
| `LocksAgreeHolds` | `LocksAgree` | `LockInv`: a counter has a TTL, or the request that began it is about to set it, or it is stuck; it counts no more than the minute saw; one beyond the limit that will end has locked the account. The second part ties the lock's reason to the first call, not to the last |
| `UsedIsSpentHolds` | `UsedIsSpent` | `TokenInv`: a token about to be written with is gone, and no token is made twice |
| `WorkspaceProofs!LimitNearlyKept` | `WithinLimit` | `LimitInv`: what is stored and what is past the count stay together below the limit and the number of requests |
| `ListingNearlyFresh` | `ListingAgrees` | itself, with types |
| `ContentNotLost` | `ContentKept`, of every step | `ClearInv`: a job's list holds only documents that were deleted long ago, taken back since, or purged |
| `CopiesOfTheRuleAgree` | `GuardsAgree` | types: it follows from the four definitions and what a row can hold |
| `GuardsWitnessed` | `GrantedWasEntitled` | `WayInv`: who is in which stage of which guard, that a share link seen to allow the request has been noted, and that a document once seen is there or purged; a request past `WorkspaceGuard` was entitled, or its body named another workspace |
| `CommentsProofs!CountsKeptAlways` | `CountsKept` | `VoteInv`: a reaction under way on a comment that is not upset writes at most one more than were made; exactly one more than is stored, unless it met another |
| `AnnouncedIsStoredAlways` | `AnnouncedIsStored` | `RequestInv`, `NewsInv`: a request past its write, like what it announces, names a stored comment; a deletion announced is written; a mention is stored before it is told |
| `GoneForGoodAlways` | `GoneForGood`, of every step | what a request is about to write names no field of another operation, so it can neither clear the mark nor drop the row; `ReadInv` says of listings, however old, that the comments they name exist |
| `GatewayProofs!SlotsHoldAlways` | `SlotsHold` | `SlotInv`, with `Shape`: no request is counted before it enters, and messages never are, so a slot is taken once and given up once |
| `WindowsHoldAlways` | `WindowsHold` | `WindowInv`: a window is begun by one call, which is not let through yet, so the counter stays above what passed; a window that can end has nobody beginning it |
| `ShownHeardOf` | `ShownIsRecent` | `RecentInv`: events in hand or on the wire are of this very tick, records and shown persons are recent; `StoreInv` says what a page that joins is owed |
| `ClaimsStayListed` | `LiveClaimsListed` | `ClaimInv`: a claim the set was given a life for is in the set, and the set's end is not before the claim's |
| `PresenceTyped` | types | with `CountInv`: budgets never go below zero |

Each is laid out as one lemma per group of actions, with lemmas for the steps
that disturb nothing, and a last temporal step.

The theorems cover every invariant and action property that a run shows to hold,
and the two refinements (`HistoryKept`, `LivesOnce`), and none has hypotheses but
the assumptions above. What the code does not keep is left out by the properties
themselves, by a history variable or an exception that each of them names.

Only model-checked: what is temporal under fairness (`LockFreed`,
`CachesConverge`, `StoredIsSeen`, `EditSyncs`, `TabsSettle`, `OrphansGo`,
`Settles`), which is beyond TLAPS, and the two violations. No module has a RECURSIVE operator.

## Findings

Two statements of the repository that the code does not keep; the runs give the
shortest behaviours.

- `lost_update`: the lock is meant to serialise writers
  (`api/documents/documents.service.ts:182`), but the row is read and merged
  before it is taken; the later commit overwrites the earlier.
- `rotated_access`: keys rotate (`docs/security/production-config.md:4`), and
  tokens are signed with the current one, but `AuthGuard`, the gateway and logout
  verify with `JWT_SECRET`; from the first rotation on, a sign-in hands out an
  access token nothing accepts.

## Divergences

What reading and modelling the code brought to light besides, each with the
place in the model that shows it. Properties make an exception for it where they
must, and say so.

Documents and relay

- The snapshot job rebuilds the content from what is left of the log and stores
  the result as the content (`api/jobs/document-jobs.service.ts:82`): what
  compaction has cut is gone from it. `JobWrite`; `RebuildMissesNothing` shows
  that nothing else is.
- `flushDoc` gives a batch up when its write throws, after the acknowledgement
  (`api/ws/ws.gateway.ts:585`), and two flushes of one instance are enough to
  make it throw. `AskLock` of the relay.
- The subscription of an instance follows the read of the state in a join
  (`ws.gateway.ts:248`); with two instances, what is published between is missed.
  `SendInit`, `Subscribe`, `unheard`. A failed read of the state sends no y-init and
  the join goes on (218-230): `behind`.
- A failed `SUBSCRIBE` is swallowed after the reference was counted (634), and no
  later join tries again: `deaf`.
- Between `LPUSH` and `LTRIM` (536-537) a queue is over its cap, and stays so if the
  second does not come: `overfull`.
- `lastseq` is read and written in two commands, per user and not per tab
  (`ws.gateway.ts:300`), while `wsSeq` starts at 0 with each page
  (`web/lib/yjsProvider.ts:42`): an update of a second tab or a reloaded page can
  be taken for an old one. `ReadSeq`, `WriteSeq`.
- The provider uses the socket from `connect` on, and the server refuses updates
  until the join has ended (`yjsProvider.ts:59`): `dropped` in `YProvider`.
- A `doc:leave` of a socket whose join has not ended, or never began, lowers the
  reference count (`ws.gateway.ts:267`) and may unsubscribe an instance others rely
  on: `robbed`. The web client never sends it. A lost connection lowers no count.
- Updates that come by REST are told to no socket (`documents.controller.ts:173`).
- A row that does not decompress counts as empty and is overwritten by the next
  write (`documents.service.ts:155`), and a log row that does not decompress
  leaves its update out of a rebuild: `Corrupt`, `Decoded`.

Accounts

- A new key is named after the number of keys kept
  (`api/security/jwt-keys.service.ts:60`): after the first prune a rotation reuses
  the current key's id and tokens signed with it stop verifying. `reused`.
- Every sign-in gives the whole list its own TTL (`api/auth/auth.service.ts:61`):
  open sessions drop off it. `dropped`. An erasure leaves `refresh:<jti>`.
- The comments of `auth.controller.ts` disagree about attempts (50: "5 attempts
  per 5 minutes", 57: per minute); the code counts per minute and address. A
  counter whose `EXPIRE` was not reached counts for ever
  (`api/redis/cache.service.ts:25`), so its later attempts lock the account again
  and again. `stuck`.
- A password is read and then compared while a reset may write another; a reset
  closes no session.

Documents, access and sharing

- A PATCH finds documents whatever their status and keeps `deletedAt`
  (`api/database/repositories/document.repo.ts:71`): a deleted document comes back
  past the limit, and maintenance may have listed it already. `restored`.
- `DocumentGuard` compares the owner with an id of another type
  (`api/documents/document.guard.ts:51`), so an owner who is no member is let in
  by the gateway and not by REST: `GuardsAgree` says so. `updateSnapshotMeta` asks
  for less than either and of fewer.
- `WorkspaceGuard` takes the workspace from the body before the query
  (`api/workspaces/workspace.guard.ts:29`), and lets a request that names none pass,
  while the listing uses the query (`api/documents/documents.controller.ts:48`): a
  request may be checked for one workspace and list another. `names`.
- `DocumentGuard` takes the document from route parameters: a share link's
  document comes in the body and is not checked. A link is honoured without
  looking its document up, and a guest's id is no user's.

Comments

- `PATCH` writes any field of the body (`api/comments/comments.controller.ts:165`),
  not only those `docs/editor/comments-api.md:13` lists: `Bodies`. An author can so
  set the number of reactions: `Sets`, `upset`.
- Archiving marks comments, and nothing reads the mark. Replies without a
  `threadId` appear in no listing and in every count. `escalate` sets a priority
  above the highest down to it (`api/comments/comments.controller.ts:238`).
- No write clears the cached listing (54), so the page that refreshes at once
  may show the state before: `Settles` holds once writing has ended. Answers
  arrive in any order. A draft is erased while its POST is under way
  (`web/components/CommentsSidebar.tsx:125`).

Presence

- A release of another's claim is refused and announced all the same
  (`ws.gateway.ts:476`). Claims never expire on a page
  (`web/components/EditorCollab.tsx:253`), and a list replaces what the page had
  (267). The `EXPIRE` of the set of claims is a command of its own
  (`ws.gateway.ts:454`) whose failure is swallowed, and a claim for longer than the
  next one's (or two minutes) outlives the set: `kept`. One tab's leave removes the user's record though another is open
  (`ws.gateway.ts:148`). The map of last presence times only grows (386).

Elsewhere: eviction of the memory cache follows a list of keys that `del` never
shortens (`api/common/memory-cache.service.ts:34`); the fallback job runner runs a
job again when only the counter after it failed (`api/jobs/job-queue.service.ts:78`);
requests in flight are counted down on `finish` only
(`api/common/rate-limit.middleware.ts:86`): `leaked`. The middleware runs before the
guards set `req.user` (`api/main.ts:58`), so its per-user limits and its bypass for
administrators never apply (rate-limit.middleware.ts:91, 101), and the count of
distinct paths counts requests, one per millisecond, with a TTL that each of them
renews (49).

## Left out

Within the modelled components: audit entries, metrics, status events, size and
format checks (a refused message is one the model may refuse), compression,
the TTL of the local cache, the captcha and the administrators' one-time codes (off by default), passwords and allowed domains of
share links, anchors, assignment and due dates of comments, positions of carets.
Message contents are sets of edits: formats and encodings play no role in the
properties.

Not modelled at all: the components with status `not_modelled` in
`PROJECT.json`, each with its reason. The other relayed messages (`doc:msg`,
`y-sync`) use the relay's fanout or the store's read and keep nothing; the web
pages render; search, metrics, notifications and feature flags keep no state that
the others read; field encryption is a pure conversion; migrations run alone.

## Plan

The parts that carry the program's state are modelled. What is left, in order:

1. Proofs: the types of `Accounts`, `Workspace` and `Comments` as theorems of
   their own (the invariants above contain them); lemmas that the liveness
   properties rest on, as far as they are safety: which step is due whenever the
   property has not come true yet.
2. The memory cache with several keys and eviction, refining a map with a bound,
   and the fallback job runner's retries: both are small and alone.
