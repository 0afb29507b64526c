# Verification of lotus_connect_system

TLA+ models of the server: the in-memory WebSocket hub, the life of a WebSocket
session with the presence it writes, the Postgres transactions of a live stream
and of a feed post, and the requests on rooms, conversations, calls, devices,
sessions, friendships, stories and co-hosts, statement by statement, with the
events that tell others of them. TLC checks them on small instances; TLAPS
proves every safety property of the passing runs for every instance. Paths below
are relative to the repository; "l." numbers are lines of the file under
discussion.

1. Inventory of the system
2. The modules and how they correspond to the code
3. What the runs check
4. What is proved
5. Where the code and its documents disagree
6. What is not modelled
7. Plan

## 1. Inventory

One process (axum on tokio) serves REST and WebSocket. Shared state is in three
places: the hub's maps in memory, Redis (presence) and Postgres. Every request
is a task of its own; tasks interleave at every `await`.

| Component | State | Operations | What is hard | What makes it correct |
|---|---|---|---|---|
| WebSocket hub, `gateway/src/ws/manager.rs` | four maps, each behind its own `RwLock`: connections of users, focused conversations, viewers of streams, streams of viewers | add/remove client, focus, join/leave room, leave all, send, broadcast | calls that hold one lock and wait for another, in two orders; a membership kept twice; senders collected before use | the two maps of rooms agree; a disconnect leaves every room; sends reach exactly the registered connections; nobody waits for ever |
| WebSocket session and presence, `gateway/src/ws/mod.rs`, `presence/src/lib.rs` | per socket: where it stands; Redis key with 60 s expiry; row `user_presence`; what friends were told | open, announce, sync, heartbeat, close, cleanup | several devices of one user; reconnect during cleanup; a read task that outlives its socket; read-then-write heartbeat; errors of either store | a user with no session is offline in the end; friends are told the truth |
| Live stream service, `livestream/src/lib.rs` | rows of the stream, its viewers, comments, reactions, gifts, co-hosts | create, start, end, join, leave, comment, pin, unpin, react, gift, co-host | counters computed in one statement and written in another; status checked before it is written; multi-row locks | no lost view; counters bounded by the audience; one pinned comment recorded alike in two places; an ended stream stays ended |
| Feed service, `feed/src/lib.rs` | posts, reactions, comments in two tiers, reactions to comments, pins, counters | create/edit/delete, like, comment, reply, pin, feeds with cursors | counters beside rows; parent checked before the insert; cascade deletes counted before they happen | counters equal the rows; replies have a thread; one pin |
| Chat, `chat/src/lib.rs` | conversations, members, groups, messages, reactions, receipts | create private/group, send, edit, delete, react, read, page | find-then-create without a key; several inserts without a transaction; events sent after the statement, one member at a time; ties in the order of pages | one private chat per pair; members are told what the rows hold |
| Calls and signalling, `call/src/lib.rs`, relayed by `ws/mod.rs` | calls, participants, events | start, join, leave, end, history | late join after end; errors that are ignored; frames of two sockets | rows of call and participants agree; a missed call is told, and no other |
| Auth, `auth/src/lib.rs`, `crates/auth` | refresh tokens with revoked flag | register, login, refresh, logout | check-then-revoke; store after revoke | a token is exchanged once; reuse revokes all |
| Users, `users/src/lib.rs` | users, friendships | register, request, accept, reject, remove, search | check-then-write in both directions of a pair | one row per pair; an accepted one is not rejected away |
| Notifications, `notification/src/lib.rs` | notifications, devices, cached FCM token | register, push, prune, list | delete-then-insert without a transaction; pruning by value after an answer; double-checked lock | a device token belongs to one user; a working device stays; one refresh at a time |
| Stories, `story/src/lib.rs` | stories, views, reactions, close friends | create, view, react, tray | expiry and visibility in queries | who views, reacts or answers was allowed to |
| Gateway handlers, router, middleware | none of their own | REST: call one service, then broadcast through the hub | database first, hub second, two tasks crossing | hub rooms match viewers' rows when nothing is in progress |
| Upload, shared types, configuration, errors, migrations | object store; schema | I/O and conversions | - | - |

How they interact: a handler calls a service (Postgres), then the hub (rooms,
broadcast). A socket's task calls the hub, the presence service and, when it
ends, the live stream service for every stream the hub says the user was in.
Services never call each other except auth -> users and several -> notification
(fire and forget). The hub never calls out.

`PROJECT.json` lists every hazard found in the code at its line, with the
property that covers it, or with the reason why none does.

## 2. The modules

An operator whose name begins with `Wrong` is not the code: it is the
definition after it with a plausible slip, kept to show that the property
beside it depends on that definition.

### WsManager, RoomDirectory

`WsManager` is `manager.rs` as a whole. A variable per map (`clients`,
`active_conversations`, `livestream_rooms`, `user_livestreams`; an empty set is
a missing entry), `inbox` for what has been put on the channel of each
connection, and `task`: where each tokio task stands inside a call. A call that
takes one lock and lets it go is one action. A call that waits for a second
lock while it holds the first is one action per lock:

| Code | Actions |
|---|---|
| `add_client` | `AddClient` |
| `remove_client` | `RemoveClient`, then `CleanupActive`, `CleanupLeaveAll`, `LeaveAllRooms` if it was the last connection |
| `set_active_conversation` | `SetActiveConversation` |
| `join_livestream_room` | `JoinRoom`, `JoinUserStreams` |
| `leave_livestream_room` | `LeaveRoom`, `LeaveUserStreams` |
| `leave_all_livestreams` | `LeaveAll`, `LeaveAllRooms` |
| `send_to_user`, `send_to_user_except`, `broadcast_to_users`, `broadcast_all` | `SendToUser`, `BroadcastToUsers`, then one `SendOne` per connection |
| `broadcast_to_livestream` | `BroadcastToLivestream`, `BroadcastSend`, `SendOne` |

The locks held follow from `task[t].at` (`HoldsRooms`, `HoldsUserStreams`,
`HoldsActive`, `ReadsClients`). Callers are the most general ones. `Drop` is the
future of an HTTP handler that axum drops because its client went away: a join
or a leave that waits for `user_livestreams` keeps what it has written of
`livestream_rooms`, and lets its locks go. `cut` (history) remembers the pairs
it leaves to differ until a call on the same pair gets to its end. The cleanup
of a socket runs in a task of its own and is not dropped. The content
of messages is a model value. A channel is the set of messages put on it, not
their order: no property is about order on one channel, which a tokio channel
keeps.

`RoomDirectory` is what the hub promises about rooms: one relation between
users and streams, changed in one step by every call, and the pairs whose last
change was broken off (`stray`), which a disconnect may miss. The refinement
mapping reads the relation from `livestream_rooms`, which is therefore where
each call takes effect, and `stray` from `cut`.

### WsSession

`handle_socket` with the read task it spawns, the two stores of the presence
service, and what each connection was last told about each friend. One action
per call on the hub, on Redis or on Postgres: what other tasks do in between is
exactly what an `await` allows. `Fails` is an error of a store, which the code
logs and survives; `Detachable` sessions are those whose outbound side may end
first, after which the read task goes on by itself (`select!` does not abort
it); `Expire` is the 60-second expiry. The hub's calls are atomic here;
`WsManager` shows what they are made of.

### LiveStream

The rows of one stream: `status`, the counters, viewers and which of them are
active, comments and both records of the pinned one, and `tx`, the transaction
of each task. One action per SQL statement, one per row where a statement locks
several (`LockRow`), the read that is not a lock (`Count`), the update of the
stream's row (`UpdateStream`), commit and rollback at any point. This is
READ COMMITTED as Postgres gives it to the service: statements see what is
committed, updates wait for the row and go on from its latest version.
`joins` counts committed joins and stands for no code: `ViewsCounted` compares
it with `total_views`. `Pin` takes any id: nothing in `pin_comment` asks
whether there is such a comment of the stream, and `pinned_comment_id` has no
foreign key.

### FeedPost, PostThreads

The rows of one post in the same style: `reactions` and `like_count`;
`comments`, `parent`, `reply_count` and `comment_count`; `pinned`; `gone`, the
ids of deleted comments, which are UUIDs and never come back. `InsertReaction`
waits for another transaction on the same (post, user) and fails on the unique
key; `InsertComment` takes the key-share lock of its parent through the foreign
key; a delete counts (`CountThread`), then locks the comment and its replies
one by one (`LockComment`), then updates the post and the parent. A delete that
finds its comment gone goes on, as the code does, and decrements anyway.

`PostThreads` is what the feed promises of comments: a forest of two tiers in
which a comment appears at the top or under a comment at the top, and a delete
takes a comment with all its replies and nothing else, each in one step. The
mapping is the identity: a request takes effect at its commit. The counters are
not part of it, because they are not exact (section 5).

| Code | Actions |
|---|---|
| `add_or_update_reaction` | `Like`, `InsertReaction`, `UpdatePost`, `CommitLike` |
| `remove_reaction` | `Unlike`, `DeleteReaction`, `UpdatePost`, `CommitUnlike` |
| `add_comment`, `create_comment` | `Comment`, `InsertComment`, `UpdatePost`, `UpdateLast`, `CommitComment` |
| `delete_comment` | `Delete`, `CountThread`, `LockComment`, `UpdatePost`, `UpdateLast`, `CommitDelete` |
| `pin_comment`, `unpin_comment` | `Pin`, `LockComment`, `UpdateLast`, `CommitPin`; `Unpin` |

### Service and the modules on top of it

The services are all built alike: a request looks something up, decides, and
writes, one statement after the other and mostly without a transaction; then
the handler tells somebody. `Service` has what they share: users, tasks (the
requests that may be in progress at once) and `None`. In each of the modules

* one variable says where each task stands (`job`, `frame`, `wire`, `request`,
  `errand`, `visit`, `desk`, `work`); one action is one statement, one commit or
  one event, because other tasks run at every `await` in between;
* an early return of the code is a disabled action (nothing was written yet) or
  an action that ends the task (something was);
* a `Drop...` action is a handler whose client goes away (axum drops its
  future), or whose next statement fails: what was written stays, the rest does
  not happen. Tasks that are spawned are not dropped;
* variables under "History" stand for no code. They remember what a property is
  about (`friends`, `exchanged`, `kept`, `permitted`) or whose requests
  overlapped or were dropped (`doubled`, `twice`, `shared`, `crossed`,
  `muddled`, `disturbed`...). The code does go wrong for some of the latter: a
  property that excludes them says that nothing else can go wrong.

| Module | Code | Statements and events |
|---|---|---|
| `LiveRoom` | live stream handlers, frames `livestream:join/leave`, cleanup of `handle_socket` | `JoinRow`, `EnterRoom`; `LeaveRow`, `QuitRoom`; `CutShort`; `Connect`, `Close`, `LeaveRows`, `Remove`; `Start`, `StartWrite`; `End`, `TellRoom`, `TellAll` |
| `Chat` | `chat/src/lib.rs`, its handlers and frames | `FindPrivate`, `CreatePrivate`, `CreateGroup`, `GroupRow`, `AddMember`; `Send`, `Edit`, `DeleteFind`, `DeleteRow`, `ListMembers`, `Tell`, `Alert`, `RingUser`, `Alerted`; `Focus`, `Blur`; `MarkFind`, `MarkRow` |
| `Calls` | `call/src/lib.rs`, frames `call:*` | `Invite`, `HostRow`, `Ring`, `Ack`; `Accept`, `Activate`, `Accepted`, `AcceptFails`; `HangUp`, `Look`, `AlertMissed`, `LeaveCall`, `EndCall`, `Ended`; `SkipRest` |
| `Devices` | `notification/src/lib.rs`, the device of `login` | `Evict`, `InsertDevice`, `LoginDevice`, `Unregister`; `Record`, `Resolve`, `SpawnPush`; `ReadToken`, `LockToken`, `Fetched`, `FetchFailed`; `Post`, `Prune`; reading and deleting notifications |
| `PostComment` | a comment, the reactions to it and its edits in `feed/src/lib.rs`, their handlers | `AddComment`, `FindComment`, `InsertLike`, `DeleteLike`, `CountLikes`, `UpdateComment`, `CommitComment`, `TellPostAuthor`, `RemoveComment` |
| `AuthTokens` | `auth/src/lib.rs`, `crates/auth` | `Login`, `Refresh`, `RevokeOld`, `CreateToken`, `AnswerTokens`, `RevokeAll`, `Logout` |
| `Friends` | `users/src/lib.rs` | `AskFriend`, `InsertRequest`; `FindPending`, `AcceptRows`, `RejectRows`; `FindFriend`, `RemoveRows` |
| `Story` | `story/src/lib.rs`, its handlers | `CreateStory`, `Expire`, `DeleteStory`; `FindStory`, `Permit`, `RecordView`, `InsertReaction`, `SendReply`, `LookAgain`, `TellAuthor`, `TellReply`; `AddClose`, `RemoveClose` |
| `LiveHost` | `update_stream` and the co-hosts in `livestream/src/lib.rs`, their handlers | `ReadSettings`, `WriteSettings`; `RequestCohost`, `TellHost`; `Respond`, `LeaveCohost`, `TellRoom`, `TellCandidate` |

`LiveRoom` composes what three other modules take apart: a transaction of
`LiveStream` is one step in it, a call on the hub of `WsManager` is one, and
the cleanup is the part of `handle_socket` that `WsSession` leaves out. Of the
hub it keeps both maps (`room`, `listed`), because `CutShort` drops a handler
between them, and a cleanup walks the one while a broadcast reads the other. A
cleanup whose `leave_stream` fails goes on with the row still active. `disturbed`
has the users of whom a request or a cleanup overlapped another, was dropped or
failed, and who have not run a request alone since: one that does writes both
stores anew. `owed` has the viewers who were in the rows when an end was
committed, have not left since and have not been told.

Errors that the code passes over are steps of their own: the row of an alert
that cannot be written (`Alert`), the view of who reacts (`RecordView`), the
frames of calls (`SkipRest`). An event that a handler leaves to a spawned task
comes later than the commit, or not at all: `AddComment` commits, and
`TellPostAuthor` tells. A token
of `AuthTokens` is its user and the second it was signed in, which is what the
signed claims depend on: two of one second are equal. In `Devices`, Firebase is
external: it knows which tokens of devices are registered and which payloads it
does not take (`oversized`: a payload has the whole text of a message), and
answers or not; an uninstalled app never gets its token back. The code takes
its answer to such a payload for a dead token, and prunes the row.

The MC modules give the constants values and name the symmetries.

## 3. The runs

Deadlock is not checked in any of them: a server that nobody calls may stop,
and what can block is stated as a property instead.

**MCWsManager** - two users (one with two devices, so that one connection can
go while the other stays; the other joins and leaves by HTTP, without a socket),
two streams, two tasks. Two tasks are enough for any inversion of two locks, two
streams for a disconnect that has several rooms to empty. There is no
conversation to focus: `active_conversations` only counts here as the lock that
`remove_client` holds around the others, and which one was in focus changes
nothing. Shows: the two indexes of rooms agree on every pair that no call is in
the middle of writing and none was dropped in the middle of (`IndexesAgree`); a
send writes only to registered connections and misses none (`SendingIsCurrent`);
when `leave_all_livestreams` returns, its user is in no room but those a dropped
join left him in (`LeaveAllClears`); one inverted pair of locks
is the only way to wait for ever (`OnlyInversionBlocks`); the hub implements
`RoomDirectory` (`RefinesRoomDirectory`). Streams and tasks are symmetric.

**MCWsManagerDisconnect** - violation, section 5.

**MCWsSession** - two friends, one of them with two devices of which one may
detach, stores that may fail for the other. Three sessions give every overlap
of two devices of one user and a friend who watches. Shows: when every session
of a user is through, the row does not say online (`GoneIsOffline`), and a user
who stays gone is offline for every reader in the end (`GoneFadesOut`).
Fairness: a task that can go on does, which tokio gives; no socket has to fail
(`Close` is fair only after the read task has ended); a read task whose socket
is closed comes to its end, strongly fair because heartbeats may be queued
before the end, but finitely many; a key that nobody has left to write expires.
Nothing else is assumed.

**MCWsSessionFriends** - violation, section 5.

**MCLiveStream** - three users, two comments (one older than every pin), two
transactions at once, at most three joins (`MaxJoins`, in the guard of `Join`:
it bounds `total_views`, which only grows). Shows: `ViewsCounted`,
`CountsWithinAudience`, `PinsAgree`, and that only two statements that both
lock several rows can wait for each other (`WaitsResolve`).

**MCLiveStreamEnd** - violation, section 5.

**MCFeedPost** - two users, three comments (a thread of two and another, or a
thread of three), two transactions at once; no other bound, as ids run out.
Shows: `LikesExact`, `RepliesExist`, that without a delete and with one pin at a
time no circle of waits exists (`OnlyDeletesBlock`), and that the transactions
implement `PostThreads` (`RefinesPostThreads`), from which `TwoTiers` follows.

**MCFeedPostPin**, **MCFeedPostCount** - violations, section 5.

**MCLiveRoom** - a host, a guest with two sockets, which open and close again,
two requests at once; no other bound. Two sockets are what makes the cleanup of
one disturb the other, two requests what makes a join cross a leave, an end or a
start. Shows: rows and room agree (`RoomsAgree`), a user without a socket leaves
nothing behind (`GoneIsNotWatching`), both for users whose last request ran
alone and to its end and whose cleanups since did, whatever overlaps, drops and
failures came before; and the broadcast of an end to the room reaches whoever
had a row when it was committed and has not left, so that the stores agree
where it matters and the broadcast to all, which may be dropped, is not needed
for it (`ViewersAreTold`).

**MCMessaging** - `Chat`, `Calls`, `Devices` and `PostComment`. Two users, two
tasks, two conversations, one message with two texts and at most three requests
on chats (`MaxRequests`: a request is what makes the instance grow, and three
are a create, a send and an edit, or two that overlap and one after them), one
call, two devices, one notification, two versions of a comment. Devices are
interchangeable too. Shows: one
private conversation per pair (`OneChatPerPair`); what a user was told last of
a message is what the row holds (`ToldIsTrue`), and who got it without ever
having looked at its conversation got the event that alerts him
(`UnseenIsAlerted`; the row of the alert may be missing); a missed call is told, and no other (`MissedIsAlerted`); the rows of a call agree
(`CallRowsAgree`); a device has one owner (`OneOwner`), a working one stays
unless a payload for it is refused (`WorkingStay`), and only who has to fetches an access token
(`NoNeedlessFetch`); a wrong number of likes, or an event that came late or never, is mended by the
next request that runs alone (`CommentSettles`).

**MCPeople** - `AuthTokens`, `Friends`, `Story` and `LiveHost`. Two tasks; one
account, three seconds (`MaxSecond`) and tokens that live for one (`Lifetime`),
so that a token can expire before and after its exchange; two users and one
story; two fields with two values, one candidate. Shows: a token is exchanged
once, for a later one (`ExchangedOnce`), and a reuse ends the sessions for good
(`ReuseEndsAll`); one row per pair (`OneRowPerPair`) and friends who stay
(`FriendsStay`); views, reactions and answers come from users who were allowed,
and a reaction is counted as a view unless that write failed
(`AudienceIsRight`); an update of the settings loses no other (`EditsKept`);
host, room and candidate agree about a co-host (`CohostsAgree`).

The last two runs hold several modules each and explore one at a time: `part`
says which, and the variables of the others keep their initial values. No step
of one of these modules reads or writes a table that another one writes, so
every reachable state of their free interleaving projects, module by module,
to states these runs reach, and each property speaks of one module only. (The
friendships that `Story` reads are a variable of its own there, free to change
at any time, which includes all that `Friends` can do to them; the message that
answers a story and the notifications of chats and calls are kept where they
arise.) Symmetry: users
and tasks are interchangeable.

Two transactions or tasks are enough for the races of these modules: each read
that can be stale is made stale by one other commit. Waits of three
transactions in a circle are beyond the runs; the theorems exclude them.

Each property of a passing run fails with some mutant of the code it depends
on (`mutants` in `PROJECT.json`): locks let go early, a test dropped, a stale
read in place of the latest version, a guard that trusts an earlier read.

## 4. The proofs

`<Module>_proofs` is about `<Module>`, for `WsManager`, `WsSession`,
`LiveStream`, `FeedPost`, `LiveRoom` and `Calls`; `Messaging_proofs` is about
`Chat`, `Devices`, `PostComment` and the composition `MCMessaging`,
`People_proofs` about `AuthTokens`, `Friends`, `Story`, `LiveHost` and the
composition `MCPeople`.

Every invariant and the two refinements of the passing runs are stated by a
theorem. Numbers of users, connections, streams, posts' comments, conversations,
messages, calls, devices, tokens, stories, requests and tasks are arbitrary.

Assumptions are those of the modules on their constants
(`ManagerAssumption`, `SessionAssumption`, `StreamAssumption`,
`PostAssumption`, `RoomAssumption`, `ServiceAssumption`, `ChatAssumption`,
`CallAssumption`, `DeviceAssumption`, `CommentAssumption`, `AuthAssumption`,
`StoryAssumption`, `HostAssumption`): who owns what, that names do not coincide
(no text of a message is one of the marks "none" and "gone", `None` is no user),
that a setting has some value, and finiteness where rows are counted.

Each module has an inductive invariant (`IInv`, `RoomInv`, `CallInv`, `ChatInv`,
`DeviceInv`, `CommentInv`, `AuthInv`, `FriendInv`, `StoryInv`, `HostInv`), and
each proof shows that the initial states have it, that every action keeps it (one
lemma per action, or per group of actions that touch the same rows), and that
the theorems follow. Those of the services are conjunctions over one call, one
message or one user each, with a lemma that a step about another one leaves it
as it is.

* **Hub.** `IndexesAgree` is not inductive: the second half of a join must
  still find what the first half wrote. `HeldIndexes` says so (what a call wrote
  under its first lock stands while it keeps it), and that needs
  `LocksExclusive`. A dropped call takes its pairs out of the agreement, and the
  next call that gets to its end on them puts them back: the refinement says the
  same of `stray`. Theorems: `TypeCorrect`, `IndexAgreement`,
  `SendsAreCurrent`, `LeaveAllIsComplete`, `OnlyDeadlock`, and
  `Implementation`: the hub refines `RoomDirectory`.
* **Sessions.** `GoneIsOffline` needs to know who is responsible while a
  session closes: `HubAgrees` (the hub knows exactly the sessions between
  registration and removal) and `LastWritesOffline` (an online row of a user
  without connections has a session on its way to correct it). Theorems:
  `TypeCorrect`, `OfflineWhenGone`.
* **Live stream.** One transaction at a time has the stream's row
  (`StreamExclusive`), so what it read of it is current when it commits, and
  what it counted is bounded by the viewers, who only grow (`Consistent`).
  Theorems: `TypeCorrect`, `NoLostView`, `AudienceBound`, `PinAgreement`. For
  `WaitsDoResolve` a second invariant, `RowsFirst`: a join or leave waits for its
  one row with nothing in its hands. So if nobody commits and everybody waits,
  the one statement with several rows to lock finds them free.
* **Post.** Writers exclude each other and a shared key is not deleted
  (`Exclusive`); what a transaction read of rows it holds is current, and a
  delete that has its comment has, or is about to lock, every reply to it
  (`Consistent`). From the last and the shared key of the parent follows that
  no reply loses its thread. Theorems: `TypeCorrect`, `LikesAreExact`,
  `ThreadsTwoTiered`, and `ThreadsAreAtomic`: the transactions refine
  `PostThreads`; the step that takes work is the commit of a delete, which holds
  its comment and exactly the replies it has then, or nothing. Two more
  invariants on top of `IInv`: `RepliesCounted` says of deleted comments nothing,
  of those to come that nothing is counted for them (`RepliesDoExist`);
  `RowsInOrder` is the order in which reactions, comments and pins lock rows,
  and the transaction that is furthest in it goes on (`OnlyDeletesDoBlock`).
* **Rooms.** User by user (`UserInv`): of a user who is not disturbed at most
  one request or cleanup is between its two stores (`Alone`), and the first
  store already holds what the second needs (`Halfway`): a join that has not
  entered the room has its row, unless the stream ended, and an open socket; a
  cleanup that has not come to the rows has emptied the room. `OtherUser`
  handles every step of somebody else, and of the host. Who is owed the end of
  the stream is in the room, or about to be told (`OwedInv`). Theorems:
  `StoresAgree`, `NothingLeftBehind`, `EndReachesViewers`.
* **Calls.** Call by call (`AboutCall`): nobody has heard of a call before it has
  the row of its caller (`Placed`), an accept that is still to be written meets
  no end, or is late (`Crossing`), who left did so because somebody hung up
  (`Hung`), and a frame that is past its look at the status knows whether the
  other one is to be alerted (`Alerts`). Theorems: `CallInvariance`,
  `CallTypesHold`, `MissedCallsAreAlerted`, `RowsOfACallAgree`, and the action
  property `EndsAreFinal`: only a late accept revives a call that ended.
* **Chats.** A conversation is filled by the one request that created it, before
  anybody is told of it; a message that no two requests write at a time is told
  of by one task, which still has to tell those it has not told yet; whoever was
  told of it hears what that task wrote. Theorems: `ChatInvariance`,
  `ChatTypesHold`, `OnePrivateChat`, `ToldRemainsTrue`, `UnseenAreAlerted`.
* **Devices.** What a task relies on between two statements: a registration
  that met no other that nobody else has a row of its device (`Owns`,
  `RegistersAlone`), a prune that its token is dead or its payload was refused
  (`PrunesDead`), a fetch that it has the lock. Theorems: `DeviceInvariance`,
  `OwnedByOne`, `WorkingRemain`, `FetchedOnce`.
* **Reactions to a comment.** Who holds the comment's row is about to commit what
  it has counted, and one that is alone since it began counted all there is.
  Theorems: `CommentInvariance`, `CommentTypesHold`, `CommentDoesSettle`.
* **Tokens.** A revoked token stays revoked (`RowsKept`), no token is of a
  second to come (`NoneAhead`), and while one is being exchanged nobody else
  exchanges it, or `twice` knows (`OneExchanges`, `NotYetExchanged`). Theorems:
  `TokenInvariance`, `OneSuccessor`, `ReuseIsFinal`.
* **Friends.** An ask that nobody doubled still finds no row (`AskFindsNone`),
  a rejection that nobody upset no friendship (`RejectsStrangers`). Theorems:
  `FriendInvariance`, `OneRow`, `FriendsRemain`.
* **Stories.** A request that is past its permission was permitted, whatever has
  become of the friendship since, and what it has written is what it still has
  to tell. Theorems: `StoryInvariance`, `StoryTypesHold`, `AudienceHolds`.
* **Host.** An update that overlapped no other has in its copy what the row still
  holds; an answer to a co-host who is not muddled has told the room, and not
  yet the candidate, what the row says. Theorems: `HostInvariance`,
  `HostTypesHold`, `EditsAreKept`, `CohostsDoAgree`.
* **The compositions.** `MessagingInvariance` and `PeopleInvariance`: the
  invariants of the parts hold beside one another; with them `MessagingTypesHold`
  and `PeopleTypesHold`.

Only model-checked: `GoneFadesOut` (liveness and ENABLED are beyond the
prover), and the violations of section 5, which are counterexamples. No module
with proofs uses a RECURSIVE operator, and nothing proved needs induction over
data.

## 5. Where the code and its documents disagree

| Run | Statement | What happens |
|---|---|---|
| MCWsManagerDisconnect, `DisconnectLeavesRooms` | manager.rs l.152, "Leave all livestream rooms for a user upon disconnect" | `leave_all_livestreams` holds `user_livestreams` and waits for `livestream_rooms`; join and leave hold them the other way round. A disconnect that meets one of them waits for ever. Checked under `FairSpec`: every task whose lock becomes free again and again is served, which is tokio's queue. |
| MCWsSessionFriends, `FriendsToldRight` | ws/mod.rs l.68, "Sync statuses of currently online friends" | A friend who disconnects between `is_connected` (l.70) and the event (l.71) is shown online until his next connection. |
| MCLiveStreamEnd, `EndedIsFinal` | livestream l.295, "Cannot restart an ended live stream" | The status is checked in one statement and written in another without a condition: an end in between is undone. |
| MCFeedPostPin, `AtMostOnePinned` | guide l.784, "Post authors can pin up to 1 top-level comment" | Two pins while nothing is pinned lock no common row; both stay. |
| MCFeedPostCount, `CommentsCounted` | guide l.722, "atomically decrements both `comment_count` and parent `reply_count`" | The thread is counted before it is locked: a reply in between, or a second delete, leaves `comment_count` wrong for good. |

## 6. What is not modelled

* Queries: feeds, pages of messages and comments with their cursors, the tray
  and the archive of stories, lists of conversations, calls, friends and
  notifications. They write nothing; that a page of messages is cut at
  (created_at, id) and ordered by created_at alone is in the list of hazards.
* Single statements that nothing else here depends on: creation and profile of
  users, reactions and gifts of a live stream, visibility and deletion of a
  post (which takes every row of `FeedPost` with it), `remove_member`, which
  has no caller.
* Events that are relayed without state: typing, offers, answers and
  candidates; broadcasts of posts and stories to all friends. `log_event` of the
  calls has no caller.
* The conversation and the message of an answer to a story are one step in
  `Story`; their statements are those of `Chat`.
* A crash of the server: nothing in memory survives and no cleanup runs, so
  that rows of presence and viewers stay; the code has no recovery to model.
* Serialization, wording (the preview that is cut at a byte is in the list of
  hazards), logging, HTTP, routes and middleware, SQL planning, passwords and
  signatures. Upload, types, configuration and conversion keep no state.
* Liveness of requests: nothing waits in these modules but for the locks of
  Postgres and the hub, where waiting is what `WaitsResolve`,
  `OnlyDeletesBlock` and `OnlyInversionBlocks` are about.

## 7. Plan

Done: the modules of section 2, their runs, and the proofs of section 4. Next,
in this order:

1. `LiveRoom` as an implementation of one relation between users and streams,
   for the users whose requests do not overlap, and the same for the
   friendships of `Friends`.
2. `GoneFadesOut` without the liveness: the invariant that says who still has to
   write a presence that is wrong.
3. The cursors of pages as pure functions against a reference order.
