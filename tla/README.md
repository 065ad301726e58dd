# tsg-lazer: a formal model

tsg-lazer is a private server for the osu!lazer client: a FastAPI application
with SignalR hubs over WebSockets, a MySQL database behind SQLAlchemy sessions,
and Redis for the hubs' shared state. These modules model the parts of it whose
correctness depends on how concurrent handlers interleave, check them with TLC on
small instances, and prove the main results with TLAPS for every instance.

All paths below are relative to `src/app/` unless they begin with `src/`.

## 1. Inventory

### How the program runs

One process, one asyncio event loop. A coroutine runs without interruption from
one `await` to the next, so the unit of interleaving inside the process is the
code between two awaits. Two stores are shared beyond that:

* Redis: each command is atomic, a service method of several commands is not.
* MySQL: each HTTP request has one session (`core/database.py:35-43`), committed
  after the handler has returned and rolled back on any exception. The engine is
  created with no isolation level, so it is InnoDB's default, REPEATABLE READ:
  plain reads see the database as of the transaction's first read.

### Components

| component | state | operations | what makes it correct |
|---|---|---|---|
| Spectator hub, `api/hubs/spectator.py` | `connections`, `user_connections` (memory); play state per connection | accept, handshake, five hub methods, the `finally` block | registries and connections agree; what a disconnect removes is removed, whatever overlaps it |
| Hub state, `services/hub_state.py` | Redis: `hub:presence:`, `hub:playing:`, `hub:watching:`, `hub:watchers:`, presence watchers | set/remove playing, add/remove/clear watches, presence | the two halves of the watch index agree; every key expires |
| SignalR base, `api/hubs/base.py` | none | handshake, message loop, keepalive | one message at a time; idle is not an error |
| Metadata hub, `api/hubs/metadata.py` | registries, presence | presence updates, broadcasts, `finally` | online while connected; a presence outlives its connection only by a failure, and then not for long |
| Multiplayer hub, `api/hubs/multiplayer.py` | none (stub) | - | - |
| Score submission, `api/v2/scores.py`, `api/v2/beatmaps.py` | tokens, scores, beatmap counters | `create_score_token`, `submit_score` | a token is good for one score; counters count scores |
| Statistics, `usecases/stats.py` | statistics rows, rank history | `update_user_statistics` | statistics are those of the user's scores |
| Database session, `core/database.py` | transaction | commit or rollback | all or nothing |
| Rooms, `api/v2/rooms.py` | `multiplayer_rooms` | create, join, leave | capacity; closes when empty and stays closed |
| Friends and blocks, `api/v2/friends.py`, `blocks.py` | `user_relations` | add, remove | one relation per pair, limits |
| Beatmap service, `services/beatmaps.py` | class-level API token, beatmap tables | lookup, search, caching | a set is cached whole or not at all; what is answered is what is stored; a stale token is renewed |
| `.osu` files, `usecases/osu_files.py` | files | download | a file is whole when it is read |
| Password reset, `api/v2/password_reset.py` | `password_resets` | generate, verify, confirm | a code works once |
| Administration, `api/v2/admin.py` | privileges, restrictions | update a user | an administrator remains |
| Accounts, `api/v2/register.py`, `oauth.py`, `core/security.py` | users, signed tokens | register, sign in, refresh | unique names; a restricted user has no access |
| Profile, `api/v2/me.py`, `users.py`, `core/bbcode.py` | user row, image files | update, upload | a rejected upload changes nothing |
| Wire protocol, `protocol/*` | none | varint framing, (de)serialization | decode inverts encode; a message is split where it was joined; arrays and dictionaries read alike |
| Rankings, notifications, chat, tags, server | none, or stubs | queries | ordering |

Interactions: `submit_score` calls `BeatmapService`, `ensure_osu_file`, the pp
library, `update_user_statistics` and, through `send_user_score_processed`, the
spectator hub's registries. Both hubs use one `HubStateService`. Every HTTP handler
goes through `get_current_user` (`api/deps.py`), whose user lookup is the first
read of its transaction and so fixes its snapshot.

The hard behaviours are listed with their lines in `PROJECT.json` under
`hazards`: awaits between the commands of one logical update, cleanup that can
itself fail, values computed from a transaction's snapshot, checks made without a
lock, announcements made before a commit.

## 2. How the project is built

One module per component, of the size at which TLC can exhaust it, and a module of
proofs beside it:

| component | module | instance | proofs |
|---|---|---|---|
| spectator hub over Redis | `HubState`, `SpectatorHub` | `MCSpectatorHub` | `SpectatorHubProofs` |
| metadata hub, presence, message loop | `MetadataHub`, over the abstract `PresenceLease` | `MCMetadataHub` | `MetadataHubProofs` |
| score submission on MySQL | `ScoreSubmission` | `MCScoreSubmission` | `ScoreSubmissionProofs` |
| multiplayer rooms | `Rooms`, over the abstract `RoomLifecycle` | `MCRooms` | `RoomsProofs` |
| friends, blocks, administration, resets, registration, profile | `Accounts` | `MCAccounts` | `AccountsProofs` |
| beatmaps, official API, `.osu` files | `BeatmapCache` | `MCBeatmapCache` | `BeatmapCacheProofs` |
| hub protocol | `Frames`, `WireModels`, composed by `Wire` | `MCWire` | `FramesProofs`, `WireProofs` |

What could follow: the leaderboard's best score per user and the weighting of pp as
folds over bounded inputs, against a reference definition; the maintenance script
running beside live submissions.

## 3. The modules

### HubState and SpectatorHub

`HubState` is the Redis state, one action per command. A key's value is the set of
ids in it, `{}` an absent key. A TTL is reduced to whether the key has one
(`eternal` holds the keys that have none), and a key that has one may lapse at any
time. `SADD` creates a key without a TTL, `EXPIRE` gives it one.

`SpectatorHub` has a program counter `pc[c]` per connection, naming the await its
coroutine is suspended at; an action runs it to the next await, the awaited command
taking effect in the step that leaves it. So `add_watcher` is the four labels
`addWatching`, `ttlWatching`, `addWatchers`, `ttlWatchers`, and the `finally` block
is `finPlaying` to `finPop`.

| code | model |
|---|---|
| `connections`, `user_connections` (`spectator.py:44-45`) | `connections`, `userConnections` |
| `conn.is_playing` | `isPlaying` |
| the argument of the running call, or the set `clear_user_watches` iterates over | `targets` |
| registration before the handshake (`:120-121`) | `Accept` |
| `handle_message` (`:143-220`) | `ClientCall`, then `HandlerStep` |
| `finally` (`:229-245`) | `CleanupStep` |
| a Redis command that raises | `RedisError`: from a handler into `finally`, from `finally` out of the coroutine, with the pops not done |
| process death | `Crash` |

Every connection is registered under user id 2 (`:118`, a TODO in the code); the
module leaves the assignment a constant `UserOf`, and the checked instance uses the
one user the code has. Three history variables record what the properties have to
make allowance for, each as narrowly as the code permits:

* `unremoved`: connections whose `remove_playing` failed, or which a crash ended
  before it;
* `unexpired`: keys whose `EXPIRE` failed or was not reached in a crash;
* `disturbed`: users whose index is no longer exact, because a second connection was
  open at once, a key lapsed, an SREM or the cleanup failed, or the server crashed.
  The run `SpectatorIndex` shows why `IndexAgrees` is about the others. An error
  between the halves of `add_watcher` does *not* disturb: the `finally` block makes
  up for it, and that is what the property checks.

Left out: the contents of frames and notifications; `conn.watching_users`, which is
restored on reconnecting but read by nothing. Note that the `finally` block always
clears the user's watches, so what is restored is only what a crash or a failed
cleanup left. The docstring says otherwise (`spectator.py:104-106`), and so does
`hub_state.py:11`; the run `SurvivesDisconnect` shows the disagreement, and
`PlayingBacked` states what the code does.

### ScoreSubmission

`submit_score` as one transaction per request. `snap[r]` is the database as
request `r` reads it; `locks[r]` the row locks it holds; `Written(db, r)` what its
commit makes of the committed database `db`. InnoDB is modelled where the handler
relies on it: an `INSERT` into `scores` share-locks the beatmap row through its
foreign key, the `UPDATE` of `play_count` needs it exclusively, so two submissions
to a beatmap which have both inserted deadlock and one is rolled back
(`DeadlockVictim`).

| code | model |
|---|---|
| `create_score_token` | `CreateToken` |
| user lookup, first read | `Authenticate` |
| `SELECT` of the unused token, 404 | `LookupToken` |
| `db.add(score)`, flush (`scores.py:319-320`) | `InsertScore` |
| token and counters, flush (`:323-330`) | `UpdateBeatmap` |
| `update_user_statistics`, first flush | `UpdateStatistics`, `SkipStatistics` when `GameMode()` raises |
| today's rank snapshot, flush | `RecordRank`, with the duplicate key of two first submissions of a day |
| `send_user_score_processed` | `NotifyProcessed` |
| `get_db` | `Commit`, `Rollback` |
| any other exception, process death | `Fail` |

A score is named by the request that inserts it; a statistics row is the set of
scores its `play_count` counts. A beatmap's row does not start at zero: it is cached
with the play count osu! has (`services/beatmaps.py:821`, `:889`), which is the
constant `UpstreamPlays`. `overlapped` is a history variable: the tokens,
beatmaps and users two open requests had in common. Left out: pp and the other
statistics columns, which are functions of the same scores, and the ranks.

### RoomLifecycle and Rooms

`RoomLifecycle` is what a room promises: created with its host in it, between one
and `Limit` participants while open, closed once by the last to leave, never
reopened. `max_participants` is any integer, as nothing validates it
(`schemas.py:278`): the host is in a room of capacity zero or less all the same, and
nobody else gets in, so `Limit` is one there and the capacity elsewhere. `Rooms` is the code: each request reads the room at the start of its
transaction, computes a new `participant_count` from that and writes the changed
columns over the row's latest version. `FollowsLifecycle` says that it implements
`RoomLifecycle` (same variable names, so `INSTANCE RoomLifecycle` needs no
substitution). The code keeps no list of who is in a room (the TODOs at
`rooms.py:290` and `:321`), so any number of leaves may come, and the model lets
them.

The response of create and join looks up the playlist's beatmaps "from mirror if
needed" (`rooms.py:58`), and that path of `get_beatmap` would commit in
mid-request. It is never taken: a playlist item's foreign key means that its beatmap
is in the database. So it is not in the model.

### MetadataHub and PresenceLease

The hub of `api/hubs/metadata.py` on the message loop of `base.py`, with the presence
half of `hub_state.py`. As in `SpectatorHub`, `pc[c]` names the await.

| code | model |
|---|---|
| `hub:presence:{u}`, SETEX, EXPIRE, DEL | `presence`, `ttl`: `SetsPresence`, `Expires`, `FinPresence` |
| `hub:presence_watchers`, which has no TTL | `watchers`: `AddsWatcher`, `RemsWatcher`, `FinWatcher` |
| `conn.activity`, `conn.status`, `conn.watching_presence` | `own`, `watching` |
| `handle_message`, one message at a time | `UpdateActivity`, `UpdateStatus`, `BeginWatchingUserPresence`, `EndWatchingUserPresence`, `Chatter`, `Ping` |
| the 30 s receive timeout and `on_ping` (`base.py:185`) | `TimesOut` |
| `_broadcast_presence_update` | `ReadsWatchers`, then `Notifies` for each watcher |

Time is real here, in units of the receive timeout. `Tick` ends a unit; it waits
until no coroutine is in a Redis command and every connection that had already
waited in the loop has timed out or heard something. A presence lives `Ttl` units
from the last SETEX or EXPIRE (ten in the code: 5 minutes). This is what lets
`PresenceKept` say when pings are enough: a client that sends messages which are
neither pings nor updates faster than every 30 seconds never lets the timeout
expire, so nothing refreshes its presence; `quiet` marks such a connection and
`neglected` a user whose presence went that way. EXPIRE does not bring a lapsed key
back and the code does not look at what it returns, so the user stays offline until
the next update of status or activity.

`PresenceLease` is what the store promises whatever the hub does: a presence is a
record under a lease of at most `Ttl` units. A live connection of its user has to
`Ask` before it can `Write`, and a request that is answered or fails is gone; a
`Renew` changes no record and needs one, so that a record which has lapsed comes back
with a new request and never with a renewal; time ends the rest. `MetadataHub`
implements it under

    Lease == INSTANCE PresenceLease WITH
        Owners <- Users, Values <- Presences, served <- Served,
        asked <- Asked, record <- presence, lease <- ttl

(`PresenceIsALease`), where `Served` is the set of users with an open connection and
`Asked` what the connections waiting in `set_presence` are going to store. An `EXPIRE`
that brought a lapsed presence back would be no step of it: nobody has asked.
In particular `FinPresence` of one connection may end a lease that another
connection of the user has just written, and a late SETEX cannot come after the
last connection has gone. `left` is a history variable: what a connection that ended
by an error in its `finally` block, or by a crash, had still to remove. Only that
survives a disconnect; `metadata.py:153` says of every presence that it "survives
brief disconnects", and `PresenceBacked` says what is true of it. `trigger-refresh` sends to every connection and changes
nothing; it and the contents of what is sent are left out.

### Accounts

Every request that writes user rows or what hangs on them: friends and blocks, the
administrator's updates, reset links, registration, renaming, the avatar. All are
the same pattern: read in one snapshot, decide, write. So `Begin` evaluates the
checks of the handler on the rows at its beginning (`Accepted`) and keeps the
columns it will write (`Planned`); `Commit` applies that plan to the rows as they
are by then, or the flush fails: an INSERT of a key that is there, an UPDATE
through the ORM of a row that is gone. A DELETE of a row that is gone, or has become something else,
goes through.

| code | model |
|---|---|
| `friends.py`, `blocks.py`: add and remove | `MayRelate`, `PlanRelation`, `CommitRelation` |
| `update_user_admin` | `MayUpdate`, `PlanUpdate`, `CommitUpdate` |
| `generate_reset`, `confirm_reset`, `_load_valid` | `PlanReset`, `CommitGenerate`; `Valid`, `CommitConfirm` |
| `register.py` | `CommitRegister`, the unique key deciding (`TakenByOther`) |
| `me.py`: rename | `CommitRename` |
| `_store_image` and the avatar's URL | `StoreImage`, `StoreFails`, `CommitAvatar` |

A request's *topic* is what its checks are about (one user's relations, one user's
links, the administrators, ...). `disturbed` is the history of topics on which two
requests were open at once. The code takes no locks, so on a disturbed topic limits
can be exceeded, two administrators can demote each other, a link can set two
passwords and the removal of a friend can lift a block; the properties are exact
about everything else, and `FriendOrFoe` and `AccountsComplete` hold even there.
An administrator's update replaces all privileges: `others` says whether it differs in
another bit, which makes it a write even if the ADMIN bit stays. A failed write of an
avatar may leave a part of the file (`"part"`).
Left out: passwords and tokens (signed, kept by nobody), the list queries, and the
columns that one handler writes whole (cover, country, page, section order).

### BeatmapCache

The service of `services/beatmaps.py` with the handlers that call it, and
`ensure_osu_file`. An action is a stretch between two awaits; `local[r].snap` is
what the request's transaction sees of the tables, so its look for an existing row
(`FetchedMap`, `New`) misses what others committed meanwhile, and the duplicate
shows in the flush (`Duplicate`).

| code | model |
|---|---|
| `get_beatmap`, `get_beatmap_by_checksum`, `get_beatmapset` | `Get` |
| `search_beatmapsets` | `Search` |
| `_get_osu_token`, shared in the class | `Asks`, `Issue`, `StoreToken` |
| a 401, the retry, and the second 401 | `Refused`, `RefusedAgain` |
| `_cache_beatmap`, `_cache_beatmapset` with its commit | `FetchedMap`, `FetchedSet`, `StoreSet`, `Recheck`, `Insert` |
| `ensure_osu_file`, which opens the file (emptying it) and then writes | `Score`, `StartWrite`, `EndWrite`, `WriteFails` |
| `calculate_pp` in a thread | `Compute` |
| mirror, osu! and its API | `mirror`, `upstream`, `Update`, `Revoke`, `Lapse` (external) |

A token is its date: the number of revocations before it was issued, and the API
honours it while no other has followed. A lookup by checksum sends the file name as
well, so the difficulty it finds may have another checksum by now.

`write_bytes` does not await, so nothing else in the event loop runs between
`StartWrite` and `EndWrite` (`LoopFree`); the thread that computes pp and the world
outside do. A row, once stored, is never refreshed: a beatmap that changes upstream
keeps its cached version, and a lookup by the new checksum answers with the old row
(`beatmaps.py:771`); `AnswersHold` is about the rows, not about what is newest.
Left out: the contents of rows and answers, the paging of searches and the streaming
of `.osz` downloads, which keeps nothing.

### Frames, WireModels and Wire

`Frames` is a WebSocket message from `pack_*` through a possible cut to
`unpack_messages`. Lengths are real varints; bytes carry the number of the message
they belong to, so that a frame made up of the bytes of two shows.

| code | model |
|---|---|
| `_write_varint`, `_read_varint` | the recursive functions `Varint` and `ReadVarint` |
| `pack_invocation`, `pack_completion`, `pack_ping` | `Pack`, `Frame` |
| a message that arrives whole or cut short | `Receive`, `Cut` |
| one round of the loop of `unpack_messages` | `Unpack` |
| the incomplete frame and the exception that end it | `Break` |

`WireModels` has every class of `protocol/models.py` as a sequence of its fields: in
which order `to_msgpack` writes them, at which position `from_msgpack` reads each,
what it takes when there is none, and how it reads a dictionary. Values are tags, and
the value a field is filled with is named for the field, so that a value that lands
in another field shows. `UserActivity`, a union, is written out. The classes nest three
deep (a room has users, who have mods), so writing and reading are defined once, with
the writer or reader of the objects within as a parameter (`Write`, `Read`), and
instantiated at three depths (`WriteFlat`, `WriteInner`, `ToMsgpack`, and likewise):
no recursion, hence within reach of the prover. `Wire` joins the two and says what
objects there may be (`ObjectOf`). MessagePack itself, text, numbers and the spelling
of keys are abstracted.

`ObjectsSurvive` is exact about what is lost on purpose: times, statistics the
server has no name for, and everything when an enum member is unknown, which raises
(an unknown integer among the statistics raises as well, `models.py:52`; `to_msgpack`
of the sender writes none unless it was given one). Flags are no such enum:
`ReplayButtonState` is an `IntFlag`, which keeps the bits it has no name for, so
`button_state` survives whatever it is. `auto_start_duration` is a duration
in memory, ticks in an array, and a number of seconds in a dictionary (`Ticks`,
`Seconds`). `FormsAgree` compares the two
forms field by field, in the objects within as well (`Alike`), and names, in `Slips`,
the fields where `a or b or default` takes a zero for a missing value. The number a
dictionary has for a duration is read as seconds, which is the duration it stands
for; anything that is no number, a `timedelta` included, is read as zero
(`models.py:528-532`), and `AlikeField` names that too.

## 4. The runs

| run | instance | result |
|---|---|---|
| `SpectatorHub` | 2 connections of one user, 2 users, 1 fault, keys lapse | all hold, about 584,000 states |
| `SpectatorIndex` | the same, no fault and no lapse | `BidirectionalIndex` violated |
| `SurvivesDisconnect` | the same | `StateSurvivesDisconnect` violated |
| `ScoreSubmission` | 2 requests, 3 tokens, 2 users, 2 beatmaps, 2 failures, fairness | all hold, about 70,000 states |
| `TokenSingleUse` | 2 requests | violated |
| `AnnouncedIsCommitted` | 2 requests | violated |
| `Rooms` | 1 room, capacity -1, 0 or 2, 4 requests | all hold, about 184,000 states |
| `ClosedIsEmpty` | 1 room | violated |
| `Presence` | 2 connections of the one hub user, `Ttl` 2, 1 fault | all hold, about 435,000 states |
| `Accounts` | 3 requests of 10 kinds, 5 user ids, 2 links, limit 1 | all hold, about 104,000 states |
| `BeatmapCache` | 2 requests of 5 kinds, 1 set of 2 difficulties, 1 change, 2 revocations, 1 crash | all hold, about 3,073,000 states |
| `Wire` | 2 frames of 5 types and the boundary sizes; every class, every field | all hold, about 52,000 states |

Bounds, and why they are enough:

* Two connections are what an overlap takes: a reconnect while the old socket's
  cleanup is under way. Two users let a user watch itself or another, so a cleanup
  iterates over sets of zero to two. One fault puts an error or a crash at every
  await. No property is suspended by it: what an error or a crash leaves behind is
  part of what they state. The proofs cover any number of each.
* Tokens `t1`, `t2` share a user, `t1`, `t3` a beatmap, and `t3` has an invalid
  mode, so two requests overlap on a token, on a beatmap alone, on a user alone, and not at
  all, and may run one after the other; each may fail. Two are what a lost update or a
  lock cycle takes, and they leave room for liveness, which cannot use symmetry. The
  invariants are theorems for any number of requests, and so is the safety half of
  `RequestsEnd` (`NobodyStuck`, `StepsAdvance`). One beatmap is cached with plays and
  one without.
* Capacities -1 and 0 are those the host ignores; 2 is filled by one join. Four
  requests make two joins and two leaves. Rooms do not interact, so one will do.
* `Ttl` 2 is the least that distinguishes a presence refreshed every unit from one
  missed once; the proofs cover every `Ttl` from 2 on. The hub registers every
  connection under one user id (`metadata.py:166`), so one user; two connections are
  the overlap, and one fault reaches every await.
* In `Accounts` two administrators act on each other and on a member, a bot and an
  id not yet registered are targets, names are free or taken, and images decode or
  not. Three requests are two that overlap and one before, between or
  after them. `MaxFriends` 1 makes both limits 1 and so reachable.
* In `BeatmapCache` two requests race for a key, for the token and for the file, and
  the first may have ended before the second begins. One set of two difficulties
  lets a mirror omit one; a checksum of version 1 is unknown until osu! changes the
  difficulty. Two revocations are what a second 401 takes: the first makes the cached
  token stale, the second the renewed one. `Rest` lets the answered system stay, so deadlock is
  checked: no request is stuck.
* In `Wire`, 2, 127, 128, 16383 and 16384 are the sizes where the length takes another byte
  or is trivial; cuts fall up to three bytes before a frame's end, hence into a
  length, a body, or between frames. Each class comes with all fields filled and with
  each field in turn, of the object or of one within it, at its other values, in every
  number of positions from none to all. The proofs cover any sizes and any cuts, and
  objects with any combination of values and lists of any length.
* `SYMMETRY` permutes requests and tokens, in safety runs only.
* `CHECK_DEADLOCK FALSE` in the others: each connection and request is used once, so
  a system in which all have ended has nothing left to do.

The properties, beyond the types:

* `RegistrySound`, `NoLeak`: the registries and the life of the connections.
* `PlayingBacked`: a playing key has a connection that will remove it, or one whose
  removal failed or was not reached in a crash. `NoEternalKey`: a key without TTL is
  one whose `EXPIRE` comes next, or was prevented by an error or a crash.
* `IndexAgrees`: the halves of the index of an undisturbed user, between calls.
* `CleanupCompletes`: a cleanup that has begun ends.
* `TokenScoreLinked`: token and score are committed together, always.
* `TokenUsedOnce`, `PlayCountSound`, `StatisticsSound`: exact without overlap; with
  it, `play_count` and the statistics may miss a score but never invent one. The
  play count is compared with what the row was cached with.
* `RequestsEnd`: no request waits for a lock for ever.
* `RoomSound`, `CountExact`, `FollowsLifecycle`: capacity and closing; the exact
  count without overlap; the implementation of `RoomLifecycle`.
* `PresenceKept`, `WatchingAgrees`: between messages the store has what the one
  connection of an undisturbed user last set. `PresenceBacked`: what is stored has an
  open connection that will remove it, or was left by an error in a `finally` block or
  by a crash. `GhostsLapse`: a presence so left ends. `PresenceIsALease`: the
  refinement, above all that no ping brings back what has lapsed.
* `FriendOrFoe`, `AccountsComplete`: hold however requests interleave. `LimitsHold`,
  `LinksSingleUse`, `AdminRemains`, `AvatarStored`, and the action property
  `BlocksStick`: hold where requests of a topic did not overlap.
* `SetsWhole`, `AnswersHold`: what is cached is complete, and what was answered is
  cached. `RenewalSuffices`: a fetch ends in a second 401 only if the API dropped its
  tokens again after the first. `PpFromWhole`: pp is computed from part of a file only after a crash, a
  failed write, or under a second download.
* `FramesSurvive`, `ObjectsSurvive`, `FormsAgree`: see above.

### What the violated ones show

* `BidirectionalIndex`: with two connections of a user, `clear_user_watches` of one
  reads the watched set, the other adds a watch, and the first deletes the set:
  `watchers:{target}` keeps the user. `hub_state.py:286` promises a bidirectional
  index.
* `StateSurvivesDisconnect`: the `finally` block removes the playing key and all the
  user watches, of which `spectator.py:104-106` says that the one survives brief
  disconnects and the other can be restored on reconnect (so does `hub_state.py:11`,
  and `spectator.py:137-141` reads the watches back). Only a crash or an error leaves
  them. The metadata hub disagrees with `metadata.py:153` in the same way: its
  `finally` block removes the presence (`:250-253`).
* `TokenSingleUse`: two overlapping submissions with one token both find it unused;
  both scores are kept.
* `AnnouncedIsCommitted`: `UserScoreProcessed` is sent before the commit, to make the
  client fetch statistics that are not there yet.
* `ClosedIsEmpty`: a join that overlaps the last leave is counted into a closed room.

### Fairness

* `SpectatorHub`: weak fairness of `ServerStep(c)`, the steps from an await on Redis
  or on the server's own sends. asyncio resumes every coroutine whose await has
  completed, and the Redis client's calls complete or raise. No fairness for what
  the client does: its handshake and its messages may never come.
* `ScoreSubmission`: weak fairness of `Step(r)`: a running request is carried on and
  the database answers it. A request that waits for a lock is not enabled, so the
  property rests on the locks being released and on the deadlock being broken.
* `MetadataHub`: weak fairness of `ServerStep(c)`, as above; of `TimesOut(c)`, since
  `asyncio.wait_for` fires when nothing arrives; and of `Tick`, since time passes.
  `GhostsLapse` needs all three: a unit ends only when the Redis commands started in
  it have ended and the connections that waited through it have timed out.

No fairness is assumed for faults, lapses, crashes or new requests.

## 5. The proofs

`tlapm` proves, for any users, connections, requests, tokens, rooms, streams, objects
and bounds, every invariant and every action property the runs check:

* `SpectatorHubProofs`: `TypeOK`, `RegistrySound`, `NoLeak`, `PlayingBacked`,
  `IndexAgrees`, `NoEternalKey`.
* `ScoreSubmissionProofs`: `TypeOK`, `TokenScoreLinked`, `TokenUsedOnce`,
  `PlayCountSound`, `StatisticsSound`.
* `RoomsProofs`: `TypeOK`, `RoomSound`, `CountExact` and the refinement
  `FollowsLifecycle`.
* `MetadataHubProofs`: `TypeOK`, `PresenceBacked`, `PresenceKept`, `WatchingAgrees` and
  the refinement `PresenceIsALease`.
* `AccountsProofs`: `TypeOK`, `FriendOrFoe`, `AccountsComplete`, `AdminRemains`,
  `LinksSingleUse`, `LimitsHold`, `AvatarStored` and the action property `BlocksStick`.
* `BeatmapCacheProofs`: `TypeOK`, `RenewalSuffices`, `SetsWhole`, `AnswersHold`,
  `PpFromWhole`.
* `FramesProofs`: `FramesSurvive`. `WireProofs`: `ObjectsSurvive` and `FormsAgree`.

Beyond the checked properties, theorems that no run states:

* *Serial commits* (`CommitsAsAtOnce` in `AccountsProofs`, `RoomsProofs` and
  `ScoreSubmissionProofs`): what a request commits that no other overlapped on its
  topic, room, token, beatmap or user is what its handler would decide and write at
  the moment of the commit. This is the one statement behind the properties "exact
  without overlap". `FlushesFindTheirRow` adds that such a request on relations never
  meets a duplicate key.
* *The extent of two findings*: `ClosedIsEmptyAlone` (a closed room is empty unless
  two requests on it overlapped: a join with the last leave, or two leaves of which
  the one that read two commits after the one that closed) and `AnnouncedEarlyOrLost` (every committed score was
  announced, and one announced but not committed is about to be or has failed).
* *Rows stay* (`BeatmapCacheProofs`): no step takes back or changes a stored
  beatmapset or beatmap row.
* *The safety halves of the liveness properties*, whose other half is the fairness:
  for `RequestsEnd`, `NobodyStuck` (while a submission is open, one of them holds or
  can get every lock of its next statement) and `StepsAdvance`; for
  `CleanupCompletes`, `TargetsAtHand` and `CleanupAdvances`; for `GhostsLapse`,
  `GhostsOnlyFade` and `TimeMovesOn`.
* *Varints* (`VarintSurvives`): the reader makes `n` of the bytes the writer makes of
  `n`, wherever they lie, and nothing of a beginning of them.

The assumptions are those named beside the constants: `UserOf` and `SetOf` are
functions, capacities are integers, the play counts of cached rows are naturals, the null values are not ids, names or rows, the bounds are naturals, a
presence lives at least two units, an administrator who is no bot exists at first
and the initial names differ; every packed message has at least one byte, as
MessagePack writes no value in none (`FramesAssumption`); beatmap rows and user rows
are rows of two tables (`RowsAssumption`); the objects sent fit the fields of their
classes (`ObjectsAssumption`). Nothing is assumed finite: where a limit is a
cardinality (`LimitsHold`), finiteness of the set is part of the invariant, since it
begins empty and grows by one element at a time.

The arguments:

* *Registries*. `RegistrySound /\ NoLeak` is inductive: only `Accept`, `FinPops`,
  `RedisError` and `Crash` touch the registries (`OrdinaryStep`).
* *Playing keys*. `PlayInv` adds to `PlayingBacked` that a connection about to set
  the key has `isPlaying`, and that only an open one has it. A step that takes a
  connection out of `WillRemovePlaying` removes the key or adds it to `unremoved`.
* *Index*. `IndexInv` says for an undisturbed user that it has at most one open
  connection and that the await of that connection tells what the two halves look
  like (`IndexShape`: between the two `SADD`s the user's half is one target ahead,
  in the cleanup loop the remaining targets are exactly the targets that still list
  the user, ...). `IndexAgrees` alone says nothing of the middle of a call, hence
  is not inductive.
* *TTLs*. `EternalInv` adds that `add_watcher` has exactly one target, so the key
  an `EXPIRE` is owed to (`Owes`) is the key the connection has created.
* *Submission*. Every step of a request advances it with the database as it was,
  ends it, or commits it (`StepKind`). `LinkInv` is `TokenScoreLinked` with "the
  author of a committed score has ended". `CountInv` adds what a transaction knows:
  its snapshot's scores are committed and its counts sound (`Knows`), what it shares
  with nobody it has read as it still is (`Alone`), and what two of them share is in
  `overlapped` (`Apart`).
* *Rooms*. `RoomInv` adds what a request has seen of its room: it exists, it was
  within capacity, and if it was closed it is closed. `ExactInv` has, for rooms not
  overlapped, that the only request on it has seen the current count.

* *Presence*. `PresenceBacked` is inductive beside the type invariant (`BackedStep`),
  which says for the clock that a presence exists exactly as long as it has time to
  live. `AloneInv` is behind `PresenceKept` and `WatchingAgrees`: an undisturbed user
  has at most one open connection (`Alone`), and that one's await tells what the
  store has of it. From the first SETEX to the `finally` block, except while an
  update is on its way, the presence is `own`, and unless the connection is quiet it
  has `Ttl` units left, or `Ttl - 1` if the connection has waited one through
  (`Stored`); the watcher set agrees with the connection's flag (`WatchOf`). The two
  properties speak of the loop alone, hence are not inductive: what holds there comes
  from the awaits before it, and a lapse is excluded by the time left. `Separate`
  and `OwnStep` reduce a step to the connection that takes it.
* *The lease*. Every action maps to one of `PresenceLease` or to a stutter: `Accept`
  comes, `HandshakeOk`, `UpdateStatus` and `UpdateActivity` ask, `SetsPresence` writes
  what its own connection asked for, `RedisError`, `Crash` and `FinPops` leave; only
  `SetsPresence`, `Expires`, `FinPresence` and `Tick` change `ttl`, and the first
  three are steps of an open connection, so its user is in `Served`. That `Expires`
  is a `Renew` needs "`presence[u]` is `None` exactly when `ttl[u]` is 0".
* *Accounts*. `StillInv` is the heart: a request whose topic nobody shared finds at
  its commit the rows its plan was made from, as far as they bear on it. It rests on
  `AloneInv` (on an undisturbed topic at most one request is open) and on which
  topic writes which columns. With it each property about undisturbed topics is
  inductive: the limit checked at `Begin` is the limit at `Commit`, an administrator
  who may not demote itself remains one when it has demoted another. `FriendOrFoe` and
  `AccountsComplete` do not use it: for the first, every plan writes one flag
  (`FoeInv`), for the second the unique key is looked at in the commit itself.
* *Beatmaps*. `StoredInv` adds to `SetsWhole` and `AnswersHold` what a request in the
  middle of a fetch knows: its snapshot's rows are still stored, as rows are only
  ever inserted (`Grows`). `RenewInv` adds to `RenewalSuffices` that a fetch which
  had a 401, and since that 401 no revocation, holds a token the API honours
  (`TokenSound`): it asked for one of its own after the 401, whatever the others
  stored. `FileInv` has that at most one write is under way, that a partial file is
  being written or was left by a failure, and that a request about to compute finds a
  whole file or one that is accounted for.

* *Locks*. `LockInv` says that the row locks a submission holds are those its label
  tells (`HeldAt`) and that none is locked exclusively by one and at all by another.
  So a submission waits for one that is further on, or for one at the same update as
  itself, and that circle `DeadlockVictim` breaks (`SomebodyReady`).
* *Serial commits*. In `Rooms`, `SettledInv` has that a request alone on its room
  still sees the room as it is; in `Accounts`, `StillInv` gives it; in
  `ScoreSubmission`, `Alone` of `CountInv`.
* *Frames*. The library's induction theorems take a predicate as a parameter, which
  the prover cannot instantiate; so that the recursive functions satisfy their
  equations, and that one undoes the other, is proved from the least element of the
  set of counterexamples (`Recursion`, `VarintDef`, `ReadVarintDef`). `LayoutInv` says
  that the frames lie end to end up to a cut, `ReaderInv` that the receiver stands
  where one of them begins with the messages of those before it; `ArrivedFrame` says
  that the code's test for a whole frame succeeds exactly on the next frame that
  arrived. `FramesSurvive` speaks of the end alone, hence is not inductive.
* *Objects*. Each class satisfies what its readers and writers rely on (`ClassSound`:
  a field is read at the position it is written to, no two have a name, and a field
  whose default is not zero either keeps zeros or is in `Slips`). The three depths are
  made one definition with the depth as an argument (`WriteAt`, `ReadAt`, ...), each
  the next above the one before (`WriteRises`, ...), and what arrays keep of the
  objects of a depth they keep of the next (`ArraysRise`), from depth 0, where there
  are none, to 3; the same for dictionaries (`DictsRise`). The theorems about `Spec`
  then only need that what was unpacked was sent (`ReadIsSent`, from `ReaderInv`).

Only model-checked: `CleanupCompletes`, `RequestsEnd` and `GhostsLapse` themselves
(liveness under fairness is out of the prover's reach), and the five violations.

## 6. Not modelled

Components listed in `PROJECT.json` as `not_modelled`:

* the multiplayer hub answers its handshake and ignores every invocation; chat,
  notifications, tags and server metadata are constant answers and a socket that
  keeps itself open: no state;
* rankings are read-only queries over committed rows;
* application and configuration are wiring, settings and table declarations;
* the maintenance script runs `update_user_statistics` offline with no submission,
  and that function is in `ScoreSubmission`.

Parts left out of components that are modelled:

* `submit_score`: the pp and accuracy columns, computed in one query over the
  scores the model counts, and the ranks, each a count at one moment;
* leaderboards, score and room views, user pages, searches' paging, BBCode: queries
  and formatting;
* the pp calculation itself: a call into a native library; what it reads is in
  `BeatmapCache`;
* the streaming of set downloads from the mirror, which stores nothing;
* cover, country, password, page and section order of a user: one column each,
  written whole by one handler, the last writer winning;
* signing in and refreshing: tokens are signed and kept by nobody;
* `trigger-refresh`, and the contents of notifications.
