# a2a-switchboard in TLA+

TLA+ specifications of the switchboard (`src/`, a Rust service on tokio and axum), model-checked
with TLC on small instances. Every safety property that the runs check is also proved by TLAPS, for
every instance; liveness is checked by TLC alone. `PROJECT.json` lists runs, mutants, findings,
hazards and theorems, and maps every definition to the lines it models.

## The system

The switchboard is an HTTP gateway between A2A agents. A peer registers a name and a URL; an
operator accepts it; callers send JSON-RPC to `/peer/<name>/` and the switchboard forwards it, to
the pinned URL or, for a peer behind a firewall, down an SSE stream the peer holds open. All
components share one `App`; handlers run in parallel and interleave wherever they release a lock.
axum drops a handler's future at an await when its client disconnects.

| component | state | operations | interacts with |
|---|---|---|---|
| Reverse channel (`channel.rs`, `peers.rs:765-834`) | name to slot, correlation entries, next id, queues | `channel_open`, stream end, `deliver`, `channel_response`, timer | registry (tokens, admission), proxy delivery |
| State file (`state.rs:679-793`, `main.rs`) | `state.json`, `state.json.tmp` | `persist`, `load`, first run | every handler that changes `Inner` |
| Peer registry and tokens (`peers.rs`, `admin.rs`, `api.rs`) | `Inner.peers`, shared tokens | register, PATCH, deregister, accept, reject, revoke, delete | channel, rooms, state file, events |
| Proxy delivery (`peers.rs:523-950`) | health marks of peers | `proxy`, `deliver`, `direct_exchange` | registry, channel, routing log, messenger |
| Routing log (`state.rs:799-843`, `api.rs`) | `routing.jsonl`, `.1`, ring, counters | `log_route`, `/api/logs`, export | task inbox, events |
| Task inbox (`tasks.rs`) | at most 500 tasks | `observe`, `reply`, `cancel`, `derive` | routing log, delivery |
| Messenger (`chat.rs`, `state.rs:850-896`) | ids, ring, `chat.jsonl` | `log_chat`, send, page, typing | delivery, events |
| Rooms and humans (`chat.rs`, `api.rs`) | rosters, human tokens | create, members, delete, fan-out | registry, delivery |
| Health prober (`health.rs`) | health of peers | probe, apply | registry, channel, events |
| Admin password and sessions (`state.rs`, `login.rs`) | credential, sessions | login, change, upgrade, expiry | state file, events |
| Rate limiter (`state.rs:477-504`) | timestamps per address | `allow` | register, proxy, channel |
| Locks (`Inner`, the two rings) | holders, waiters | read, write, both nested | every handler |
| Server-sent events (`admin.rs:421-474`, `ui/src/lib/sse.ts`) | broadcast buffers | subscribe, lag, recheck | all emitters |

What makes it hard: handlers that release a lock and use what they read before (`peers.rs:535-568`,
`tasks.rs:332-385`, `state.rs:955-980`); two maps changed one after the other (`channel.rs:112-121`,
`164-175`); futures dropped at an await; a file written by several handlers; ids that start again
after a restart; streams noticed dead late; locks that are fair, so that a reader waits behind a
writer that waits.

What makes each component correct: the channel hands a caller exactly its own answer or an error, in
bounded time, and tells the peer the truth about its post; the state file is always complete and has
what was answered; the registry gives each token its own peer and nothing else, and no step undoes a
revocation; delivery contacts only accepted peers, and health marks become right; handlers never all
wait for each other; log, inbox and messenger neither lose nor duplicate records and a restart
rebuilds what was shown; a room is heard by those invited to it; a changed password stays changed;
no window lets more than its limit through.

## Modules

| module | models | uses |
|---|---|---|
| `ReverseChannel` | the reverse channel, with timers, disconnects and restarts | `ProxiedCall` by INSTANCE |
| `ProxiedCall` | abstract: what a caller is promised | |
| `ReverseChannelProofs` | theorems of the channel | `ReverseChannel`, `TLAPS` |
| `StatePersist` | `state.json` under overlapping saves, failing writes and kills | `DurableState` by INSTANCE |
| `DurableState` | abstract: what is durable, and who is answered when | |
| `AdminAuth` | the admin password, the sessions it opens, the event streams that run on them | |
| `ChatLog` | the messenger's history, its ids, and what a reader can learn of it | `Subsequences` |
| `StateProofs` | theorems of `state.rs`: the state file, the password and its sessions, the limiter, the locks | `StatePersist`, `AdminAuth`, `RateLimiter`, `Locks`, `TLAPS` |
| `Registry` | entries, tokens, identity and admission, every handler split at its locks | |
| `RegistryProofs` | theorems of the registry | `Registry`, `TLAPS` |
| `RateLimiter` | the rolling window of requests per address | |
| `RouteLog` | `routing.jsonl`: append, rotation, ring, restart | `Subsequences`; `AppendLog` by INSTANCE |
| `AppendLog` | abstract: one log that grows at its end and forgets from its beginning | |
| `LogPages` | the log with a client that reads it page by page while it is written | `RouteLog` |
| `Subsequences` | a filter of a sequence, by counting | |
| `SubsequenceProofs` | its lemmas | `Subsequences`, `TLAPS` |
| `RouteLogProofs` | theorems of the routing log: file, ring, pages | `LogPages`, `SubsequenceProofs` |
| `TaskInbox` | the inbox: observation, eviction, cancel, replay at boot | `Subsequences` |
| `TaskInboxProofs` | theorems of the inbox | `TaskInbox`, `SubsequenceProofs` |
| `Delivery` | `deliver` and the prober against a registry that changes under both | |
| `DeliveryProofs` | theorems of delivery | `Delivery`, `TLAPS` |
| `Locks` | the awaited locks and who waits behind whom | |
| `Rooms` | rosters, room messages, direct messages and notifications against a registry that changes | |
| `MessengerProofs` | theorems of the messenger: the rooms, the ids, what readers are shown | `Rooms`, `ChatLog`, `SubsequenceProofs` |
| `MCReverseChannel`, `MCStatePersist`, `MCRegistry`, `MCRateLimiter`, `MCLogPages`, `MCTaskInbox`, `MCDelivery`, `MCLocks`, `MCRooms`, `MCAdminAuth`, `MCChatLog` | what TLC runs, with symmetry sets where they are sound | |

In the component modules a definition named "Mutant of X" is a plausible mistake in X. No
specification uses it; it stands before X so that a property can be tried against it.

### ReverseChannel

One step is what happens under one lock or between two awaits.

| code | model |
|---|---|
| `Channels.peers` | `slot`, from a name to the connection whose sender and secret it has |
| `Channels.pending` | `pending`, a set of entries with id, peer, secret and caller |
| a `GET /channel` call, then its stream | `conn`: unused, binding, open, closing, ended, or abandoned |
| the mpsc queue of a stream | `queue` |
| what peers received and may answer, once or again | `held` |
| a proxied call | `caller`: idle, sent, lagging, waiting, replied or failed (its oneshot has an answer or a 502), then a final outcome |
| `bind` / the rest of `channel_open` | `Bind` / `StartStream`, or `AbandonOpen` when the client leaves in between |
| `CleanupStream::drop` | `RemoveSlot`, then `FailPeer` |
| `deliver` | `DeliverUnbound`, `DeliverClosed`, `DeliverFull` + `ResolveLag`, `DeliverSend` + `InsertPending` |
| the caller's task polls its oneshot; finds it empty and its time over | `Receive`; `Timeout` |
| the caller's handler dropped | `Abandon` |
| `respond` | `RespondMatched`, `RespondUnmatched` |
| process restart | `Restart` |

`deliver` holds the read lock on the map until it returns; `MapUnlocked` keeps `Bind` and
`RemoveSlot` out meanwhile. A secret is random, so a connection of `Conns` stands for it, and a
connection is used once. A peer may answer any envelope it holds at any time, with the secret that
came in it. `respond` puts the answer in the caller's oneshot and tells the peer 200 if the receiver
was still there; the caller's task reads it later, and in between it may meet its deadline or be
dropped. So 200 does not mean that anybody read the answer, only what `AcceptedIsDelivered` says.
The checks at the top of the handlers (limiter, token, admission, id equal to path, size) reject a
request before it touches this state; they are left out, and so are the contents of requests and
answers.

### StatePersist

A content of a file is the set of changes in it, the identity (the shared tokens) it was created
with, its length and whether it parses. A handler of `Writers` makes one change; the pseudo-handler
`Boot` is `main()`, whose change is the first admin password. Inodes are explicit: `state.json.tmp`
is reused if it is there, an open file is written through its descriptor even after it was renamed,
and a short content over a long one leaves a tail.

| code | model |
|---|---|
| change of `Inner` under the write lock | `Mutate` |
| the future dropped while `persist` awaits the read lock | `Cancel` |
| the clone under the read lock | `Snapshot` |
| `fs::write`: open with truncation, then write | `OpenTmp`, `WriteTmp`; `OpenFails`, `WriteFails` |
| `fs::rename` and return; return after an error | `Rename`; `GiveUp` |
| kill; start without, with, or with a broken `state.json` | `Crash`; `StartFresh`, `StartLoaded`, `StartFails` |
| `ensure_admin_password`, then the server starts | `FinishBoot` |

The history variables `overlapped` and `ioFailed` record whether two saves ever ran at the same time
and whether the disk ever refused: what the code guarantees depends on them. Loss of power (a rename
that reaches the disk before the data; `persist` calls no `fsync`) is not modelled, nor are the
health marks, which change memory without a save of their own.

### Registry

A call of `Calls` is one request, from its classification to its response, and it also stands for
the random caller token it may mint; a token is its fingerprint. An entry keeps the call that made
it, its token, the fingerprint that made it, the call that supplied its url, and its admission
state. What always goes with the url (agent card, upstream token) is in it.

| code | model |
|---|---|
| `Inner.peers`, `Inner.bootstrap_token` | `peers`, a set of entries; `bootstrap`, and in `spent` those before it |
| entries loaded from an older `state.json` | `Legacy`: no caller token, made by a shared token |
| `register`: classify, then the write lock, then the read of the token | `RegisterClassify`; `RegisterConflict`, `RegisterExisting`, `RegisterNew`; `RegisterRead` |
| `resolve_caller` at the head of the other handlers | `Resolve`, or `Unauthorized` |
| `update`, `deregister` under the write lock | `PatchRefused`, `PatchApply`, `Deregister` and their refusals |
| `channel_open`: check under the read lock, bind, end of stream | `ChannelRefused`, `ChannelCheck`, `ChannelBind`, `ChannelEnd` |
| accept, reject, revoke, delete, new human, new bootstrap token | one step each |
| a handler's future dropped at an await | `Abandon` |

Room rosters, `last_ip`, health marks and the text of a card are not in it: no decision of these
handlers reads them. What a stream does after it is bound is in `ReverseChannel`.

### RateLimiter

`allow` reads the clock, takes the mutex and decides: `ReadClock`, `Decide`. Between the two other
threads may decide, and the clock may tick, at most `Skew` times. `late` records whether a call was
ever decided in a later second than it read. A time `t` stands for `Window + t`, so that `clock -
Window` is a natural number. `RollingWindow` is the reference definition: counting the requests
granted in the last `Window` seconds, without a queue, a pruning or a cleanup.

### RouteLog

A line has length 1 and belongs to the call that writes it. A file is named by the call that created
it, so a descriptor keeps its file when another call renames it; `current` and `rotated` say which
file has which name. Nothing but the system calls themselves is atomic.

| code | model |
|---|---|
| `routing.jsonl`, `routing.jsonl.1`, their bytes | `current`, `rotated`, `data` |
| `fs::metadata` and the comparison; `fs::rename` | `Stat`; `Rename` |
| `OpenOptions::open`; `write_all`, which may be cut short or fail | `Open`; `Write`, `WriteTears`, `WriteFails` |
| `read_to_string`, then the lines that parse | `Text`, `Readable` |
| `log_ring`; a caller that leaves before it | `ring`, `Push`; `Abandon` |
| kill, and `load()` | `Restart` |

After a torn write the next line is appended to the torn one and neither can be read (`Torn`,
`Bad`). If the write was cut inside a character the file is not UTF-8 any more and nothing of it is
read until it is rotated away (`Cut`, `Ruin`, `Text`). `FaultCosts` counts both. A write that lacks
only its newline is taken for a torn one, which costs more. The history variables say how much
concurrency there was: `overlapped` has the calls whose append ran together with another's, `serial`
says that no two `log_route` ever did, `faults` counts failed or torn writes. Two calls that find
the file full both rename: the second puts what the first has just begun over the full file; hence
the properties speak of `overlapped`. A cap of 0 (no file), the counters of `/metrics` and the
broadcast are left out.

### LogPages

`LogsNext` is a step of `RouteLog`, a tick of the clock, a call that makes its entry, or a step of a
client that asks `/api/logs` for one page after the other. Each page reads the whole log anew.

| code | model |
|---|---|
| `RouteEntry.ts`, read before `log_route` begins | `ts`, `Stamp`; then `Logged` |
| `read_routing_log` in a blocking task | `ReadLog` |
| the ring, if the file had nothing | `ReadRing`, a later step |
| newest first, `e.ts < b`, `truncate(n)`, `next_before_ts` | `Given` |

The cursor is a second, and the comparison is strict, so a page that ends within a second hides the
rest of that second. `WalkIsWhole` says that a walk loses nothing else of what the file gave at its
beginning and gives at its end, and shows nothing twice. A file that a tear made unreadable gives
nothing: the walk then goes on with the ring, and older lines are not shown. If calls are not apart
from the clock to the ring (`apart`) neither holds: their lines are not in the order of their times,
and a cursor cuts by time. Filters make a walk one of a shorter log; the export is one page without
an end.

### TaskInbox

Here an append is one step and the file a sequence of calls; what matters is what comes between a
call's append and its observation. `inbox` is a function from keys to entries.

| code | model |
|---|---|
| an answered call, its `RouteEntry` | `Route`, `line` |
| `log_route`: append, (rotation), ring, `observe` | `AppendLine` or `AppendLoses`, `Rotate`, `Observe`; `Abandon` |
| errors of the append, which nobody looks at | `AppendFails`, `AppendRuins`; `AppendGlued` for the line after |
| `observe_locked`: new entry, known entry, eviction | `Fresh`, `Merged`, `Victims` |
| `cancel`: read, await the peer, read again, insert | `CancelRead`; `CancelEnds` or `CancelCopies`, `CancelInserts` |
| kill; `derive` | `Restart`; one `Replay` per line |

`Victims` leaves the choice between equally old entries open, since the order of a `HashMap` decides
it. After an append that failed `log_route` goes on, and the inbox shows a task that the log lacks;
`tail` says what the next line is written behind, as in `RouteLog`. A reply is a routed call.
`apart` has the keys of which the log and the inbox may say different things, and `excess` counts
the cancels that added a key to a full inbox. Calls that start no task, previews, contexts, source
and destination are left out.

### Delivery

A url stands for what is read together with it, the upstream token; what a channel does is in
`ReverseChannel`, and only whether a name has one is kept here.

| code | model |
|---|---|
| `Inner.peers`, `Peer.healthy`; `Channels.peers` | `peers`, `healthy`; `open` |
| write locks of the registry; streams; what listens at a url | `Register`, `ChangeUrl`, `SetState`, `Remove`; `ChannelOpens`, `ChannelEnds`; `UrlChanges` |
| the reads of `deliver`: url, admission, `has` | `ReadUrl`, `ReadState`, `Choose`, each under its own lock |
| `channel_exchange` | `SendChannel`, `EndChannel` |
| `direct_exchange`, its mark by name | `SendDirect`, `EndDirect`, `MarkPeer` |
| log, messenger, answer; a client that leaves | `Return`; `Refuse`; `Abandon` |
| the prober's read, request, `apply_health` | `Tick`, `Probe`, `ProbeAnswers`, `ApplyHealth` |

The history `since` has the entries that the name of a call has had since the call began. Humans
have no url and are not probed; they are left out.

### Locks

A handler goes from holding no lock to holding none several times; each time is a section, and a
task runs sections in any order, so every handler of the code is among the tasks. `Section` has the
sections of the code: one lock to read or write, or a second one under the first. A tokio lock gives
way in order: `queue`, `Grant`, `Admits`. A handler can only be dropped at an await, that is while
it waits (`Dropped`). The locks of the standard library are held for a few statements and never
across an await, and only that of the pending calls is taken under another one of them, that of the
channels; they cannot close a circle, and are left out.

### Rooms

A roster is a list of names, and a name outlives its peer. A handler that changes a room validates
names under one lock and writes them under the next; a handler that sends copies the roster under
one lock, picks the agents under the next and calls each with a deadline of 60 s. In between, peers
and humans are removed and names are registered anew. `deliver` is one step here; its parts are in
`Delivery`.

| code | model |
|---|---|
| `Inner.peers`; `Inner.rooms`, `Room.members` | `peers`; `live`, `roster` |
| a handler's locals | `req` (where it is, its room, the names it works on), `out` (its calls), `sender`, `noted` (its bubbles) |
| `register`, `create_human`; `set_state`; `deregister`, `reject_peer` | `Register`; `SetState`; `Deregister` |
| `delete_peer`, the form `delete_human` | `Delete`, `UnlistAgent` |
| `delete_human_json`, two locks | `DeleteHuman`, `UnlistHuman`; `LeaveHalf` if the client leaves between them |
| `api_rooms_create`; `api_rooms_members`; `api_room_delete` | `EditBegins`, `Validate`, then `Create` or `Change`; `DeleteRoom` |
| `notify_members` | `Ask`, then the calls |
| `api_send`; `send_room` | `SendBegins`, `ReadRoom`, `DmLocal`, `DmPeer`; `PickAgents` |
| `internal_rpc`; its answers; `FANOUT_TIMEOUT`; `join_all` | `Deliver`; `Answer`, `Fail`; `Expire`; `Join` |
| the bubbles and the answer | `RecordMessage`, `RecordOutcome`, `Respond` |
| errors; a client that leaves | `Refuse`; `Leave` |

Three histories say who was meant: `invited` has the registration a member had when its name was
validated, `copied` those behind the names of a request, and `loose` the names removed while a
roster or a request kept them. The code lets such a name stand for whoever registers it next:
`deregister` and `reject_peer` leave the rosters alone, and a request goes on with its copy.
`MembersWereInvited` says that nothing else does. A restart keeps the rooms and drops the requests,
and is left out. The bubbles are actions too, and no property is about them: what they say is
written from the outcomes of the calls in the statements after `join_all`. A client that leaves
during a send leaves none, although its message may have been delivered; `chat.rs:1032` ("ALWAYS
stored") is about failed deliveries.

### AdminAuth

A login verifies under the read lock and, if the credential is a legacy one, re-hashes it under a
later write lock. A session token is random, so the login that made it stands for it. A stream
checks its session when it comes round its loop and 15 s have passed.

| code | model |
|---|---|
| `Inner.admin`; `App.sessions` | `admin`: the password, and whether it is legacy; `sessions`, from a login to an expiry |
| `verify_admin_password` up to the read lock's end; its upgrade and save | `Verify`; `Upgrade` |
| `create_session`; `api_logout`, `logout` | `Open`; `Logout` |
| a login whose client leaves at an await | `Leave` |
| `require_admin` | `Gate` |
| `set_password_json`, `set_password`, then `set_admin_password` | `EditBegin`, `EditApply`; `EditEnds` after an error |
| `sse_events`: subscription, an event or a ping, the loop, the client | `StreamOpens`, `StreamYields`, `StreamLoops`, `StreamLeaves` |

`chosen` is what the last change chose, `stale` has the logins that verified a legacy credential
which was changed before they re-hash it, `until` is when a session ended. A stream waits at a
`yield` for as long as its client takes, so `StreamEndsSoon` speaks of what it yields, not of how
long it lives. A change of the password ends no session, and logging out is not gated; neither is
promised. A restart forgets the sessions; it is left out, and so is the first password.

### ChatLog

`log_chat` takes an id, appends, pushes to the ring and broadcasts, with other messages between any
two of these and between any two system calls of the append. A torn line costs what it costs in
`RouteLog`: itself, the next line (`tail`, `Lands`), or what is read of the file, until it is
rotated away; then a restart finds no history and begins the ids at 0 again.

| code | model |
|---|---|
| `App.chat_seq`, `chat_ring`, `chat.jsonl`, the broadcast | `seq`, `ring`, `lines`, `bus` |
| `log_chat`: id; metadata, rename, open, write; ring; send | `TakeId`; `Measure`, `Rotate`, `OpenLines`, `Write`, `LineFails` or `LineTorn`; `Push`; `Send` |
| the sender leaves while the ring is awaited | `SenderLeaves`: the file has the message, nobody else |
| kill and `load` | `Restart`, `NextId` |
| `sse_events`, its chat branch | `Subscribe`, `Receive` |
| `api_messages` without `since_id`: ring, then file; with it | `ReadRing`, `ReadFile`; `Poll` |
| `api_history` | `Page` |

Histories: `serial` (no two messages were in `log_chat` together), `shaken` (a rotation took a
higher id away, or a kill fell between a rotation and its write), `lagged` (a reader fell behind the
buffer: the code skips the lost events and tells nobody), `gap` (a poll came too late for the ring,
or got more than one answer holds), `left` (what a first answer left out). When messages overlap,
the order of the ring is not that of the ids, and a reader that polls with the last id it was shown
can miss a smaller one; hence `serial` in `ReaderIsWhole`. Id 0 is in no answer of `api_messages`
(`chat.rs:564`), and a thread that has left the ring is shown empty and without older messages; the
property speaks of views that show something.

## Runs

| run | checks | bounds |
|---|---|---|
| `channel` | four safety properties, and that every step is one of `ProxiedCall`; every call comes back; a cleanup releases the calls of the secret it took | 2 peers, 2 connections, 2 calls, queue of 1, 1 restart |
| `state_file` | three properties of the state file, and that every step is one of `DurableState` | 3 handlers, 4 inodes, 2 lengths, 1 kill |
| `registry` | four properties of tokens and admission | 2 names, one only for humans, 3 calls, 2 bootstrap tokens |
| `rate_limiter` | the limiter against a count of the granted requests | 2 keys, limits 1 and 2, 4 calls, a window of 2, 1 key kept |
| `routing_log` | the size of files and ring, what is lost of file and ring, what a walk over the pages shows; that every step is one of `AppendLog` | 4 calls, files and a ring of 2 lines, pages of 1, 3 seconds, 1 fault, 2 restarts |
| `task_inbox` | the inbox against the log; its bound; what is evicted | 3 calls, 1 cancel, 2 tasks, an inbox of 1, 2 seconds, 1 fault, 1 rotation, 1 restart |
| `delivery` | where a call may go and when it may be refused; health marks become right | 1 name, 2 urls, 1 call, 3 changes |
| `locks` | only a settings request stands in everyone's way; who asks for a lock gets it | 3 tasks, all 9 sections, without end |
| `rooms` | who is in a room; who hears it | 3 names, 1 room of at most 2, 1 change, 1 message, 2 changes of the registry |
| `admin_auth` | which password the console opens with; who changes it; how long a stream outlives its session | 2 passwords, 2 logins, 2 changes, 1 stream, a session of 3 and a recheck of 2, 7 seconds |
| `chat_log` | ids that stay unique; a thread that is shown whole; what is neither shown nor received | 3 messages, file and ring of 2, pages and buffer of 1, 2 restarts or 1 and a fault, 1 reader |
| `settings_waits` | violated: see below | 3 tasks, all 9 sections |

Two connections are a reconnection; a third repeats it. Two calls fill a queue of one and have the
other in `deliver`, or leave one with an old entry. One restart is enough for ids to repeat. Two
handlers overlap in every way; the third saves what a cancelled one left. A token used late takes
three calls: one makes the entry and mints the token, one presents it, one makes the name anew in
between. The second name is for humans alone (`Visitor`, a constraint of the model, and the theorems
have none): its tokens are what a stranger would try. Two keys are over the kept number of one, so
the cleanup runs, and four calls fill a window of limit 2 and come after its end. Four calls fill a
log of two lines, rotate it and fill it again, or overlap on it in threes; then the second to rename
takes what the first has just begun. Pages of one entry and three seconds give pages that end within
a second and between two. Four runs have a VIEW, which leaves out what no later step and no property
looks at: in `MCLogPages` a walk that is over, or one while calls met; in `MCRegistry` what an ended
call had asked for, and urls; in `MCTaskInbox` how a call or a cancel ended, and a line that is
neither in the log nor on its way; in `MCChatLog` the conversation and the id of a lost message,
what everybody received, and histories that excuse what is excused already. Without overlaps four
calls rotate once, so the run compares `AppendLog` with a log that keeps its lines through a
rotation and restarts; that a second rotation takes lines away, and leaves enough, needs five, which
is too much beside the pages: there TLC agreed with `LogSpec` on six calls without a reader, and
`LogRefines` is for any number. Three lines give a task two transitions, or evict a task of an inbox
of one and bring it back; an older and a newer task need two seconds. Calls do not read each other's
progress in `deliver`, so one is enough; three changes revoke, delete and replace its peer while it
and a probe are under way, and a second url tells the old entry from the new. A circle over two
locks needs a task on each and one that waits in between. Two logins and two changes put a change
between the verification and the re-hash of a login, and another after both; seven seconds are a
session and two rechecks. Of three messages two overlap while the third rotates the file or comes
after a restart; two restarts are enough for an id to be given again and met by its first holder,
and one restart shows what a fault does (`Troubles`). Three names fill a room and leave one to be
added; two changes of the registry remove a name and register it anew. Deadlock is checked in
`delivery` and `locks`, whose prober and tasks never stop; elsewhere calls, connections and handlers
are finite, so every behaviour stops.

**Fairness.** In `channel`, `CodeFairness`: once `deliver` has queued an envelope, and once a
cleanup has removed a slot, the rest runs without an await, so it happens; and a task whose oneshot
is filled is woken and reads it. `TimerFairness(r)`: the 600 s timer of the call fires in the end;
it is a premise of `EveryCallReturns`, not part of the specification, because `DisconnectReturns`
holds without it. Nothing is assumed of peers, of callers, or of a stream being noticed dead.
Without the timer only calls of the secret a cleanup took come back; that no more can be promised is
said in the next section. In `delivery` only the prober is fair: it is a task of its own, its
interval ticks for ever and its request ends after five seconds; `HealthConverges` starts when
registry, channels, urls and calls have come to rest. In `locks` a task that is not waiting goes on,
since a section awaits nothing but its second lock, and a lock that can be had is given to the head
of its queue, as tokio documents; that requests stop coming is not assumed.

## Where documents and code differ

* `settings_waits`: `settings_json` holds `Inner` for reading and awaits `admin_set`, which reads it
  again. If a handler has queued for writing in between, the second read waits behind it and it
  waits for the first: the registry is locked for everyone until the client of the settings request
  leaves. No other section does so (`OnlySettingsBlock`).

Others were met while modelling and have no run of their own; the models contain them, and the
properties say around them what does hold.

* A peer reconnects, then its old stream ends: `drop(name)` takes the slot of the *new* stream
  (`RemoveSlot`), and a call on the old one waits for the 600 s timer, where `channel.rs:330-332`
  says that callers fail immediately. `CleanupIsComplete` speaks of the secret a cleanup took: no
  call waits on it any more, and no entry of it stays.
* Of two overlapping saves one truncates the file the other renames, where `state.rs:768` says that
  a crash never truncates `state.json`. `StateIntact` holds while no two saves overlap.
* A legacy password that is changed while a login upgrades it comes back (`state.rs:970`), where
  `admin.rs:345-347` asks for the current password for any change. `PasswordIsChosen` names this one
  exception.
* A write that ends inside a character makes the whole file unreadable, where `admin.rs:476-477`
  says of `routing.jsonl` that corrupt tail lines are skipped, and `state.rs:1005-1009` of
  `chat.jsonl` that it has the same contract: `read_to_string` fails on what is not UTF-8, and the
  log reads as empty (`FaultCosts` counts the file). Previews end in an ellipsis (`state.rs:472`)
  and bubbles hold what people type.
* `may_manage` compares names (`peers.rs:397-402`), where its comment says that the caller token of
  an entry is its ONLY management credential (`peers.rs:390-396`): a token that was resolved before
  its entry was removed and the name registered anew manages the new entry. `OnlyOwnersManage` names
  this one exception (`seen`).
* Chat ids can repeat after a restart, where `state.rs:580` calls them monotonic: after a write that
  failed or was torn; after a message rotated the file while a higher id was in it or about to be;
  after a kill between a rotation and its write. `IdsSurvive` is conditional on none of the three.
* The console reads `ev.message` of a chat event (`Chat.tsx:160`) and `ev.entry` of a route event
  (`Logs.tsx`), as `sse.ts:11-13` types them, but `admin.rs:445-458` sends the record itself,
  without such a field. The console is not modelled.

Registering a name again with the same shared token is answered 409, since every registered entry
holds a caller token and no shared token manages such an entry (`MayManage` in `Registry`);
`docs/INTEGRATION.md:62` promises a refresh. A cancel changes the inbox and writes no line of the
task, so a restart shows it active again (`apart` in `TaskInbox`), where `tasks.rs:5-6` says that
the inbox survives restarts.

## What is proved

TLAPS checks every theorem, for any number of peers, connections, calls, handlers, kills, and any
queue depth and lengths, from the assumptions on the constants alone (`ConstantsAssumption`,
`PagesAssumption`, `LimiterAssumption`, `AuthAssumption`, `ChatAssumption`, `SectionsAssumption`:
numbers are numbers, caps are not 0, names that mean different things differ, and no thread waits
for the mutex longer than a window lasts). One theorem adds a hypothesis, named below. The inductive
invariants are defined in the component modules; TLC agreed with each of them on the bounds above
before it was proved, and the runs no longer spend time on what is proved.

Filters are defined in `Subsequences` by counting and not with `SelectSeq` and `SetToSortSeq`, whose
definitions are recursive: the k-th element of a filter is the one at the position with k - 1 others
before it. What a filter becomes when its sequence grows at the end or loses its head is then a
lemma about cardinalities (`SubsequenceProofs`), and no induction is needed.

*The channel.* `Invariant` proves `Spec => []Inv`; `TypeCorrect`, `AnswersAreOwn`,
`WaitersArePending`, `CleanupsAreComplete`, `LaggedAreUnsent`, `NothingDropped` and
`AcceptedAreDelivered` follow from it, and `Refinement` proves `Spec => CallSpec`. None of the
properties is inductive alone. That an answer is the caller's own rests on ids: unique among the
entries of a running process (`CurrentIdsDistinct`, which needs `IdsTaken`, every such id is below
`nextId`), and unique on a connection for ever (`IdsOfConnDistinct`), so that an old envelope with a
repeated id fails the comparison of secrets. That a cleanup is complete rests on `CapturedUnbound`
(a secret taken out of the map is bound nowhere again) and `CallPlaced` (a call inside `deliver`
still sees the slot it read, since it holds the lock). The refinement needs that an entry resolved
by `respond` is that of the envelope (`EntriesMade`); the answer counts for `ProxiedCall` when the
caller reads it (`handed`). `Inv`, `WaitingIsPending` and `LaggedIsUnsent` are proved and not run.

*The state file.* `Invariant` proves `Spec => []Inv`; `StateStaysIntact`, `AckedStaysDurable`,
`SavedOnlyGrows` and `TokensStay` follow. While no saves overlap (`Clean`), the handler that saves
is alone, its file is apart from `state.json`, is empty or equal to its snapshot, and the snapshot
has all that `state.json` has. `SavedGrows` is proved and not run: a step of `DurableState` that
keeps `orderly` never shrinks `durable`. `SameId` needs no such condition: every file that may be
renamed was truncated since the process started, so it has the identity in memory. `StateRefines`
proves `Spec => StoreSpec`: the rename is a `Save`, a restart from `state.json` a `Kill`, and
everything else of a save stutters, for `Clean` says that file and snapshot were made of what was in
memory.

*The limiter.* `LimiterInvariant` proves `LimiterSpec => []LimiterInv`; `LimiterTypeCorrect` (which
is not run), `WindowRolls` and `LimitHolds` follow. What the map holds of a key is the end of all
that was granted to it, and what is before that end is out of every window still to come
(`HeldIsTail`): a prune and a cleanup cut only there. A thread that decides late pushes the older
time that it read, and a later prune cuts that up to `Skew` seconds too early (`Slack`), hence the
shorter window of `LimitWithinSkew`.

*The password.* `AuthInvariant` proves `AuthSpec => []AuthInv`; `ChosenStays`, `KnowersChange` and
`StreamsEndSoon` follow. Nothing makes a credential legacy again, so as long as it is legacy it was
never changed (`LegacyIsFirst`); what a login read of it is either still true, or the login is
stale. For the streams, the check is at most a recheck older than the beginning of a wait, and a
wait is at most a recheck long (`StreamWaits`), and at the check there was a session
(`StreamHadSession`).

*The messenger.* `ChatInvariant` proves `ChatSpec => []ChatInv`; `IdsAreUnique` follows. A restart
counts on from the highest id in the file. What a rotation took away has a smaller id than a line
that is in the file or sure to get there (`TakenIsCovered`): the message that rotates writes next.
That the highest id exists is by well-founded induction on the numbers. `ReadInvariant` proves
`ChatSpec => []ReadInv`, from which `NothingIsMissed` and `ViewsAreWhole` follow. A reader has been
shown, has heard, has been refused (`left`), or has before it on the bus whatever was sent since it
subscribed. What it was shown is whole as long as messages come one after the other (`OnesTurn`),
since the ring then has all that the file has from the ring's oldest message on (`RingReachesBack`):
a page of the file and a poll of the ring meet.

*The registry.* `Invariant` proves `Spec => []Inv`; `NamesAreUnique`, `OwnersAlone`,
`MintersAreTold`, `SharedTokensLeaveOwned` and `AdmissionsAreDecided` follow. A token is resolved
long before it is used, so nothing true of the entry then can be relied on. What can be is what
never changes: a token was minted by a call for one name, and a call keeps what it asked for
(`ResolvedRight`, `IdleUnused`); and an entry keeps the token it has. So a handler that acts on the
name it resolved finds the entry it resolved (`SeenRight`), whose token it holds, or one that took
its place, the exception of `OnlyOwnersManage`. `MinterIsTold` needs `NamesUnique`: the read by name
finds the call's own entry, or, if that was replaced, another call minted.

*The routing log.* `Invariant` proves `Spec => []Inv`; `OverlapsExceed` and `RotationsAreDue`
follow. The length is read two system calls before the file is opened. `SeesFile` says that what a
call appending alone has seen is still true, `Alone` that nobody else is appending then, and
`Created` that a file about to be created is empty and has no name yet. `FaultsCost` counts: a torn
write loses its own line and spoils the next, or ruins a file, so lines that cannot be read, files
that will spoil one and, twice, files that are no text are together at most two for each fault
(`FaultsPay`). `RingInvariant` and `RingShowsLog` say that the ring is the end of the log up to the
last line told to it (`RingFollows`). They have the hypothesis `RingCap <= Cap`: the two files
together hold at least what the ring holds. The code does not enforce it; its defaults, 1000 entries
and 64 MB (`state.rs:9`, `config.rs:42`), keep it unless lines are 64 kB long. `LogRefines` proves
`Spec => LogSpec`: a write is an `Add`, for a call that has not written is nowhere in the files
(`LineIsNew`), and a rotation is a `Forget` of the older file that leaves the full one (`SeesFile`).
`ReadersLeaveTheLog` proves `LogsSpec => Spec`, so all of it holds with readers of any page size.
`PagesInvariant` proves `LogsSpec => []PagesInv`, and `WalksAreWhole` follows. As long as calls are
apart, whoever has yet to write has the latest time, so file and ring are in the order of time
(`LogInOrder`) and a page that is cut by time is a page of the newest lines: behind the cursor all
of what the walk began with and the file still gives was shown, but for a second that a page cut in
two (`ViewIsWhole`).

*The inbox.* `Invariant` proves `Spec => []Inv`; `InboxIsBounded` and `ActiveOutlive` follow. The
bound is an argument about cardinalities: an observation that makes the inbox overfull evicts as
much as it adds, also when cancels had put it over its cap, and only `CancelInserts` adds without
evicting; each time is counted in `excess`. `InboxFollows` proves `Spec => []InboxInv`, and
`InboxShowsLog` follows. A key that is not in `apart` (no line of it was lost) has at most one line
on its way to the inbox (`OneOnItsWay`), and its entry is what the other lines of the log make of it
(`ToldIsShown`): created by the first, in the state of the last, with every change of state between
in its history. A merge looks at the state of the entry, where the definition looks at the line
before: they agree because a history ends in the state of its task (`HistoriesEnd`). A restart
derives the inbox from the lines in the same way, one by one, so the same step of the proof serves
both.

*Delivery.* `Invariant` proves `Spec => []Inv`; `ContactsAreRegistered` and `RefusalsAreRight`
follow. The reads of `deliver` do not see one state of the registry. What can be said is that each
of them saw an entry which the name had since the call began: `SinceHasNow` (the history has the
present entry) makes each read true when it is made, and `UrlWasRead` keeps it.

*The locks.* `LocksInvariant` proves `LocksSpec => []LocksInv`; `StandstillsAreOfSettings` follows,
for any number of tasks. If nobody can move, every queue that is not empty has a head that is kept
out by a holder, and that holder waits itself. By `WaitsInOrder` it holds `Inner`, so nobody waits
for a ring; then it waits for `Inner`, which only the settings do. That a waiter is in the queue of
what it wants, once, and nobody else is (`QueuedWait`, `WaitersQueued`, `QueuedOnce`), survives the
handlers that leave from the middle.

*The rooms.* `Invariant` proves `Spec => []Inv`; `MembersAreInvited` and `GuestsOnly` follow. A copy
is taken from entries, which are current, or from a roster of which `MembersWereInvited` holds, and
a roster grows by such a copy (`CopiesAreCurrent`). A removal reaches every roster and every copy,
or makes the name an exception. That a room keeps to its cap is an argument about cardinalities
(`PartIsBounded`).

*Model-checked only.* Liveness: `EveryCallReturns`, `DisconnectReturns`, `HealthConverges` and
`EverySectionEnds` rest on fairness, and `ENABLED` is out of the prover's reach. So is the violation
of `NeverStandsStill`, which is an example and not a theorem.

## Plan

Done: the channel, the state file, the registry, the rate limiter, the routing log with its pages,
the inbox, delivery with the prober, the locks, the rooms, the password with its sessions and
streams, the messenger's history. Left, in this order:

1. One more abstract specification beside `ProxiedCall`, `DurableState` and `AppendLog`: a registry
   whose operations are atomic.
2. The console as a client of its events: what its live lists show when events arrive between a
   request and its answer.

## Not modelled

Header and token parsing, rendering, configuration and the route table are functions of one request
or of the start. The summaries of the admin API read the state of others at one moment and change
nothing. Typing signals change nothing either. The broadcasts of routes, peers and typing work as
that of chat does, which is in `ChatLog`. Loss of power is out of `StatePersist`: what the disk has
then depends on the file system.
