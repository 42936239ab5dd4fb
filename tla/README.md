# Verification of streamix

TLA+ models of the streamix services (`src/apps`) and of the parts of its web
client that keep state, the TLC runs that check them on small instances, and
TLAPS proofs about them for every value of their constants.  Line numbers below
refer to files under `src/`.

| Module | Models | Checked by | Proved in |
| --- | --- | --- | --- |
| `Semaphore` | what a bounded-concurrency gate promises (abstract) | `gate` | `AuthRoutesProofs` |
| `ArgonGate` | `svc-core/src/auth/gate.ts` | `gate` | `AuthRoutesProofs` |
| `AuthRoutes` | the throttle and the ceiling of `bff/src/routes/auth.ts` and `rate-limit.ts`, over `ArgonGate` | `gate` | `AuthRoutesProofs` |
| `RefreshSession` | `session.ts`, `token.ts`, `auth.ts`, `routes/auth.ts` of the BFF | `sessions`, `password_change` | `RefreshSessionProofs` |
| `Accounts` | `svc-core/src/auth/auth.service.ts` and `bff/src/routes/twitch.ts` over the table of users | `accounts` | `AccountsProofs` |
| `WebAuth` | the browser's side of a session: store, hydrator, interceptor, forms, cookie jar | `web_client` | `WebAuthProofs` |
| `ChatRooms` | admission, rooms and heartbeat of `bff/src/ws/chat.ts` | `chat_rooms` | `ChatRoomsProofs` |
| `Broadcast` | what a channel's chat promises a tab (abstract) | `chat_delivery` | `ChatDeliveryProofs` |
| `ChatDelivery` | a message from the sender's browser through `svc-chat`, Redis and the BFF's batches to every tab | `chat_delivery` | `ChatDeliveryProofs` |
| `LiveStream` | the poller of `svc-media/src/main.ts` and the live state in `svc-core/src/channel/channel.service.ts` | `live_stream` | `LiveStreamProofs` |
| `BrowserIngest` | `web/components/broadcast.tsx` against `svc-media/src/ingest.ts` | `browser_ingest` | `WebPagesProofs` |
| `Studio` | `web/app/studio/page.tsx` against the keys of `channel.service.ts` | `studio` | `WebPagesProofs` |
| `Viewing` | the watch page and player against svc-media's HLS proxy, routes and thumbnails | `viewing` | `WebPagesProofs` |
| `Landing` | the tearable curtain of the home page | `landing` | `WebPagesProofs` |

`MC*.tla` give the constants of a module their values for TLC, and its symmetry
sets and views where it has them; the `.cfg` files name the runs.  Definitions
whose comment begins with "Slip" are not part of any specification: each is a
plausible mistake in the definition that follows it, used to show that the
properties of the runs would notice it.

## 1. The system

streamix is a live-streaming site: a browser client, a BFF (backend for
frontend) that ends HTTP, RPC and WebSocket connections, and three internal
services, over Redis, Postgres and MediaMTX.

| Component | State it keeps | Operations | Talks to |
| --- | --- | --- | --- |
| BFF, sessions (`session.ts`, `token.ts`, `auth.ts`) | Redis: `refresh:{sid}`, `fam:{family}`, `usess:{user}`, `famrev:{family}`, `deny:fam:{family}`, `deny:jti:{jti}` | create, rotate, revoke, revoke all of a user; mint, verify and deny access tokens | Redis: `MULTI`, Lua, single commands |
| BFF, auth routes (`routes/auth.ts`, `routes/twitch.ts`) | `inflightAuth`, the state cookie | register, login, refresh, logout, change-password, Twitch flow | svc-core RPC, sessions, Twitch |
| BFF, rate limits (`rate-limit.ts`) | Redis windows, a local fallback map | `overLimit`, `overLimitAuth` | Redis |
| BFF, chat sockets and rooms (`ws/chat.ts`) | `totalSockets`, `userSocketCounts`, `rooms`, each room's sockets and subscriber, heartbeat intervals, `viewers:{channel}` in Redis | `handleChatWs`, `joinRoom`, `leaveRoom`, heartbeat | Redis pub/sub, svc-core, svc-chat |
| BFF, chat delivery (`ws/chat.ts`) | a room's queue and timer, `sendTimes`, a socket's buffered bytes | `enqueue`, `flush`, `fanout`, the send handler | sockets, svc-chat |
| svc-core, Argon2 gate (`auth/gate.ts`) | `running`, `waiters`, timers | `acquire`, `release` | Argon2 |
| svc-core, accounts (`auth/auth.service.ts`) | Postgres `users` | register, login, change password, OAuth upsert | Postgres, the gate |
| svc-core, channels (`channel/channel.service.ts`) | Postgres `channels`, `streams`; Redis `live:{channel}`, `ingest:{token}` | create, update, rotate key, issue token, start, stop, heartbeat, playback URL, listings | Postgres, Redis |
| svc-chat (`chat.service.ts`) | Redis `ban:*`, `slowmode:*`, `sm:*` | send, join, moderate | Redis pub/sub |
| svc-media, poller (`main.ts`) | `sessions`, `claiming`, `channelToPath`, intervals, reap timers | `pollPaths`, `onPublishReady`, `onPublishGone`, publish authentication | MediaMTX API, svc-core |
| svc-media, browser ingest (`ingest.ts`) | `liveConnections`, `activeChannels`, pre-authentication buffers, encoders | accept, validate, spawn, close | svc-core, ffmpeg |
| svc-media, HLS proxy and retention | thumbnails on disk, MediaMTX's cookie | proxy, capture, sweep, reap | MediaMTX, ffmpeg |
| Web, session (`lib/`, `auth-hydrator.tsx`, forms) | each tab's token, user and `ready`; the cookie jar | hydrate, renew and retry, log in and out, change the password | BFF |
| Web, studio and broadcasting (`studio/page.tsx`, `broadcast.tsx`) | the channel query, keys on screen; phase, capture, socket | create, rotate; start, stop, switch the camera | BFF, svc-media |
| Web, chat and watching (`chat.tsx`, `watch/`, `player.tsx`) | sockets, messages, the playback URL | connect, retry, send, show; poll, load, retry | BFF, svc-media |
| Web, landing (`tearable.ts`, `use-tearable.ts`, `landing/`) | the sheet, the hook's timers and loops, "hidden for today" | tear, collapse, reveal, dismiss | |

What is hard in it:

- *Concurrency between awaits.*  Every handler, on the server and in the browser,
  is a sequence of turns; what it read before an `await` may be stale after it,
  and close events, timers and effect cleanups fire in between.  The room map, the
  socket counts, the poller, the ingest guard, the broadcast panel and the hook of
  the curtain live with this.
- *Several writers of one state.*  Rotation, logout and forced logout touch the
  same families; heartbeats, claims and stops the same live key; all tabs of a
  browser share one cookie; two streams of a channel share one route and one
  thumbnail.
- *Answers out of order.*  What a tab asked before a login, a rotation or a token
  change is answered after it; a close arrives when the next session has begun.
- *Time.*  Sliding and absolute expiry, a grace window, markers that must outlive
  what they forbid, TTLs that end streams nobody releases, URLs that expire, batch
  windows and slow-mode periods.
- *Failure.*  Redis runs without persistence and evicts (`allkeys-lru`,
  `infra/fly/redis.toml:11`); an outage is survived by failing open in some places
  and closed in others; svc-media keeps its sessions in memory only; devices,
  links, encoders and answers get lost.

What makes each component correct: a permit is never lost, duplicated or
overtaken, and a waiter is answered (gate); limits that hold through an outage and
a ceiling that gives back what it takes (routes); one live successor per family,
no resurrection, tokens that die with their family, an absolute cap, a complete
index (sessions); nobody in another's account, and owners who get into their own
(accounts); a client that is not taken for a thief, ends what it logs out of, and
knows where it stands (web session); ceilings that hold, a joined socket that is
served, a subscription that is owned, an exact viewer count (rooms); messages in
order, never twice, and delivered to whoever keeps up, a slow mode that charges
for messages only (chat); one session per channel that is listed while it lasts,
and a live state that heals (live streams); one encoder per channel, a panel that
tells the truth, slots and guards that come back (ingest); keys that lead to their
owner's channels and work when shown (studio); a route to the running stream, a
fed player, a thumbnail that follows the stream (viewing); a form that appears
when the cloth falls, and does appear (landing).

## 2. The plan

Done: the fourteen modules above, with the refinements `ArgonGate` of `Semaphore`
and `ChatDelivery` of `Broadcast`, the composition of the gate with its routes, and
the proofs named in section 6: every safety property of every passing run.

To come, most important first:

1. The cookie handshake of `mtxFetch` (`hls-server.ts:47-82`) under two requests,
   composed with `Viewing`.
2. `ChatRooms` with two channels, for the room ceiling (`ws/chat.ts:272`) and the
   creation windows.
3. svc-chat's join stream, `updateChannel` and the listings.

Modules with theorems use no recursive operator; constants carry named
assumptions; each action is one operation or one turn of a handler.

## 3. The modules

### ArgonGate and Semaphore

A call of `gate(fn)` is in one of six stages.  `acquire()` runs to its end in the
caller's turn, so `AcquireFree`, `AcquireRefused` and `AcquireWait` are its three
branches (gate.ts:31-48).  The continuation of `await acquire()` (`Begin`) and
the `finally` after `await fn()` (`Finish`, which is `release()`: `HandOver` or
`PutBack`) are turns of their own, and `QueueTimeout` is the timer's callback,
with `indexOf` and `splice` as `Without`.  `running`, `waiters` and the armed
timers are the code's variables.  Between `HandOver` and `Begin` the waiter's
promise is resolved and its continuation has not run: the stage "admitted".
`fn` throwing and returning are one action, because the `finally` does the same.

`Semaphore` states the promise (gate.ts:4-8) without counters and timers:
holders, a first-come first-served line, a permit that goes from its holder to
the head of the line, and no overtaking.  The refinement maps holders to the
calls admitted or working, and the line to `waiters`.

### AuthRoutes

Extends `ArgonGate`: the gate's calls are the requests that hash or verify.  A
login or a registration first passes `overLimitAuth` and the in-flight ceiling
(`TooMany`, `AuthBusy`, `LetThrough`), a password change neither (`ChangeAsked`);
svc-core turns it down early (`Rejected`) or takes it to the gate (`EnterGate`), a
password change twice (`EnterAgain`), and the answer gives back the place
(`Answer`).  `overLimitAuth` has three ways to go (`CountInRedis`, `CountTwice`,
`CountLocally`), since Redis may fail before the `INCR`, between it and the
`EXPIRE`, or before the answer.  The verdicts of svc-core are arbitrary.  `burst`
is a history variable: the attempts let through since either window ended.

### RefreshSession

One user; users share no key.  Every Redis command, `MULTI` block and Lua script
is one step, and every request of the auth routes is split where it awaits one.

| Code | Action |
| --- | --- |
| `POST /auth/login` | `LoginVerified`, `LoginSession`, `MintAccess` |
| OAuth callback | `OauthSession` (no token is minted) |
| `POST /auth/refresh` | `Refresh` (the four outcomes of `ROTATE_LUA`), `MintAccess` |
| `POST /auth/logout` | `LogoutRead`, `LogoutRevoke`, `DenyPresented` |
| `POST /auth/change-password` | `ChangeAuthorized`, `ChangePassword`, `ListFamilies`, `KillOne`, `DropIndex` or `KillAborted`, `DenyPresented` |
| Redis | `Tick` (expiry), `Outage`, `Recover`, `Lose` (eviction of one key, or a restart that empties it) |

Keys carry the time they expire and exist while `now` is earlier.  A request may
present any sid or token ever handed out, which covers a cookie replayed late, by
a second tab, after a lost answer, or resent by the Redis client.  `issued`,
`lineage`, `revokedAt` and `forgotten` are history: they guard nothing the code
does not (UUIDs are fresh) and only serve the properties.  `LoginSession` during
an outage mints a token without a family, as the code does.  Durations are
constants; the model's clock has one unit for all of them, and `deny:fam`'s and
`famrev`'s life is counted from the revocation as the scripts count it.

### Accounts

The table of users under `register`, `login` and `upsertOauthUser`, and the Twitch
flow split at its awaits: `StartFlow`, the grant at Twitch (`Grant`, external),
`Callback`, `Exchange`, `SelectIdentity`, `InsertIdentity`, `OauthSession`, or
`CallbackRefused` and `ExchangeFailed`.  An address is a mailbox and whether it is
written otherwise than `emailSchema` writes it: registrations are canonical,
`upsertOauthUser` stores what Twitch says, and `login` looks for the canonical form
first and the typed one then.  `typed` is history: the mailbox and the password a
browser last logged in with.  `Clash` is what the three unique indexes forbid.
A violated index is an internal error: `isUniqueViolation` (`errors.ts:21`) looks
for a code drizzle 0.45 wraps (`작업계획서-drizzle-unique-회귀.md:8-30`), so the
second `INSERT` of `upsertOauthUser` and the friendly errors are never reached; the
model follows the code that runs.

### WebAuth

Tabs with a store each, one cookie jar, and the BFF as far as a browser can tell it:
where each family stands, its newest sid, and the oldest that is still in grace.  A
call is sent with the cookie and token of the moment (`Fresh`), served later
(`ServeRefresh`: `NoCookie`, `NoFamily`, `Rotates`, `Replays`, `Alarm`;
`ServeQuery`, `ServeLogin`, `ServeLogout`, `ServeChange`) and delivered later still
(`Restored`, `QueryAnswered`, `Renewed`, `LoggedIn`, `LoggedOut`,
`PasswordChanged`), which is when the jar takes its `Set-Cookie`.  Each route has a
second action for the case that Redis is away while it is served: a refresh is refused
(`RefreshOutage`), a family's end is not seen (`QueryOutage`), a login gets a token
without a family and no cookie (`LoginOutage`, the token `Bare`), and a logout or a
password change is answered as if it had ended what lives on (`LogoutOutage`,
`ChangeOutage`; `session.ts:191-193, 203-205`).  The other faults are a lost call and a
token that expires.  `late`, `displaced`, `spared`, `out` and `rejected` are history and
name the code's own races and failures, each with the property it limits.

### ChatRooms

`handleChatWs` is split at its awaits (the phases of `conn`): the first frame,
`verifyAccessToken`, `channelExists`, `coreAuth.me`, `SUBSCRIBE`, `INCR`.
`on` is the set of close listeners registered on a socket.  `Closed` is the close
event: it runs the listeners registered so far, in one turn, and empties the set;
`Listen` registers one and does nothing on a socket whose close event is past,
because Node replays no event.  That is the whole of two of the races below.
`leaveRoom` begins inside `Closed` (`BeginLeave`) and is split at its own awaits,
`DECR` (`LeaveCounted`) and `UNSUBSCRIBE` (`LeaveUnsubscribed`).  Room objects
have identities, since `leaveRoom` and `joinRoom` hold on to one while the map may
come to hold another.  A socket that is closed and done may be used for another
connection.  The verdicts of the token check, the room-creation window and
`channelExists` (cached or not) are arbitrary.

The code has five races, and the model has them too: somebody joins a room being
torn down; a teardown deletes a room made since; a failed subscription deletes a
room that others have joined; a socket closes while it is joining; a socket closes
while its token is verified.  `raced` is a history variable that names the channels
and users they have touched; the properties say that there is no other way to lose a
socket, a subscription, a place or a count.

### ChatDelivery and Broadcast

A message is its place in the order of publication.  The browser's `Chat` component
(`Connect`, `NewToken`, `Unmount`, `Opened`, `Closed`, `Read`, `Send`), the BFF's
room (`Admit`, `ServerClosed`, `Unsubscribed`, `Receive` for `enqueue`, `WindowEnds`
for `flush`, `Fanout` with its buffer limit, `HandleSend` with its window,
`ReportDrops`) and svc-chat, one step to each Redis command (`CheckBan`, `ReadSlow`,
`TakeSlot`, `PublishSend`, `SendFails`; `Ban`, `Unban`, `SetSlowmode`).  A socket is
seen from both ends, and frames wait in between; a publication may be carried out
twice, since ioredis resends a command whose answer it lost.  Admission is one step
here and many in `ChatRooms`; what the two share is that a room being torn down can
be joined and that its timer is then cleared.

`Broadcast` says what a tab may rely on (`ws/chat.ts:67-69, 145-147`): whatever it is
shown, it is shown in the order of publication and never twice, across reconnections
and token changes.  The refinement maps `heard` to the messages the tab has appended.

### LiveStream

One channel and the paths `live/<key>` an encoder may publish it under (its stream
key, ingest tokens).  svc-media's poller reads the list of ready paths
(`PollRead`) and applies it later (`PollApply`: `onPublishReady` up to its RPC for
new paths, `onPublishGone` for vanished ones); polls may overlap and be applied in
any order.  A claim is `startStream`, split at the resolved key with `SET NX`
(`StartClaim`) and the `INSERT` (`StartInsert`); its answer is `StartOk` or
`StartRefused`, the second with `kickPublisher`, which may or may not find
somebody to close.  A release is `stopStream`, split at its `UPDATE` and its
`DEL`; a heartbeat is a `SET` with the TTL.  MediaMTX, the encoder and the
broadcaster's will are external, bounded by how `main.ts` uses them.
`MediaRestart` forgets svc-media's maps and leaves the calls core has received.

The unit of time is the heartbeat period (30 s).  `Tick` waits for calls core has
begun to serve and for heartbeats that are due: an RPC that core has started on takes
less than a period.  Lists read by polls and claims not yet served may be older.

### BrowserIngest

A panel is a mounted `BroadcastPanel`, a socket one session seen from both ends with
the ffmpeg it feeds.  `start()` is split at the device (`Start`, `Captured` or
`Denied`) and at its calls (`Connect` or `StartFails`), after which it runs to its end
in one turn; `Stop` is its `stop`, which runs once, called by the button, a hidden page,
the track's end (`TrackEnds`), the camera switch (`SwitchCamera`, which starts again in
the same turn), the effect's cleanup (`Unmount`) or the socket's close (`CloseSeen`).
svc-media accepts or refuses (`Accept`, `Refuse`), buffers chunks during the key check
and writes them to ffmpeg then (`Chunk`, `Ingest`, `KeyRefused`), and lets go in the
close handler (`CloseHeard`).  Each side learns of a close in a step of its own, and
svc-media may never learn of it: a link that breaks in silence (`LinkLost`, `silent`)
tells it nothing, because it sends no data and no ping over it and sets no timeout.  What
MediaMTX does to a publisher (`LiveStream`) shows as ffmpeg exiting (`EncoderDies`).

### Studio

Tabs with the channel query (`GetMyChannel`, `Show`), the form and the panel, calls split
at core and at the tab that hears the answer, which may be lost or come to a page that
was reloaded.  A query that fails leaves what was there, but a page that was loading
then shows the form (`QueryFails`, "failed").  The panel shows the key in its state for as
long as it has one, and the prefix the query says only then (`Displayed`).  A channel is known by its slug and a key by its place in the order of
generation; `rows` holds the key whose hash is stored, `Resolved` is
`resolveChannelId`.  `rotateStreamKey` rotates all channels of its owner, and
`getMyChannel` returns any one of them, as the statements do.

### Viewing

The chain from the live key to the video for one viewer: svc-media's sessions with the
`channelToPath` entry (`Found`, `Claimed`, `Rejected`, `Gone`), the page's two queries
(`PollChannel`, `GetUrl`), which may fail through their retries (`PollFails`,
`GetUrlFails`: the first is asked again, the second is not), and the player (`Ask`), which
gets what the proxy says (`Served`): hls.js, which asks again after every fatal error, or
the browser's own, which may give up (`native`, `stuck`).  Thumbnails are the captures (`Shoot`, `Shot`, `Write`), the timer of the first
one, which nobody clears (`shots`), the reap 8 s after a session (`Reap`) and the sweep
(`Sweep`).  `LiveStream` has claims and releases in detail; here each is one step of
core.  A published path takes a while to get a playlist (`Warms`).

### Landing

The sheet is a graph of points and links; what the physics does to it is arbitrary
(`Tear`, `Drop`), what the code decides from it is not: `Attached` is the flood fill from
the pinned points, `LooseEnough` the ratio that makes the rest fall, `Sliced` the cut of the
Skip button.  The hook's effect runs again with every render of its parent
(`ListChanges`), because it gets a new callback each time; each run has an image, a loop
and two timers, which its cleanup stops (`Cleaned`).  `stray` is the timer nobody can
clear, `late` names the runs whose image loaded after their cleanup.

## 4. The runs

| Run | Instance | States | Shows |
| --- | --- | --- | --- |
| `gate` | the line: 6 calls, 2 permits, queue of 3; the routes: 3 requests, 1 permit, queue of 1, ceiling 2, limit 1, fair | 268 thousand | `Semaphore` implemented: first come, first served, no permit lost or doubled; limits hold; no place leaks; every request is answered |
| `sessions` | 3 sids, 2 families, 1 token, 2 requests, sliding 3, cap 3, grace 1, token life 1, one fault | 708 thousand | one successor, lasting revocations, tokens that die, harmless retries, a complete index, the cap |
| `password_change` | the same ids, sliding and cap 2, no fault | | a counterexample: section 5 |
| `accounts` | 2 browsers, 2 passwords, 1 identity, 1 mailbox, 2 flows, 2 callbacks at once, one fault, fair | 422 thousand | only owners get in; an identity gets in again and again |
| `web_client` | 2 tabs (one a studio), 2 logins, 2 forms, one mishap, fair | 217 thousand | no false alarm, logouts end but for displaced and spared logins, refused tokens go, tabs become ready |
| `chat_rooms` | 2 reusable sockets, 2 users, 1 channel, 2 room objects, 2 in all, 1 per user, one fault, fair | 249 thousand | ceilings, joined sockets served, subscriptions owned, viewers exact, vanished peers closed |
| `chat_delivery` | 1 tab, 2 sockets, 1 send call, burst 1, buffer 1, 2 messages, one event, fair | 456 thousand | `Broadcast` implemented; truthful input; earned slots; messages arrive |
| `live_stream` | 2 paths, TTL 2, 2 polls in flight, one fault, fair | 362 thousand | one session, and it is listed; ghosts fade, broadcasters return |
| `browser_ingest` | a phone and a desktop, 2 sockets, 2 slots, buffer 1, one event, fair | 370 thousand | a truthful panel, one encoder, everything released but what silent links hold, starts that settle |
| `studio` | 2 users, 2 tabs, 2 slugs, 2 keys, one event, fair | 199 thousand | keys resolve to their owner and work; panels come to show what works unless overtaken |
| `viewing` | 2 paths, 1 reap timer, one fault, fair | 420 thousand | the route, the watcher and the thumbnail follow the stream |
| `landing` | 2 x 2 points, ratio 7/20, 2 runs of the effect, fair | 246 thousand | the form is earned, and the curtain opens |

**Bounds.**  `gate` runs two gates that have nothing to do with each other, one of which
rests while the other moves.  In the line two permits are held, three calls wait in line and a sixth is
refused: a hand-over to the wrong waiter, a timeout that takes the wrong one out of the
middle, and a newcomer that overtakes all show.  Behind the routes three requests make a hand-over, a full queue, a refusal and a
timeout while a newcomer arrives, and two places under the ceiling can both be taken
while the third asks.  In `sessions` three sids are the shortest chain in which a spent
sid's successor is itself spent, two families let a revocation hit the wrong one, two
requests are enough for each pairwise race (the scripts are atomic, so a third request
only repeats one), and one token lets the second of two mints wait, which only delays
it.  A cap of three with a grace window of one is the least at which a successor made
late in a session could outlive its family's cap.  In `chat_rooms` two room objects let a
new room meet an old teardown, and a socket that has closed connects again, so that the
two stand for any number one after another; with as many places as sockets the instance's
ceiling never refuses there, and its bound is the theorem `PlacesBounded`'s.  In `chat_delivery` two sockets are the old
and the new one of a reconnection, two messages one to open a batch window and one to
wait in it, and one event is a token change, an unmount, a moderation or a failure.  In
`live_stream` two polls in flight is the first overlap and a third would be applied like
the second; two periods of TTL let a heartbeat come just before and just after an
expiry.  In `browser_ingest` two sockets let a session start while the last one is still
closing.  In `viewing` one reap timer runs at a time: two sessions that end within 8 s are
not seen.  In `accounts` two passwords make a wrong one, and beside the mailbox there
is the made-up address of the identity, so that a login can find a wrong row.  `MaxEvents`, `MaxFaults`, `MaxMishaps`, `MaxRare` bound failures and rare events;
`MaxForms`, `MaxKeys`, `MaxSaid`, `MaxRuns`, `MaxTimers` bound what would else grow.  The
properties of a run hold with that many, and those whose statement begins with
`faults = 0`, `rare = 0` or `~ failed`, or names `forgotten`, say what they need.
`RevokedStaysDead` holds with one fault; two could break it (the family set evicted
before the revocation, so that a sid survives it, and `famrev` evicted after); the theorem
states the exact condition, that `famrev` is not lost.

**Views and symmetry.**  `RefreshSession` has an unbounded clock; `Shifted`
identifies states that differ by a shift of the clock or in what has expired.
It keeps, for each key, what is left of its life, and for each age the part that
guards and properties compare (capped just beyond the largest constant it is
compared with), so states it identifies have the same enabled actions and the
same successors up to the view; `MaxTime` is never the limit.  The action
property `CapHolds` reads `now` only in differences the view keeps.  `ChatRooms`'
`Judged` drops the dead fields of closed sockets and the count of a channel a race has
touched, `LiveStream`'s `Judged` the rows once something has failed, `Accounts`' `Live`
what is known of a flow that no cookie and no handler names, and `typed`, which
`OwnersOnly` reads only in the step that writes it: nothing else reads these, and no
property tells them apart, so liveness under the view is liveness without it.  The
symmetry set of `sessions` permutes only ids that no action distinguishes; no run with
liveness uses one.

**Fairness.**  What the scheduling of Node and of a browser gives: awaited calls are
answered (Redis commands fail after `maxRetriesPerRequest`, RPCs answer or fail),
resolved awaits continue, timers and intervals fire, a close ends at the side
that has started it (`ws` destroys the socket after its close timeout) and at the other as
long as the link carries it, images load or fail.  svc-media is not assumed to hear of a
link that broke in silence (`CloseDue`), nor the browser's own player to ask again.  Nothing forces
a user or a peer to connect, send, click, publish or close, with two exceptions a
property needs and names: `LiveStream` lets the encoder do what the broadcaster wants
(`BroadcastersReturn` is about one who keeps trying), and `Accounts` lets the owner of an
identity keep starting flows, granting them and coming back (`IdentityGetsIn` is about
such an owner).  Strong fairness stands where an action is disabled again and again by
what it must outlast: the poller while MediaMTX comes and goes, an encoder that is
kicked, a start that waits for one of the model's sockets, captures while streams come
and go, and time.

**Deadlock** is checked in `gate`.  The other models may stop: pools of ids
are used up, or nothing has to happen.

**Type invariants.**  Each module has a `TypeOK`, or one under its own name where
several modules are extended together, that documents its variables.  All but
those of the abstract `Semaphore` and `Broadcast` are proved; all were checked with TLC on
the instances above, and no run lists them.

## 5. What the runs found

`password_change` (`session.ts:199`): `revokeUser` reads the user's families,
revokes them and deletes the index.  A login that verified the old password
before the change and creates its session after the read keeps a live session,
against the comment at `routes/auth.ts:155-158`.

Other behaviours of the code that a reader of the properties should know are stated there
as exceptions, so that the property says that nothing else goes wrong:

| Where | What happens | Property that names it |
| --- | --- | --- |
| `ws/chat.ts:262-263` | a socket that closes while its token is verified stays counted for its user (the comment at 258-259 says it cannot) | `CeilingsHold` |
| `ws/chat.ts:201` | a teardown deletes a room made since, and the channel gets a second subscription (77-78 says one) | `SubscriptionsOwned` |
| `ws/chat.ts:196-202, 309` | a joiner of a dying room is unserved; a socket that closed while joining stays counted | `JoinedAreServed`, `ViewersExact` |
| `chat.tsx:31-32` | after a token change the old socket's close disables the input of the new one until its next "ready" | `InputTruthful` |
| `auth.service.ts:148-156` | an identity whose address a local account owns can never get in (149 says the accounts are kept distinct) | `IdentityGetsIn` |
| `channel.service.ts:252` | after a restart of svc-media the row of a stream that ended meanwhile stays "live" (`작업계획서.md:263` says it is ended); the key fades | `GhostsFade` |
| `main.ts:138` | the end of a session that overlaps its successor removes the successor's route | `RouteServes` |
| `player.tsx:27-31` | a player whose URL has expired retries it for ever while the channel stays live | `WatchersAreFed` |
| `broadcast.tsx:283` | a track that ends before its listener is attached is not noticed | `StartSettles` |
| `session.ts:136-144` (BFF), `lib/connect.ts:18` | a late answer puts an older sid back into the jar after a grace window, and the family is revoked as stolen | `NoFalseAlarm` |
| `session.ts:191-193, 203-205` (BFF) | a logout or password change served while Redis is away is answered 204, and the logins live on | `LogoutEnds` |
| `ingest.ts:172-176` | a link that breaks in silence keeps the channel's guard, a slot and ffmpeg; its owner's next start is refused (4409) | `AllReleased` |
| `studio/page.tsx:118, 179-204` | a panel that holds a key shows it until the page is left, although another tab's rotation, or one whose answer was lost, has replaced it | `PrefixConverges` |
| `studio/page.tsx:287-307` | a first query that fails shows the creation form to the owner of a channel, until a later poll | `PrefixConverges` |
| `watch/[slug]/page.tsx:20-24` | a playback query that fails through its retries is not made again while the channel stays live | `WatchersAreFed` |
| `player.tsx:17-20` | the browser's own player is given the URL once and nobody tells it to ask again | `WatchersAreFed` |
| `auth-hydrator.tsx:18` | a first refresh that is never answered leaves the tab without `ready` | `ReadyIfAnswered` |
| `use-tearable.ts:92, 152`; `page.tsx:24` | re-runs replace a torn sheet; an image handler and a timer outlive their run | `RevealEarned`, `CurtainOpens` |

## 6. What is proved

For every value of the constants that satisfies the named assumptions.

`AuthRoutesProofs`, on the gate (`CallsFinite`, `GateBounds`): `TypeCorrect`,
`PermitsNeverLeak`, `PermitsNeverIdle`, `WaitersNeverForgotten` and
`GateIsSemaphore`, which says of every gate what `LineIsSemaphore` says of the run's.
Neither the count of permits nor the absence of idle ones is inductive alone: that a hand-over keeps the count right needs the queue's head to
be a call that really waits, once, which is `WaitersTracked`; that the timeout
leaves no permit idle needs the count.  The inductive invariant is the
conjunction of all four.  The refinement then takes each action to an action of
`Semaphore` or to a stutter (`Begin`, `AcquireRefused`).

The same module, on the routes (also `RouteBounds`, `Routes`): every step of `AuthRoutes` is a step of
the gate or leaves it alone (`RoutesUseTheGate`), so the gate's theorems hold under the
routes (`RoutePermits`, `RouteWaiters`, `RoutesSeeASemaphore`).  `PlacesNeverLeak` counts the set of
requests that hold a place through each step that adds or removes one (`PlaceTaken`,
`PlaceReturned`).  `NeverUnthrottled` needs `BurstCovered`: the attempts let through are at
most the capped counts of the two windows together, so a window that is past its limit, or
whose count was taken without an answer, can only make the bound looser, and an end of
either window starts the burst anew.

`RefreshSessionProofs` (`Durations`, `NoneIsNoId`, `NoneIsNoRecord`,
`LossKinds`, `BoundsAreNat`): the many actions change the session store in five
ways only (`StoreStep`: nothing, `CreateSession`, `RevokeFamily`, `Succeed`,
forgetting keys), so each invariant of the store is shown once for each way.  The
inductive invariant `SessionInvariant` is

- `TypeOK`;
- `Grounded`, `GroundedRequests`: a stored sid was issued, and every family named
  in the store or by a request was begun.  Without them a fresh family could
  already be revoked, or a fresh sid already stored;
- `OneUnspent`: `OneLiveSid` for stored keys, the clock left out, so that a key
  that comes to expire changes nothing;
- `Marked`: a family that was revoked and whose marker is not lost has a marker
  that lasts one token life from the revocation;
- `Aged`: a stored sid's birth is its family's.

From it follow `OneSuccessor`, `RevocationReachesTokens` and `CapEnforced` (the
action property: only `Refresh` takes a request from idle to mint, and it does so
within the cap, or within the grace of a sid spent within it).  `NoResurrection`
adds `Guarded`, no sid outlives the `famrev` of its revoked family, under the
assumption that Redis does not lose `famrev` keys; any other loss, outage or
restart is allowed, any number of times.

`GraceCostsNothing` (`GraceHarmless`) and `IndexIsComplete` (`IndexComplete`) need
`CalmInvariant` as well.  While Redis loses nothing, a family's set lists its own sids
only (`MembersOwn`); no sid outlives the marker of its revoked family (`Outlived`), so a
marker that expires leaves nothing to revive; and the successor of a spent sid lasts as
long as the spent one (`Followed`), which is why a retry within the grace finds it.  Until
the first force-logout the index also lists every sid that can be rotated and expires
no sooner (`Indexed`); `Counted` ties the force-logouts to the password changes.

The assumption `CapCoversWindow` (env.ts:79-81 refuses to start otherwise) says
which configurations the runs may use; the proofs do not need it.

`LiveStreamProofs` (`PathsFinite`, `TtlOutlivesBeat`, `Bounds`): `TypeCorrect`,
`OneSession` and `SessionListed`.  One session at a time is a fact about core's key
as much as about svc-media's map, so the invariant `Undisturbed` follows the key
from the claim to the release: the paths it is granted to and the sessions are one
path at most (`OneOwner`), which holds the key and is not being released
(`OwnerHolds`); at most one release is under way and the key is there until it ends
(`OneRelease`), so a claim finds the key free only when nobody owns it; after a
session's heartbeat the key has a period to spare (`KeyLasts`), so no `Tick` takes
it away; a session has a row (`RowLasts`).  It holds until something fails, and a
failure is never forgotten (`FaultsGrow`): each step is one of the lemmas
`PollStep`, `HearStep`, `ClaimStep`, `StopStep`, `BeatStep`, `TickStep`.

`AccountsProofs` (`NoneIsNobody`, `FaultBound`): `AccountsTyped` and `OnlyOwners`
(`OwnersOnly`).  The callback decides at its `SELECT` whose row it serves and opens the
session turns later, so the invariant `OwnersInvariant` says what stays true in between:
a cookie names a flow made for its browser (`CookiesOwned`); a handler at work serves the
browser its flow was made for, and somebody granted that flow (`CallbacksOwned`); the row
it chose is its identity's (`Chosen`); and rows with an identity have no password
(`RowsApart`), so no log-in reaches them.  A log-in is let in by the row it looked up and the
password it verified, and both are what `typed` says the browser presented.

`WebAuthProofs` (`StudiosAreTabs`, `BoundsAreNat`, `NoneIsNothing`): `WebTyped`,
`NoSelfInflictedTheft` (`NoFalseAlarm`) and `LogoutIsFinal` (`LogoutEnds`).  Both
properties are about the jar, and the jar takes what answers bring, in any order; so the
invariant `WebInvariant` speaks of the calls under way.  What an answer says was true when
it was given and bounds what can be true when it is delivered (`AnswerSound`); a login's
family is named by its answer alone until that is delivered (`LoginsApart`); every sid the
browser asks with, or will, is one the BFF still honours, unless the browser lagged
(`GraceKept`); a live login is in the jar or on its way there, unless its cookie was
replaced or an outage spared it (`SessionHeld`).

`ChatRoomsProofs` (`SocketsFinite`, `Caps`, `NoneIsNoRoom`, `Populated`): `ChatTyped`,
`PlacesBounded` (`CeilingsHold`), `MembersServed` (`JoinedAreServed`),
`NoStraySubscription` (`SubscriptionsOwned`) and `ViewersCounted` (`ViewersExact`).  The
listeners registered on a socket follow from its phase (`SocketSound`), so the counts are
the sizes of sets of sockets (`PlacesCounted`; a user's count is exact until a race adds
to it).  A Room object in use belongs to its channel and one being subscribed to one
handler (`RoomsOwned`); on a channel no race has disturbed, a socket that joins stays in
the room while it awaits, and a room is torn down empty (`Undisturbed`).  The viewer
count is followed through the same steps: every `INCR` has a socket that will be
subtracted.

`ChatDeliveryProofs` (`Bounds`, `Populated`, `NoneIsNobody`): `DeliveryTyped`,
`InputIsTruthful` (`InputTruthful`), `SlotsEarned` (`SlotEarned`) and
`DeliveryIsBroadcast`.  That a tab shows messages in order and none twice is a fact about
everything that lies between publication and its list (`OrderKept`): what it shows comes
before the frames on their way, these before the window's queue, and that before the wire.
It needs that a tab has one live socket at most, which its `wsRef` names (`EndsKept`);
with two, a message could arrive by either.  Each action is quiet for the order, or
publishes, fans out, queues or reads, and each kind has its lemma.  In the refinement
`Read` is `Hear`, the publications are `Say`, and all other steps stutter.

`WebPagesProofs` extends four models, whose variables and specifications are named apart
(`Spec`, `ViewingSpec`, `CurtainSpec`, `StudioSpec`), and proves about each by itself:

- `BrowserIngest` (`NoneIsNone`, `PanelKinds`, `Limits`): `IngestTyped`,
  `PanelsTruthful` (`PanelTruthful`), `OnlyIngest` (`OneIngest`) and `NoSlotLeaks`.
  Browser and server learn of a close at different times, so the invariant has a part for
  each: what a panel shows, awaits, captures and can stop agree (`PanelsAgree`), and its
  session is a live socket of its own, its only one (`SessionsOwned`); one connection holds
  the channel's guard until its close handler runs (`GuardHeld`), chunks that came during
  the key check are written first (`HeaderFirst`), and the slots in use are the open
  connections (`SlotsExact`).
- `Viewing` (`BoundsAreNat`): `ViewingTyped`, `RouteLeads` (`RouteServes`) and
  `OneStreamServed`.  The end of any session takes the channel's entry with it, so the
  entry is right only if no other session is left; `Gathered` adds to the property that,
  while no claim was made beside a session, there is one session at most.
  `OneStreamServed` is why such claims need a failure: until one happens a session's live
  key is there (`Calm`), and core refuses every other path.
- `Landing` (`SomeRuns`): `CurtainTyped`, `OneRunTicks` and `FormIsEarned`
  (`RevealEarned`).  The sheet is shared by all runs of the effect, so what a timer finds
  falling must be what its run let fall.  The invariant `CurtainInvariant`: runs come in
  turn, each cleaned up before the next begins (`RunsInTurn`), and the first only with the
  curtain (`GateOpens`); unless an image came late, what ticks belongs to the last run
  (`OneTicks`), and a fallback timer is set only while the sheet falls (`FallsEarned`): a
  run that replaces the sheet finds every other timer cleared.
- `Studio` (`NoChannelIsNone`, `Bounds`): `StudioTyped` and `KeysLeadHome`
  (`KeysResolve`).  The books of core: a row's key was generated for its owner (`Keyed`),
  a token is for a channel of its user (`TokensHome`), nobody has a key and no channel
  (`KeysOwned`), and an only channel carries its owner's newest key (`Newest`).  A tab's
  own: its keys were generated for it (`Kept`), its panel is of its user's channel
  (`Paned`), and as long as nothing was lost the newest key, if it was generated for this
  tab, is on its way, shown, or kept for the panel (`InHand`).  `KeysOwned` is needed when
  a first channel is created: a tab that held an older key could show it beside the new
  channel.

Only model-checked: all liveness, since fairness and ENABLED are outside what the proof
system handles.  These are `RequestsAnswered`, `IdentityGetsIn`, `RefusedTokenGoes`,
`ReadyIfAnswered`, `VanishedReaped`, `MessagesArrive`, `GhostsFade`,
`BroadcastersReturn`, `AllReleased`, `StartSettles`, `PrefixConverges`, `WatchersAreFed`,
`ThumbnailFollows` and `CurtainOpens`.

## 7. Not modelled, and why

- `mtxFetch`'s handshake with MediaMTX, where requests share a cookie
  (`hls-server.ts:47-82`); a failed one is repeated by the player or the next capture.
- svc-chat's join stream, which serves smoke tests; `updateChannel`, the listings, and
  the `overLimit` of cheap routes, which write one row, or read, and fail open.
- The room-creation windows and the existence cache of the chat (their verdicts are
  arbitrary), and the room ceiling, which takes two channels.
- The rules for passwords, names and slugs; JWT signing, cookie formatting, CSRF headers
  and playlist rewriting, which are taken to do what they say: a token is the record of
  what was signed.
- Audit, environment parsing, CSP reports, RPC forwarding, start-up, schemas and migrations:
  no state whose order matters.
- Markup, styling, codecs and quality presets, the physics and drawing of the curtain.
- Generated RPC code (`packages/proto/src/gen`) and the scripts that measure, smoke-test
  and seed the system.

Together with imports, types and comments these are about three quarters of the lines of
the repository; the models stand for what is left, the code that keeps state.

Several BFF instances are not composed: sessions are in Redis, so two instances are two
requests of the model; rooms are per instance, messages of other instances are
`Elsewhere`, and only the shared viewer count crosses instances, where the best it can be
is the sum.
