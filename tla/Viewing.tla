------------------------------ MODULE Viewing ------------------------------
(***************************************************************************)
(* A viewer of one channel, from the live key to the video: the watch page  *)
(* and its player (apps/web), getChannel and getPlaybackUrl (svc-core), and *)
(* svc-media's HLS proxy with its channel-to-path map, and the thumbnails   *)
(* it captures and deletes (hls-server.ts, main.ts, retention.ts).          *)
(*                                                                          *)
(* How a channel goes live is LiveStream's subject: here a claim and a      *)
(* release are one step of core each, and time is that things expire.       *)
(* mtxFetch is one request to MediaMTX: its cookie handshake is not told    *)
(* apart.  The page stays open, in a window nobody leaves and returns to.   *)
(***************************************************************************)
EXTENDS Integers, FiniteSets

CONSTANTS Paths,       \* the paths the channel is published under, one after another
          NoPath,      \* no path
          MaxTimers,   \* reap timers pending at once: a bound
          MaxFaults    \* restarts, lost keys and failed queries: a bound

ASSUME NoPathIsNone == NoPath \notin Paths
ASSUME BoundsAreNat == MaxTimers \in Nat /\ MaxFaults \in Nat

VARIABLES
  published,  \* MediaMTX: the paths that are ready (external)
  warm,       \* MediaMTX: those whose playlist exists (external)
  live,       \* Redis: live:{channelId} exists
  sessions, claiming,  \* svc-media: paths with a session, paths being claimed
  route,      \* svc-media: channelToPath of the channel
  capture,    \* svc-media: the path captureThumbnail is fetching
  shots,      \* svc-media: paths whose session ended before its first capture
  frames,     \* svc-media: an ffmpeg writes a thumbnail
  reaps,      \* svc-media: reap timers pending
  thumb,      \* the thumbnail file
  shown,      \* the page: channel.isLive
  wants,      \* the page: the playback query is to run
  url,        \* the page: the URL the player has
  broken,     \* the page: its channel query is in error
  native,     \* the browser plays HLS itself, without hls.js
  stuck,      \* the browser's own player gave up
  playing,    \* the page: the player's last request brought media
  overlapped, \* history: the sessions there are began beside another's
  faults

mtx    == <<published, warm>>
poller == <<live, sessions, claiming, route, overlapped>>
still  == <<capture, shots, frames, reaps, thumb>>
page   == <<shown, wants, url, broken, native, stuck, playing>>
viewingVars == <<mtx, poller, still, page, faults>>

ViewingTypeOK ==
  /\ warm \subseteq published /\ published \subseteq Paths
  /\ live \in BOOLEAN /\ overlapped \in BOOLEAN
  /\ sessions \subseteq Paths /\ claiming \subseteq Paths /\ shots \subseteq Paths
  /\ route \in Paths \union {NoPath}
  /\ capture \in Paths \union {NoPath}
  /\ frames \in BOOLEAN /\ reaps \in 0..MaxTimers
  /\ thumb \in {"none", "fresh", "old"}
  /\ shown \in BOOLEAN /\ wants \in BOOLEAN /\ playing \in BOOLEAN
  /\ broken \in BOOLEAN /\ native \in BOOLEAN /\ stuck \in BOOLEAN
  /\ url \in {"none", "valid", "expired"}
  /\ faults \in 0..MaxFaults

ViewingInit ==
  /\ published = {} /\ warm = {}
  /\ live = FALSE /\ sessions = {} /\ claiming = {}
  /\ route = NoPath /\ overlapped = FALSE
  /\ capture = NoPath
  /\ shots = {} /\ frames = FALSE /\ reaps = 0 /\ thumb = "none"
  /\ shown = FALSE /\ wants = FALSE /\ url = "none" /\ playing = FALSE
  /\ broken = FALSE /\ native \in BOOLEAN /\ stuck = FALSE
  /\ faults = 0

Fault == faults < MaxFaults /\ faults' = faults + 1
-----------------------------------------------------------------------------
(* MediaMTX and the encoder (external).                                     *)

Publish(p) ==
  /\ published = {} /\ published' = {p}
  /\ UNCHANGED <<warm, poller, still, page, faults>>

Unpublish(p) ==
  /\ p \in published
  /\ published' = published \ {p} /\ warm' = warm \ {p}
  /\ UNCHANGED <<poller, still, page, faults>>

\* The first segments are there.
Warms(p) ==
  /\ p \in published \ warm /\ warm' = warm \union {p}
  /\ UNCHANGED <<published, poller, still, page, faults>>

MtxRestart ==
  /\ Fault
  /\ published' = {} /\ warm' = {}
  /\ UNCHANGED <<poller, still, page>>
-----------------------------------------------------------------------------
(* svc-media's sessions.                                                    *)

\* pollPaths finds a path that has no session: onPublishReady asks core.
Found(p) ==
  /\ p \in published \ (sessions \union claiming)
  /\ claiming' = claiming \union {p}
  /\ UNCHANGED <<mtx, live, sessions, route, overlapped, still, page, faults>>

\* startStream took the key: timers start and the path is the channel's.
Claimed(p) ==
  /\ p \in claiming /\ ~ live
  /\ live' = TRUE
  /\ claiming' = claiming \ {p} /\ sessions' = sessions \union {p}
  /\ route' = p
  /\ overlapped' = (overlapped \/ sessions # {})
  /\ UNCHANGED <<mtx, still, page, faults>>

\* startStream refused: the publisher is kicked, if it is found.
Rejected(p) ==
  /\ p \in claiming /\ live
  /\ claiming' = claiming \ {p}
  /\ \/ published' = published \ {p} /\ warm' = warm \ {p}
     \/ UNCHANGED mtx
  /\ UNCHANGED <<live, sessions, route, overlapped, still, page, faults>>

\* onPublishGone: the timer of the first capture, if it has not fired, stays,
\* and the channel loses its entry, whatever path it names.
Gone(p) ==
  /\ p \in sessions \ published /\ reaps < MaxTimers
  /\ sessions' = sessions \ {p}
  /\ route' = NoPath
  /\ overlapped' = (overlapped /\ sessions' # {})
  /\ live' = FALSE
  /\ reaps' = reaps + 1
  /\ shots' = shots \union {p} \/ UNCHANGED shots
  /\ UNCHANGED <<mtx, claiming, capture, frames, thumb, page, faults>>

Heartbeat ==
  /\ sessions # {} /\ ~ live /\ live' = TRUE
  /\ UNCHANGED <<mtx, sessions, claiming, route, overlapped, still, page, faults>>

\* The key's TTL runs out when nobody beats; Redis may lose it at any time.
Lapses ==
  /\ live /\ sessions = {} /\ live' = FALSE
  /\ UNCHANGED <<mtx, sessions, claiming, route, overlapped, still, page, faults>>
KeyLost ==
  /\ live /\ sessions # {} /\ Fault /\ live' = FALSE
  /\ UNCHANGED <<mtx, sessions, claiming, route, overlapped, still, page>>

MediaRestart ==
  /\ Fault
  /\ sessions' = {} /\ claiming' = {} /\ route' = NoPath /\ overlapped' = FALSE
  /\ capture' = NoPath
  /\ shots' = {} /\ frames' = FALSE /\ reaps' = 0
  /\ UNCHANGED <<mtx, live, thumb, page>>
-----------------------------------------------------------------------------
(* The watch page.                                                          *)

\* Slip: an offline channel is not asked about again.
NewsWhileLive == shown /\ ~ live
News == shown # live

\* getChannel, every 5 or 15 s; coming online turns the playback query on, and
\* what it has is stale by then.  A player that was taken away is mounted anew.
PollChannel ==
  /\ News \/ broken
  /\ shown' = live /\ wants' = (live /\ (wants \/ ~ shown))
  /\ broken' = FALSE /\ stuck' = FALSE /\ playing' = FALSE
  /\ UNCHANGED <<mtx, poller, still, url, native, faults>>

\* With Redis away toChannelMsg says offline.
PollDegraded ==
  /\ shown /\ Fault
  /\ shown' = FALSE /\ wants' = FALSE
  /\ broken' = FALSE /\ stuck' = FALSE /\ playing' = FALSE
  /\ UNCHANGED <<mtx, poller, still, url, native>>

\* getChannel fails through its retries: the page is an error until a later poll.
PollFails ==
  /\ ~ broken /\ Fault
  /\ broken' = TRUE /\ stuck' = FALSE /\ playing' = FALSE
  /\ UNCHANGED <<mtx, poller, still, shown, wants, url, native>>

\* getPlaybackUrl: signed for 300 s, and a new source for the player.
GetUrl ==
  /\ wants /\ shown
  /\ url' = "valid" /\ wants' = FALSE
  /\ stuck' = FALSE
  /\ UNCHANGED <<mtx, poller, still, shown, broken, native, playing, faults>>

\* getPlaybackUrl fails through its retries: the query has no interval, so the page
\* keeps what it had until the channel comes online anew.
GetUrlFails ==
  /\ wants /\ shown /\ Fault
  /\ wants' = FALSE
  /\ UNCHANGED <<mtx, poller, still, shown, url, broken, native, stuck, playing>>

UrlExpires ==
  /\ url = "valid" /\ url' = "expired"
  /\ UNCHANGED <<mtx, poller, still, shown, wants, broken, native, stuck, playing, faults>>

\* The proxy: 403 for an old token, 404 for a channel without a path, and what
\* MediaMTX says of a path that has no playlist.
Served == url = "valid" /\ route \in warm

\* The player asks for the playlist and every part.  After a fatal error hls.js does so
\* again 2 s later; the browser's own player may have given up, and nobody tells it to.
Ask ==
  /\ shown /\ url # "none" /\ ~ broken /\ ~ stuck
  /\ playing' = Served
  /\ stuck' = FALSE \/ (native /\ ~ Served /\ stuck' = TRUE)
  /\ UNCHANGED <<mtx, poller, still, shown, wants, url, broken, native, faults>>
-----------------------------------------------------------------------------
(* Thumbnails.                                                              *)

\* Slip: the interval is not started.
LateShot(p) == p \in shots
\* The session's setTimeout and setInterval; nobody clears the former.
ShotDue(p) == p \in shots \union sessions

\* captureThumbnail (one at a time here).
Shoot(p) ==
  /\ ShotDue(p) /\ capture = NoPath /\ ~ frames
  /\ shots' = shots \ {p}
  /\ capture' = p
  /\ UNCHANGED <<mtx, poller, frames, reaps, thumb, page, faults>>

Shot ==
  /\ capture # NoPath
  /\ frames' = (capture \in warm)
  /\ capture' = NoPath
  /\ UNCHANGED <<mtx, poller, shots, reaps, thumb, page, faults>>

Write ==
  /\ frames /\ frames' = FALSE /\ thumb' = "fresh"
  /\ UNCHANGED <<mtx, poller, capture, shots, reaps, page, faults>>

\* Slip: the entry is kept for late viewers and reaped with the file.
EntryReaped == route' = NoPath
EntryStays  == UNCHANGED route

\* onPublishGone's timer, 8 s later, whoever is live then: reapChannel.
Reap ==
  /\ reaps > 0 /\ reaps' = reaps - 1 /\ thumb' = "none"
  /\ EntryStays
  /\ UNCHANGED <<mtx, live, sessions, claiming, overlapped, capture, shots, frames, page, faults>>

Ages ==
  /\ thumb = "fresh" /\ thumb' = "old"
  /\ UNCHANGED <<mtx, poller, capture, shots, frames, reaps, page, faults>>

\* Slip: what is younger than the TTL.
Young == thumb = "fresh"
Outdated == thumb = "old"

\* sweepRetention, every minute.
Sweep ==
  /\ Outdated /\ thumb' = "none"
  /\ UNCHANGED <<mtx, poller, capture, shots, frames, reaps, page, faults>>
-----------------------------------------------------------------------------
Encoder(p) == Publish(p) \/ Unpublish(p)
Session(p) == Found(p) \/ Claimed(p) \/ Rejected(p) \/ Gone(p)
Keys       == Heartbeat \/ Lapses
Thumbnail  == Reap \/ Write \/ Shot
Faults     == \/ MtxRestart \/ MediaRestart \/ KeyLost
              \/ PollDegraded \/ PollFails \/ GetUrlFails

ViewingNext ==
  \/ \E p \in Paths : Encoder(p) \/ Warms(p) \/ Session(p) \/ Shoot(p)
  \/ Keys \/ PollChannel \/ GetUrl \/ UrlExpires \/ Ask
  \/ Thumbnail \/ Ages \/ Sweep \/ Faults

ViewingSpec == ViewingInit /\ [][ViewingNext]_viewingVars

\* Intervals fire, calls are answered, a published stream warms up.  Nobody has
\* to publish or stop.
ViewingFairness ==
  /\ \A p \in Paths : /\ WF_viewingVars(Warms(p)) /\ WF_viewingVars(Session(p))
                       /\ SF_viewingVars(Shoot(p))
  /\ WF_viewingVars(Keys) /\ WF_viewingVars(PollChannel) /\ WF_viewingVars(GetUrl)
  /\ WF_viewingVars(Ask) /\ WF_viewingVars(Shot \/ Write) /\ WF_viewingVars(Reap)
  /\ WF_viewingVars(Ages) /\ WF_viewingVars(Sweep)

ViewingFairSpec == ViewingSpec /\ ViewingFairness
-----------------------------------------------------------------------------
(* Properties.                                                              *)

\* The proxy finds the stream of a channel that has one, unless a second path
\* was claimed while the first still had its session (the live key was lost):
\* then the end of the first takes the second's entry with it.
RouteServes == sessions # {} /\ ~ overlapped => route \in sessions

\* The page has no URL and asks for none: its one query failed.
NoUrl == shown /\ ~ wants /\ url = "none"

\* Whoever watches a stream that goes on gets media again and again, through
\* warm-up, restarts of MediaMTX and svc-media, lost keys and failed polls: unless the
\* URL has expired or was never got, which only going offline mends (or leaving the
\* window and coming back), the browser's own player gave up on a playlist that was
\* not there, or the entry is gone.
WatchersAreFed ==
  []<>(\/ playing \/ overlapped \/ sessions \intersect warm = {} \/ ~ live
       \/ url = "expired" \/ NoUrl \/ stuck)

\* The picture follows the stream: a live channel gets its own back, for the reap
\* timer of an earlier stream, which may delete it, does so once (main.ts:142); and
\* when the stream is over it goes, also if a capture writes it after the reap, or
\* svc-media restarts before it.
ThumbnailFollows ==
  /\ []<>(thumb # "none" \/ sessions \intersect warm = {})
  /\ <>[](published = {}) => <>[](thumb = "none")
=============================================================================
