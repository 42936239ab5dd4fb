--------------------------- MODULE BrowserIngest ---------------------------
(***************************************************************************)
(* Going live from the browser: the studio's BroadcastPanel                *)
(* (apps/web/components/broadcast.tsx) and svc-media's WebSocket ingest    *)
(* (apps/svc-media/src/ingest.ts), for one channel.                        *)
(*                                                                         *)
(* A panel is one mounted instance of the component, a socket one session: *)
(* the WebSocket start() opens, seen from both ends, and the ffmpeg it     *)
(* feeds.  A side learns what the other did in a step of its own.  What    *)
(* MediaMTX does to a publisher (LiveStream) shows here as ffmpeg exiting. *)
(***************************************************************************)
EXTENDS Integers, FiniteSets

CONSTANTS Panels, Sockets, None,
          Mobile,          \* panels on a phone: the front/back switch is theirs
          NoScreen,        \* panels of a browser without getDisplayMedia
          MaxConnections,  \* MAX_CONNECTIONS
          BufferLimit,     \* PRE_AUTH_BUFFER_LIMIT, in chunks
          MaxEvents        \* bound on failures of devices, calls, links and ffmpeg, pages
                           \* left and other channels' connections

ASSUME NoneIsNone == None \notin Sockets \union Panels
ASSUME PanelKinds == Mobile \subseteq Panels /\ NoScreen \subseteq Panels
ASSUME Limits == MaxConnections \in Nat /\ BufferLimit \in Nat /\ MaxEvents \in Nat

VARIABLES
  mounted,   \* panels on a page
  phase,     \* what each panel shows
  step,      \* what its start() awaits
  video,     \* the video track of its capture: raw until start() attached the
             \* listener of its end, then on; ended by the device before that
  source,    \* camera or screen
  blocked,   \* panels that know screen capture does not work
  cleanup,   \* the unstopped session its cleanupRef stops, or None
  owner,     \* the panel that opened each socket, until its close is handled
  net,       \* the browser's end
  up,        \* svc-media's end
  stage,     \* its connection: the key check in flight, ffmpeg fed or flushing
  heard,     \* chunks that came while the key was checked
  fed,       \* what it was fed: nothing, from the header on, or without it
  active,    \* activeChannels has the channel
  guarded,   \* connections whose guardedChannel is set
  slots,     \* liveConnections
  others,    \* how many of them are of other channels
  silent,       \* connections whose link broke without a word to svc-media
  events

panel  == <<mounted, phase, step, video, source, blocked, cleanup>>
socket == <<owner, net, up, stage, heard, fed>>
ingest == <<active, guarded, slots, others, silent>>
vars   == <<panel, socket, ingest, events>>

TypeOK ==
  /\ mounted \subseteq Panels /\ blocked \subseteq Panels
  /\ phase \in [Panels -> {"idle", "starting", "live", "error"}]
  /\ step \in [Panels -> {"none", "capture", "calls"}]
  /\ video \in [Panels -> {"off", "raw", "on", "ended"}]
  /\ source \in [Panels -> {"camera", "screen"}]
  /\ cleanup \in [Panels -> Sockets \union {None}]
  /\ owner \in [Sockets -> Panels \union {None}]
  /\ net \in [Sockets -> {"closed", "connecting", "open", "closing"}]
  /\ up \in [Sockets -> {"closed", "coming", "open", "closing"}]
  /\ heard \in [Sockets -> 0..(BufferLimit + 1)]
  /\ stage \in [Sockets -> {"none", "check", "fed", "flush"}]
  /\ fed \in [Sockets -> {"nothing", "headed", "headless"}]
  /\ active \in BOOLEAN /\ guarded \subseteq Sockets /\ silent \subseteq Sockets
  /\ slots \in 0..MaxConnections /\ others \in 0..MaxConnections /\ events \in 0..MaxEvents

Init ==
  /\ mounted = Panels /\ blocked = NoScreen
  /\ phase = [p \in Panels |-> "idle"] /\ step = [p \in Panels |-> "none"]
  /\ video = [p \in Panels |-> "off"]
  /\ source = [p \in Panels |-> "camera"] /\ cleanup = [p \in Panels |-> None]
  /\ owner = [s \in Sockets |-> None]
  /\ net = [s \in Sockets |-> "closed"] /\ up = [s \in Sockets |-> "closed"]
  /\ heard = [s \in Sockets |-> 0]
  /\ stage = [s \in Sockets |-> "none"] /\ fed = [s \in Sockets |-> "nothing"]
  /\ active = FALSE /\ guarded = {} /\ slots = 0 /\ others = 0 /\ silent = {}
  /\ events = 0

Event == events < MaxEvents /\ events' = events + 1
Busy(p) == phase[p] \in {"starting", "live"}

\* The panel shows it is over; the source is picked again for the next start.
Over(p, shown) == /\ phase' = [phase EXCEPT ![p] = shown]
                  /\ source' = [source EXCEPT ![p] = "camera"]
-----------------------------------------------------------------------------
(* The panel.                                                              *)

\* The start button is disabled while starting, and is the stop button when live.
MayStart(p) == ~ Busy(p)

\* start(): the phase, then the device, of the source picked while not busy; a
\* screen known not to work cannot be picked.
Start(p, kind) ==
  /\ p \in mounted /\ MayStart(p)
  /\ kind = "screen" => p \notin blocked
  /\ source' = [source EXCEPT ![p] = kind]
  /\ phase' = [phase EXCEPT ![p] = "starting"]
  /\ step' = [step EXCEPT ![p] = "capture"]
  /\ UNCHANGED <<mounted, video, blocked, cleanup, socket, ingest, events>>

\* acquireStream succeeds.
Captured(p) ==
  /\ step[p] = "capture"
  /\ step' = [step EXCEPT ![p] = "calls"]
  /\ video' = [video EXCEPT ![p] = "raw"]
  /\ UNCHANGED <<mounted, phase, source, blocked, cleanup, socket, ingest, events>>

\* acquireStream fails: a cancelled screen picker is no error, and on a phone,
\* where there is no picker, it means that the screen cannot be captured.
Denied(p) ==
  /\ step[p] = "capture"
  /\ step' = [step EXCEPT ![p] = "none"]
  /\ \/ /\ source[p] = "screen" /\ Over(p, "idle")
        /\ blocked' = blocked \union ({p} \intersect Mobile)
     \/ Over(p, "error") /\ UNCHANGED blocked
  /\ UNCHANGED <<mounted, video, cleanup, socket, ingest, events>>

\* issueIngestToken fails, or no MediaRecorder can be made: the capture ends.
StartFails(p) ==
  /\ step[p] = "calls" /\ Event
  /\ step' = [step EXCEPT ![p] = "none"]
  /\ video' = [video EXCEPT ![p] = "off"]
  /\ Over(p, "error")
  /\ UNCHANGED <<mounted, blocked, cleanup, socket, ingest>>

\* A socket nothing is left of.
Spent(s) == net[s] = "closed" /\ up[s] = "closed" /\ stage[s] = "none"

\* The calls are through, issueIngestToken and, with a title, updateChannel: the
\* rest of start(), the socket and stop() over it.
Connect(p, s) ==
  /\ step[p] = "calls" /\ Spent(s) /\ s = CHOOSE r \in Sockets : Spent(r)
  /\ step' = [step EXCEPT ![p] = "none"]
  /\ video' = [video EXCEPT ![p] = IF @ = "raw" THEN "on" ELSE @]
  /\ cleanup' = [cleanup EXCEPT ![p] = s]
  /\ owner' = [owner EXCEPT ![s] = p]
  /\ net' = [net EXCEPT ![s] = "connecting"]
  /\ up' = [up EXCEPT ![s] = "coming"]
  /\ UNCHANGED <<mounted, phase, source, blocked, stage, heard, fed, ingest, events>>

\* stop() of p's session: it runs once, for `stopped' turns later calls away.
Stop(p, shown) ==
  LET s == cleanup[p] IN
  /\ s # None
  /\ cleanup' = [cleanup EXCEPT ![p] = None]
  /\ video' = [video EXCEPT ![p] = "off"]
  /\ Over(p, shown)
  /\ net' = [net EXCEPT ![s] = IF @ = "closed" THEN @ ELSE "closing"]

\* The stop button, and a page hidden while live.
EndLive(p) ==
  /\ phase[p] = "live" /\ Stop(p, "idle")
  /\ UNCHANGED <<mounted, step, blocked, owner, up, stage, heard, fed, ingest,
                 events>>

\* The device or the browser's own "stop sharing" ends the track; once start()
\* is through its listener stops the session.
TrackEnds(p) ==
  /\ video[p] \in {"raw", "on"} /\ Event
  /\ IF video[p] = "on"
     THEN /\ Stop(p, "idle")
          /\ UNCHANGED <<mounted, step, blocked, owner, up, stage, heard, fed,
                         ingest>>
     ELSE /\ video' = [video EXCEPT ![p] = "ended"]
          /\ UNCHANGED <<mounted, phase, step, source, blocked, cleanup, socket, ingest>>

\* switchCamera stops the session first.
CloseFirst(p) ==
  LET s == cleanup[p] IN
  /\ net' = [net EXCEPT ![s] = "closing"]
  /\ video' = [video EXCEPT ![p] = "off"]
  /\ cleanup' = [cleanup EXCEPT ![p] = None]

\* switchCamera: cleanupRef.current(), and in the same turn start().
SwitchCamera(p) ==
  /\ p \in mounted \intersect Mobile /\ phase[p] = "live" /\ source[p] = "camera"
  /\ CloseFirst(p)
  /\ phase' = [phase EXCEPT ![p] = "starting"]
  /\ step' = [step EXCEPT ![p] = "capture"]
  /\ UNCHANGED <<mounted, source, blocked, owner, up, stage, heard, fed, ingest,
                 events>>

\* The effect's cleanup, when the page is left: a start under way goes on.
Unmount(p) ==
  /\ p \in mounted /\ Event
  /\ mounted' = mounted \ {p}
  /\ IF cleanup[p] # None
     THEN Stop(p, "idle")
     ELSE UNCHANGED <<video, phase, source, net, cleanup>>
  /\ UNCHANGED <<step, blocked, owner, up, stage, heard, fed, ingest>>

\* The studio is opened again, when nothing of the instance before is left.
Mount(p) ==
  /\ p \notin mounted /\ step[p] = "none" /\ video[p] = "off"
  /\ mounted' = mounted \union {p}
  /\ Over(p, "idle")
  /\ UNCHANGED <<step, video, blocked, cleanup, socket, ingest, events>>

\* ws.onopen: recorder.start, then the phase.  On a capture all of whose tracks
\* have ended recorder.start throws, and the phase stays.
Opened(s) ==
  LET p == owner[s] IN
  /\ net[s] = "connecting" /\ up[s] # "coming"
  /\ net' = [net EXCEPT ![s] = "open"]
  /\ \/ phase' = [phase EXCEPT ![p] = "live"]
     \/ video[p] = "ended" /\ UNCHANGED phase
  /\ UNCHANGED <<mounted, step, video, source, blocked, cleanup, owner, up, stage,
                 heard, fed, ingest, events>>

\* Slips: a late close of a stopped session is handled as if it were the current
\* one; no close is.
AnyClose(s) == owner[s] # None
NoClose(s) == FALSE
\* ws.onclose returns at once if the session was stopped.
Unstopped(s) == owner[s] # None /\ cleanup[owner[s]] = s

\* ws.onclose: a close nobody asked for stops the session with a message.
CloseSeen(s) ==
  LET p == owner[s] IN
  /\ net' = [net EXCEPT ![s] = "closed"]
  /\ owner' = [owner EXCEPT ![s] = None]
  /\ IF Unstopped(s)
     THEN /\ Over(p, "error")
          /\ video' = [video EXCEPT ![p] = "off"]
          /\ cleanup' = [cleanup EXCEPT ![p] = None]
     ELSE UNCHANGED <<phase, source, video, cleanup>>
  /\ UNCHANGED <<mounted, step, blocked, stage, heard, fed>>

\* The closing handshake ends, begun by either side.
Closed(s) ==
  /\ \/ net[s] = "closing" /\ up[s] = "closed"
     \/ net[s] = "open" /\ up[s] \in {"closing", "closed"}
  /\ CloseSeen(s) /\ UNCHANGED <<up, ingest, events>>

\* The link breaks.  The browser knows; svc-media may never be told, because it
\* sends nothing over it, neither data nor a ping, and sets no timeout.
LinkLost(s) ==
  /\ net[s] \in {"connecting", "open", "closing"} /\ Event
  /\ silent' = silent \/ (up[s] # "closed" /\ silent' = silent \union {s})
  /\ CloseSeen(s) /\ UNCHANGED <<up, active, guarded, slots, others>>
-----------------------------------------------------------------------------
(* svc-media.                                                              *)

HasRoom == slots < MaxConnections

\* verifyClient and the connection handler: the slot, and the key check begins.
Accept(s) ==
  /\ up[s] = "coming" /\ HasRoom
  /\ up' = [up EXCEPT ![s] = "open"]
  /\ slots' = slots + 1
  /\ stage' = [stage EXCEPT ![s] = "check"]
  /\ UNCHANGED <<panel, owner, net, heard, fed, active, guarded, others, silent, events>>

\* verifyClient refuses: at capacity, a foreign origin, too many handshakes.  Or
\* the browser gave up first.
Refuse(s) ==
  /\ up[s] = "coming"
  /\ \/ (~ HasRoom \/ net[s] \in {"closing", "closed"}) /\ UNCHANGED events
     \/ HasRoom /\ Event
  /\ up' = [up EXCEPT ![s] = "closed"]
  /\ silent' = silent \ {s}
  /\ CloseSeen(s) /\ UNCHANGED <<active, guarded, slots, others>>

\* Other channels' connections share the slots.
OtherComes ==
  /\ HasRoom /\ Event /\ slots' = slots + 1 /\ others' = others + 1
  /\ UNCHANGED <<panel, socket, active, guarded, silent>>
OtherGoes ==
  /\ others > 0 /\ slots' = slots - 1 /\ others' = others - 1
  /\ UNCHANGED <<panel, socket, active, guarded, silent, events>>

\* ws.close, of a connection that may have closed.
Hang(s) == up' = [up EXCEPT ![s] = IF @ = "open" THEN "closing" ELSE @]

\* The buffered chunks, the header first, are written when ffmpeg is up.
Flushed(n) == IF n > 0 THEN "headed" ELSE "nothing"

\* A chunk of the recorder arrives: it is buffered, up to the limit, until the
\* encoder is up, and then written; an encoder that lags ends the connection.
Chunk(s) ==
  /\ net[s] = "open" /\ phase[owner[s]] = "live" /\ up[s] \in {"open", "closing"}
  /\ \/ /\ stage[s] = "fed"
        /\ fed' = [fed EXCEPT ![s] = IF @ # "nothing" THEN @
                                     ELSE IF heard[s] = 0 THEN "headed" ELSE "headless"]
        /\ UNCHANGED heard
        /\ UNCHANGED <<up, events>> \/ (Hang(s) /\ Event)
     \/ /\ stage[s] = "check"
        /\ heard' = [heard EXCEPT ![s] = IF @ > BufferLimit THEN @ ELSE @ + 1]
        /\ IF heard[s] >= BufferLimit THEN Hang(s) ELSE UNCHANGED up
        /\ UNCHANGED <<fed, events>>
  /\ UNCHANGED <<panel, owner, net, stage, ingest>>

\* The key is refused, or core does not answer.
KeyRefused(s) ==
  /\ stage[s] = "check" /\ Event
  /\ stage' = [stage EXCEPT ![s] = "none"] /\ heard' = [heard EXCEPT ![s] = 0]
  /\ Hang(s)
  /\ UNCHANGED <<panel, owner, net, fed, ingest>>

\* Slip: the connection is not tested again after the key check.
NeverClosed(s) == FALSE
\* The `closed' flag the close handler sets.
IsClosed(s) == up[s] = "closed"

\* The key is good: the channel's guard is taken and ffmpeg runs, unless the
\* connection closed meanwhile or the channel is being ingested.
Ingest(s) ==
  /\ stage[s] = "check"
  /\ IF IsClosed(s) \/ active
     THEN /\ Hang(s)
          /\ stage' = [stage EXCEPT ![s] = "none"] /\ heard' = [heard EXCEPT ![s] = 0]
          /\ UNCHANGED <<active, guarded, fed>>
     ELSE /\ active' = TRUE /\ guarded' = guarded \union {s}
          /\ stage' = [stage EXCEPT ![s] = "fed"]
          /\ fed' = [fed EXCEPT ![s] = Flushed(heard[s])]
          /\ UNCHANGED <<up, heard>>
  /\ UNCHANGED <<panel, owner, net, slots, others, silent, events>>

\* Slip: the guard is not let go.
KeptGuard(s) == active
\* The close handler lets go of the guard this connection holds, if it does.
StillGuarded(s) == s \notin guarded /\ active

Released(s) == slots - 1

\* The close event at svc-media: the slot, the guard, and EOF for ffmpeg.
CloseHeard(s) ==
  /\ up[s] \in {"open", "closing"} /\ net[s] \in {"closing", "closed"}
  /\ up' = [up EXCEPT ![s] = "closed"]
  /\ slots' = Released(s)
  /\ active' = StillGuarded(s) /\ guarded' = guarded \ {s}
  /\ silent' = silent \ {s}
  /\ stage' = [stage EXCEPT ![s] = IF @ = "fed" THEN "flush" ELSE @]
  /\ UNCHANGED <<panel, owner, net, heard, fed, others, events>>

\* ffmpeg dies, or MediaMTX throws its publisher out: the socket is closed.
EncoderDies(s) ==
  /\ stage[s] = "fed" /\ Event
  /\ stage' = [stage EXCEPT ![s] = "none"] /\ fed' = [fed EXCEPT ![s] = "nothing"]
  /\ heard' = [heard EXCEPT ![s] = 0]
  /\ Hang(s)
  /\ UNCHANGED <<panel, owner, net, ingest>>

\* After EOF ffmpeg flushes and exits, or is killed after 5 s.
EncoderExits(s) ==
  /\ stage[s] = "flush"
  /\ stage' = [stage EXCEPT ![s] = "none"] /\ fed' = [fed EXCEPT ![s] = "nothing"]
  /\ heard' = [heard EXCEPT ![s] = 0]
  /\ UNCHANGED <<panel, owner, net, up, ingest, events>>
-----------------------------------------------------------------------------
Panel(p) ==
  \/ \E kind \in {"camera", "screen"} : Start(p, kind)
  \/ Captured(p) \/ Denied(p) \/ StartFails(p)
  \/ EndLive(p) \/ TrackEnds(p) \/ SwitchCamera(p) \/ Unmount(p) \/ Mount(p)
Link(s) == Opened(s) \/ Closed(s) \/ LinkLost(s)
Server(s) == \/ Accept(s) \/ Refuse(s) \/ Chunk(s) \/ KeyRefused(s) \/ Ingest(s) \/ CloseHeard(s)
             \/ EncoderDies(s) \/ EncoderExits(s)

Next ==
  \/ \E p \in Panels : Panel(p) \/ \E s \in Sockets : Connect(p, s)
  \/ \E s \in Sockets : Link(s) \/ Server(s)
  \/ OtherComes \/ OtherGoes

Spec == Init /\ [][Next]_vars

\* svc-media learns of a close if the link carries it, or if it has begun one itself:
\* ws destroys the socket 30 s after that.
CloseDue(s) == (s \notin silent \/ up[s] = "closing") /\ CloseHeard(s)

\* Calls are answered and both ends hear of each other over links that carry it;
\* nobody need click.  Browsers do not run out of sockets, so a start need not wait for
\* this model's to be spent.
Fairness ==
  /\ \A p \in Panels : SF_vars(\E s \in Sockets : Connect(p, s))
  /\ \A s \in Sockets :
       /\ WF_vars(Opened(s)) /\ WF_vars(Closed(s)) /\ WF_vars(Accept(s) \/ Refuse(s))
       /\ WF_vars(Ingest(s)) /\ WF_vars(CloseDue(s)) /\ WF_vars(EncoderExits(s))

FairSpec == Spec /\ Fairness
-----------------------------------------------------------------------------
\* The panel tells the truth: idle or failed it holds no device and has no session,
\* live it has a session its button can stop, whatever of an earlier session is
\* still under way (broadcast.tsx:241-278).
PanelTruthful ==
  \A p \in mounted :
    /\ ~ Busy(p) => video[p] = "off" /\ cleanup[p] = None /\ step[p] = "none"
    /\ phase[p] = "live" => cleanup[p] # None
    /\ \A s \in Sockets : owner[s] = p /\ net[s] \in {"connecting", "open"} => cleanup[p] = s

\* The guard of a channel is held by exactly one connection that has not closed,
\* only that connection has an encoder that is being fed, and what it is fed
\* begins with the header, whenever chunks came (ingest.ts:57-61, 142-144).
OneIngest ==
  /\ active = (guarded # {}) /\ Cardinality(guarded) <= 1
  /\ \A s \in Sockets : stage[s] = "fed" => s \in guarded /\ fed[s] # "headless"
  /\ \A s \in guarded : up[s] # "closed"

\* When nobody broadcasts any more the guard, the slots and the encoders all come back,
\* however the sessions ended, except those of links that broke without a word to
\* svc-media and that it has not closed itself (ingest.ts:172-176, 230-232).
AllReleased ==
  <>[](\A p \in Panels : cleanup[p] = None)
    => <>[](/\ active => guarded # {} /\ guarded \subseteq silent
            /\ slots = others + Cardinality(silent)
            /\ \A s \in Sockets \ silent : stage[s] = "none")

\* A start whose capture lives ends: live, failed, or stopped.
StartSettles ==
  \A p \in Panels : []<>(phase[p] # "starting" \/ video[p] \in {"off", "ended"})
=============================================================================
