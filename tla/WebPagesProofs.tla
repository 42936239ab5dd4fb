--------------------------- MODULE WebPagesProofs ---------------------------
(***************************************************************************)
(* Proofs about the pages of the web client.  First going live from the     *)
(* browser, for any number of panels, sockets, slots and buffered chunks;   *)
(* its invariant has three parts that do not need each other: what a panel  *)
(* shows, what its sessions are, and what svc-media holds for its           *)
(* connections.  Then watching a channel, the landing curtain and the       *)
(* studio, which have their own specifications and share no variable.       *)
(***************************************************************************)
EXTENDS BrowserIngest, Viewing, Landing, Studio, Sequences, TLAPS, FiniteSetTheorems

Live(s)   == net[s] \in {"connecting", "open"}
Linked(s) == up[s] \in {"open", "closing"}
Conns     == {s \in Sockets : Linked(s)}

\* What a panel shows, awaits, captures and can stop agree, on a page or off it.
PanelsAgree ==
  \A p \in Panels :
    /\ ~ Busy(p) => video[p] = "off" /\ cleanup[p] = None /\ step[p] = "none"
    /\ phase[p] = "live" => cleanup[p] # None
    /\ cleanup[p] # None => step[p] = "none" /\ video[p] \in {"on", "ended"}
    /\ step[p] # "none" => phase[p] = "starting"
    /\ step[p] = "capture" => video[p] = "off"
    /\ step[p] = "calls" => video[p] \in {"raw", "ended"}

\* A panel's session is a live socket of its own, and its only one.
SessionsOwned ==
  /\ \A p \in Panels : cleanup[p] # None => owner[cleanup[p]] = p /\ Live(cleanup[p])
  /\ \A s \in Sockets : /\ net[s] # "closed" => owner[s] # None
                        /\ owner[s] # None /\ Live(s) => cleanup[owner[s]] = s

\* One connection holds the guard; whoever has an encoder came while it checked.
GuardHeld ==
  /\ active <=> guarded # {}
  /\ \A s, t \in guarded : s = t
  /\ \A s \in guarded : Linked(s)
  /\ \A s \in Sockets : stage[s] # "none" => up[s] # "coming"

\* Chunks that came during the check are written first.
HeaderFirst ==
  \A s \in Sockets : stage[s] = "fed" =>
    /\ s \in guarded /\ fed[s] # "headless"
    /\ fed[s] = "nothing" => heard[s] = 0

\* The slots in use are this channel's open connections and the others'.
SlotsExact == IsFiniteSet(Conns) /\ slots = others + Cardinality(Conns)

PanelPart == PanelsAgree /\ SessionsOwned
MediaPart == GuardHeld /\ HeaderFirst
IngestInvariant == TypeOK /\ PanelPart /\ MediaPart /\ SlotsExact
-----------------------------------------------------------------------------
(* Types.                                                                   *)

PanelTypes ==
  /\ mounted \subseteq Panels /\ blocked \subseteq Panels
  /\ phase \in [Panels -> {"idle", "starting", "live", "error"}]
  /\ step \in [Panels -> {"none", "capture", "calls"}]
  /\ video \in [Panels -> {"off", "raw", "on", "ended"}]
  /\ source \in [Panels -> {"camera", "screen"}]
  /\ cleanup \in [Panels -> Sockets \union {None}]
SocketTypes ==
  /\ owner \in [Sockets -> Panels \union {None}]
  /\ net \in [Sockets -> {"closed", "connecting", "open", "closing"}]
ServerTypes ==
  /\ up \in [Sockets -> {"closed", "coming", "open", "closing"}]
  /\ heard \in [Sockets -> 0..(BufferLimit + 1)]
  /\ stage \in [Sockets -> {"none", "check", "fed", "flush"}]
  /\ fed \in [Sockets -> {"nothing", "headed", "headless"}]
  /\ active \in BOOLEAN /\ guarded \subseteq Sockets
CountTypes ==
  /\ slots \in 0..MaxConnections /\ others \in 0..MaxConnections /\ events \in 0..MaxEvents
SilentTypes == silent \subseteq Sockets

LEMMA TypeParts ==
  TypeOK <=> PanelTypes /\ SocketTypes /\ ServerTypes /\ CountTypes /\ SilentTypes
BY DEF TypeOK, PanelTypes, SocketTypes, ServerTypes, CountTypes, SilentTypes

LEMMA EventTypes == ASSUME TypeOK, Event PROVE events' \in 0..MaxEvents
BY Limits DEF TypeOK, Event
-----------------------------------------------------------------------------
(* The panel's and the browser's half.                                      *)

\* The session's end, however it comes.
LEMMA StopStep ==
  ASSUME PanelTypes, SocketTypes, PanelPart, NEW p \in Panels, NEW how \in {"idle", "error"},
         Stop(p, how), UNCHANGED <<step, owner>>
  PROVE  /\ PanelPart' /\ net' \in [Sockets -> {"closed", "connecting", "open", "closing"}]
         /\ phase' \in [Panels -> {"idle", "starting", "live", "error"}]
         /\ video' \in [Panels -> {"off", "raw", "on", "ended"}]
         /\ source' \in [Panels -> {"camera", "screen"}]
         /\ cleanup' \in [Panels -> Sockets \union {None}]
<1>1. PICK s \in Sockets : s = cleanup[p] /\ s # None /\ owner[s] = p /\ net[s] # "closed"
  BY DEF Stop, PanelTypes, PanelPart, SessionsOwned, Live
<1>2. /\ cleanup' = [cleanup EXCEPT ![p] = None] /\ video' = [video EXCEPT ![p] = "off"]
      /\ phase' = [phase EXCEPT ![p] = how] /\ source' = [source EXCEPT ![p] = "camera"]
      /\ net' = [net EXCEPT ![s] = "closing"]
  BY <1>1 DEF Stop, Over
<1>3. PanelsAgree'
  BY <1>1, <1>2 DEF PanelPart, PanelsAgree, Busy, PanelTypes
<1>4. SessionsOwned'
  BY <1>1, <1>2, NoneIsNone DEF PanelPart, SessionsOwned, Live, PanelTypes, SocketTypes
<1> QED BY <1>2, <1>3, <1>4 DEF PanelPart, PanelTypes, SocketTypes

LEMMA CloseStep ==
  ASSUME PanelTypes, SocketTypes, PanelPart, NEW s \in Sockets, CloseSeen(s)
  PROVE  PanelPart' /\ PanelTypes' /\ SocketTypes'
<1>1. /\ net' = [net EXCEPT ![s] = "closed"] /\ owner' = [owner EXCEPT ![s] = None]
      /\ UNCHANGED <<mounted, step, blocked>>
  BY DEF CloseSeen
<1>2. CASE Unstopped(s)
  <2>1. owner[s] \in Panels /\ cleanup[owner[s]] = s
    BY <1>2 DEF Unstopped, SocketTypes
  <2>2. /\ phase' = [phase EXCEPT ![owner[s]] = "error"]
        /\ source' = [source EXCEPT ![owner[s]] = "camera"]
        /\ video' = [video EXCEPT ![owner[s]] = "off"]
        /\ cleanup' = [cleanup EXCEPT ![owner[s]] = None]
    BY <1>2 DEF CloseSeen, Over
  <2>3. PanelsAgree'
    BY <1>1, <2>1, <2>2, NoneIsNone DEF PanelPart, PanelsAgree, Busy, PanelTypes
  <2>4. SessionsOwned'
    BY <1>1, <2>1, <2>2, NoneIsNone DEF PanelPart, SessionsOwned, Live, PanelTypes, SocketTypes
  <2>5. PanelTypes' /\ SocketTypes'
    BY <1>1, <2>1, <2>2 DEF PanelTypes, SocketTypes
  <2> QED BY <2>3, <2>4, <2>5 DEF PanelPart
<1>3. CASE ~ Unstopped(s)
  <2>1. UNCHANGED <<phase, source, video, cleanup>>
    BY <1>3 DEF CloseSeen
  <2>2. \A p \in Panels : cleanup[p] # s
    BY <1>3, NoneIsNone DEF Unstopped, PanelPart, SessionsOwned, SocketTypes
  <2>3. PanelsAgree'
    BY <1>1, <2>1 DEF PanelPart, PanelsAgree, Busy
  <2>4. SessionsOwned'
    BY <1>1, <2>1, <2>2, NoneIsNone DEF PanelPart, SessionsOwned, Live, PanelTypes, SocketTypes
  <2>5. PanelTypes' /\ SocketTypes'
    BY <1>1, <2>1 DEF PanelTypes, SocketTypes
  <2> QED BY <2>3, <2>4, <2>5 DEF PanelPart
<1> QED BY <1>2, <1>3

\* What the steps of a start do, and those of a mounted page.
LEMMA StartSteps ==
  ASSUME PanelTypes, SocketTypes, PanelPart, NEW p \in Panels,
         \/ \E kind \in {"camera", "screen"} : Start(p, kind)
         \/ Captured(p) \/ Denied(p) \/ StartFails(p) \/ Mount(p)
  PROVE  PanelPart' /\ PanelTypes' /\ SocketTypes'
<1>0. (\/ \E kind \in {"camera", "screen"} : Start(p, kind)
       \/ Captured(p) \/ Denied(p) \/ StartFails(p) \/ Mount(p)) => UNCHANGED <<cleanup, owner, net>>
  BY DEF Start, Captured, Denied, StartFails, Mount, Over, socket
<1>1. SessionsOwned' /\ SocketTypes'
  BY <1>0 DEF PanelPart, SessionsOwned, Live, SocketTypes
<1>2. ASSUME NEW kind \in {"camera", "screen"}, Start(p, kind) PROVE PanelsAgree' /\ PanelTypes'
  BY <1>0, <1>2 DEF Start, MayStart, PanelPart, PanelsAgree, Busy, PanelTypes
<1>3. Captured(p) => PanelsAgree' /\ PanelTypes'
  BY <1>0 DEF Captured, PanelPart, PanelsAgree, Busy, PanelTypes
<1>4. Denied(p) => PanelsAgree' /\ PanelTypes'
  BY <1>0 DEF Denied, Over, PanelPart, PanelsAgree, Busy, PanelTypes
<1>5. StartFails(p) => PanelsAgree' /\ PanelTypes'
  BY <1>0 DEF StartFails, Over, PanelPart, PanelsAgree, Busy, PanelTypes
<1>6. Mount(p) => PanelsAgree' /\ PanelTypes'
  BY <1>0 DEF Mount, Over, PanelPart, PanelsAgree, Busy, PanelTypes
<1> QED BY <1>1, <1>2, <1>3, <1>4, <1>5, <1>6 DEF PanelPart

LEMMA ConnectStep ==
  ASSUME PanelTypes, SocketTypes, PanelPart, NEW p \in Panels, NEW s \in Sockets, Connect(p, s)
  PROVE  PanelPart' /\ PanelTypes' /\ SocketTypes'
<1>1. /\ step[p] = "calls" /\ net[s] = "closed"
      /\ step' = [step EXCEPT ![p] = "none"]
      /\ video' = [video EXCEPT ![p] = IF video[p] = "raw" THEN "on" ELSE video[p]]
      /\ cleanup' = [cleanup EXCEPT ![p] = s]
      /\ owner' = [owner EXCEPT ![s] = p] /\ net' = [net EXCEPT ![s] = "connecting"]
      /\ UNCHANGED <<mounted, phase, source, blocked>>
  BY DEF Connect, Spent
<1>2. PanelsAgree'
  BY <1>1, NoneIsNone DEF PanelPart, PanelsAgree, Busy, PanelTypes
<1>3. \A q \in Panels : cleanup[q] # s
  BY <1>1, NoneIsNone DEF PanelPart, SessionsOwned, Live
<1>4. \A r \in Sockets : Live(r) => owner[r] # p
  BY <1>1, NoneIsNone DEF PanelPart, PanelsAgree, SessionsOwned, Live, PanelTypes, SocketTypes
<1>5. SessionsOwned'
  BY <1>1, <1>3, <1>4, NoneIsNone DEF PanelPart, SessionsOwned, Live, PanelTypes, SocketTypes
<1>6. PanelTypes' /\ SocketTypes'
  BY <1>1 DEF PanelTypes, SocketTypes
<1> QED BY <1>2, <1>5, <1>6 DEF PanelPart

\* The ends a session comes to, and those that only look like one.
LEMMA EndSteps ==
  ASSUME PanelTypes, SocketTypes, PanelPart, NEW p \in Panels,
         EndLive(p) \/ TrackEnds(p) \/ SwitchCamera(p) \/ Unmount(p)
  PROVE  PanelPart' /\ PanelTypes' /\ SocketTypes'
<1>1. CASE Stop(p, "idle") /\ mounted' \subseteq mounted /\ UNCHANGED <<step, blocked, owner>>
  BY <1>1, StopStep DEF PanelTypes, SocketTypes
<1>2. EndLive(p) => Stop(p, "idle") /\ UNCHANGED <<mounted, step, blocked, owner>>
  BY DEF EndLive
<1>3. CASE TrackEnds(p) /\ video[p] # "on"
  <2>1. /\ video' = [video EXCEPT ![p] = "ended"] /\ video[p] = "raw"
        /\ UNCHANGED <<mounted, phase, step, source, blocked, cleanup, owner, net>>
    BY <1>3 DEF TrackEnds, socket
  <2>2. PanelsAgree' /\ SessionsOwned'
    BY <2>1 DEF PanelPart, PanelsAgree, SessionsOwned, Busy, Live, PanelTypes
  <2> QED BY <2>1, <2>2 DEF PanelPart, PanelTypes, SocketTypes
<1>4. TrackEnds(p) /\ video[p] = "on" => Stop(p, "idle") /\ UNCHANGED <<mounted, step, blocked, owner>>
  BY DEF TrackEnds
<1>5. CASE SwitchCamera(p)
  <2>1. PICK s \in Sockets : s = cleanup[p] /\ owner[s] = p /\ net[s] # "closed"
    BY <1>5 DEF SwitchCamera, PanelTypes, PanelPart, PanelsAgree, SessionsOwned, Live
  <2>2. /\ cleanup' = [cleanup EXCEPT ![p] = None] /\ video' = [video EXCEPT ![p] = "off"]
        /\ phase' = [phase EXCEPT ![p] = "starting"] /\ step' = [step EXCEPT ![p] = "capture"]
        /\ net' = [net EXCEPT ![s] = "closing"]
        /\ UNCHANGED <<mounted, source, blocked, owner>>
    BY <1>5, <2>1 DEF SwitchCamera, CloseFirst
  <2>3. PanelsAgree'
    BY <2>1, <2>2 DEF PanelPart, PanelsAgree, Busy, PanelTypes
  <2>4. SessionsOwned'
    BY <2>1, <2>2, NoneIsNone DEF PanelPart, SessionsOwned, Live, PanelTypes, SocketTypes
  <2> QED BY <2>2, <2>3, <2>4 DEF PanelPart, PanelTypes, SocketTypes
<1>6. CASE Unmount(p) /\ cleanup[p] = None
  <2>1. /\ mounted' \subseteq mounted
        /\ UNCHANGED <<video, phase, source, net, cleanup, step, blocked, owner>>
    BY <1>6 DEF Unmount
  <2> QED BY <2>1 DEF PanelPart, PanelsAgree, SessionsOwned, Busy, Live, PanelTypes, SocketTypes
<1>7. Unmount(p) /\ cleanup[p] # None =>
        Stop(p, "idle") /\ mounted' \subseteq mounted /\ UNCHANGED <<step, blocked, owner>>
  BY DEF Unmount
<1> QED BY <1>1, <1>2, <1>3, <1>4, <1>5, <1>6, <1>7

\* The socket opens at the browser: only a panel's own session does.
LEMMA OpenedStep ==
  ASSUME PanelTypes, SocketTypes, PanelPart, NEW s \in Sockets, Opened(s)
  PROVE  PanelPart' /\ PanelTypes' /\ SocketTypes'
<1>1. PICK p \in Panels : p = owner[s] /\ cleanup[p] = s
  BY DEF Opened, PanelPart, SessionsOwned, Live, SocketTypes
<1>2. /\ net[s] = "connecting" /\ net' = [net EXCEPT ![s] = "open"]
      /\ phase' \in {phase, [phase EXCEPT ![p] = "live"]}
      /\ UNCHANGED <<mounted, step, video, source, blocked, cleanup, owner>>
  BY <1>1 DEF Opened
<1>3. PanelsAgree'
  BY <1>1, <1>2, NoneIsNone DEF PanelPart, PanelsAgree, Busy, PanelTypes
<1>4. SessionsOwned'
  BY <1>2 DEF PanelPart, SessionsOwned, Live, SocketTypes
<1>5. PanelTypes' /\ SocketTypes'
  BY <1>2 DEF PanelTypes, SocketTypes
<1> QED BY <1>3, <1>4, <1>5 DEF PanelPart

PanelStuff == <<mounted, phase, step, video, source, blocked, cleanup, owner, net>>

LEMMA PanelStep ==
  ASSUME PanelTypes, SocketTypes, PanelPart, [Next]_vars
  PROVE  PanelPart' /\ PanelTypes' /\ SocketTypes'
<1>1. ASSUME UNCHANGED PanelStuff PROVE PanelPart' /\ PanelTypes' /\ SocketTypes'
  BY <1>1 DEF PanelStuff, PanelPart, PanelsAgree, SessionsOwned, Busy, Live, PanelTypes, SocketTypes
<1>2. ASSUME NEW s \in Sockets, Closed(s) \/ LinkLost(s) \/ Refuse(s) PROVE CloseSeen(s)
  BY <1>2 DEF Closed, LinkLost, Refuse
<1>3. ASSUME NEW s \in Sockets,
             Accept(s) \/ Chunk(s) \/ KeyRefused(s) \/ Ingest(s) \/ CloseHeard(s)
               \/ EncoderDies(s) \/ EncoderExits(s)
      PROVE  UNCHANGED PanelStuff
  BY <1>3 DEF PanelStuff, panel, Accept, Chunk, KeyRefused, Ingest, CloseHeard, EncoderDies,
              EncoderExits
<1>4. OtherComes \/ OtherGoes \/ UNCHANGED vars => UNCHANGED PanelStuff
  BY DEF PanelStuff, OtherComes, OtherGoes, vars, panel, socket
<1> QED BY <1>1, <1>2, <1>3, <1>4, StartSteps, ConnectStep, EndSteps, OpenedStep, CloseStep
        DEF Next, Panel, Link, Server
-----------------------------------------------------------------------------
(* svc-media's half: the connections, the guard and the encoders.           *)

MediaStuff == <<up, heard, stage, fed, active, guarded>>

LEMMA HangFacts ==
  ASSUME ServerTypes, NEW s \in Sockets, Hang(s)
  PROVE  /\ up' \in [Sockets -> {"closed", "coming", "open", "closing"}]
         /\ \A r \in Sockets : /\ (up'[r] \in {"open", "closing"}) = Linked(r)
                              /\ (up'[r] = "coming") = (up[r] = "coming")
BY DEF ServerTypes, Hang, Linked

LEMMA ChunkStep ==
  ASSUME ServerTypes, MediaPart, NEW s \in Sockets, Chunk(s)
  PROVE  MediaPart' /\ ServerTypes'
<1>1. /\ up' \in [Sockets -> {"closed", "coming", "open", "closing"}]
      /\ \A r \in Sockets : Linked(r)' = Linked(r) /\ (up'[r] = "coming") = (up[r] = "coming")
      /\ UNCHANGED <<stage, active, guarded>>
  BY HangFacts DEF Chunk, ServerTypes, Linked, ingest
<1>2. /\ heard' \in [Sockets -> 0..(BufferLimit + 1)]
      /\ fed' \in [Sockets -> {"nothing", "headed", "headless"}]
  BY Limits DEF Chunk, ServerTypes
<1>3. GuardHeld'
  BY <1>1 DEF MediaPart, GuardHeld, ServerTypes
<1>4. HeaderFirst'
  <2>1. CASE stage[s] = "fed"
    <3>1. fed' = [fed EXCEPT ![s] = IF fed[s] # "nothing" THEN fed[s] ELSE "headed"]
      BY <2>1 DEF Chunk, MediaPart, HeaderFirst
    <3>2. UNCHANGED heard
      BY <2>1 DEF Chunk
    <3> QED BY <1>1, <3>1, <3>2 DEF MediaPart, HeaderFirst, ServerTypes
  <2>2. CASE stage[s] # "fed"
    <3>1. UNCHANGED fed /\ \A r \in Sockets \ {s} : heard'[r] = heard[r]
      BY <2>2 DEF Chunk, ServerTypes
    <3> QED BY <1>1, <2>2, <3>1 DEF MediaPart, HeaderFirst
  <2> QED BY <2>1, <2>2
<1> QED BY <1>1, <1>2, <1>3, <1>4 DEF MediaPart, ServerTypes

\* The encoder is gone, or never came: nothing of it stays.
LEMMA EncoderStep ==
  ASSUME ServerTypes, MediaPart, NEW s \in Sockets,
         KeyRefused(s) \/ EncoderDies(s) \/ EncoderExits(s)
  PROVE  MediaPart' /\ ServerTypes'
<1>1. /\ up' \in [Sockets -> {"closed", "coming", "open", "closing"}]
      /\ \A r \in Sockets : Linked(r)' = Linked(r) /\ (up'[r] = "coming") = (up[r] = "coming")
      /\ UNCHANGED <<active, guarded>>
  BY HangFacts DEF KeyRefused, EncoderDies, EncoderExits, ServerTypes, Linked, ingest
<1>2. /\ stage' = [stage EXCEPT ![s] = "none"] /\ heard' = [heard EXCEPT ![s] = 0]
      /\ fed' \in {fed, [fed EXCEPT ![s] = "nothing"]}
  BY DEF KeyRefused, EncoderDies, EncoderExits
<1>3. heard' \in [Sockets -> 0..(BufferLimit + 1)]
  BY <1>2, Limits DEF ServerTypes
<1>4. GuardHeld'
  BY <1>1, <1>2 DEF MediaPart, GuardHeld, ServerTypes
<1>5. HeaderFirst'
  BY <1>1, <1>2 DEF MediaPart, HeaderFirst, ServerTypes
<1> QED BY <1>1, <1>2, <1>3, <1>4, <1>5 DEF MediaPart, ServerTypes

\* The guard is taken when nobody has it, by a connection that is still there.
LEMMA IngestStep ==
  ASSUME ServerTypes, MediaPart, NEW s \in Sockets, Ingest(s)
  PROVE  MediaPart' /\ ServerTypes'
<1>1. stage[s] = "check" /\ up[s] # "coming"
  BY DEF Ingest, MediaPart, GuardHeld
<1>2. CASE IsClosed(s) \/ active
  <2>1. /\ up' \in [Sockets -> {"closed", "coming", "open", "closing"}]
        /\ \A r \in Sockets : Linked(r)' = Linked(r) /\ (up'[r] = "coming") = (up[r] = "coming")
        /\ UNCHANGED <<active, guarded>>
    BY <1>2, HangFacts DEF Ingest, Linked
  <2>2. /\ stage' = [stage EXCEPT ![s] = "none"] /\ heard' = [heard EXCEPT ![s] = 0]
        /\ UNCHANGED fed
    BY <1>2 DEF Ingest
  <2>3. heard' \in [Sockets -> 0..(BufferLimit + 1)]
    BY <2>2, Limits DEF ServerTypes
  <2>4. GuardHeld'
    BY <2>1, <2>2 DEF MediaPart, GuardHeld, ServerTypes
  <2>5. HeaderFirst'
    BY <2>1, <2>2 DEF MediaPart, HeaderFirst, ServerTypes
  <2> QED BY <2>1, <2>2, <2>3, <2>4, <2>5 DEF MediaPart, ServerTypes
<1>3. CASE ~ IsClosed(s) /\ ~ active
  <2>1. /\ guarded = {} /\ active' = TRUE /\ guarded' = {s}
        /\ stage' = [stage EXCEPT ![s] = "fed"]
        /\ fed' = [fed EXCEPT ![s] = Flushed(heard[s])]
        /\ UNCHANGED <<up, heard>>
    BY <1>3 DEF Ingest, MediaPart, GuardHeld
  <2>2. /\ Flushed(heard[s]) \in {"headed", "nothing"}
        /\ Flushed(heard[s]) = "nothing" => heard[s] = 0
    BY Limits DEF Flushed, ServerTypes
  <2>3. Linked(s)
    BY <1>1, <1>3 DEF IsClosed, Linked, ServerTypes
  <2>4. GuardHeld'
    BY <1>1, <2>1, <2>3 DEF MediaPart, GuardHeld, Linked, ServerTypes
  <2>5. HeaderFirst'
    BY <2>1, <2>2 DEF MediaPart, HeaderFirst, ServerTypes
  <2> QED BY <2>1, <2>2, <2>4, <2>5 DEF MediaPart, ServerTypes
<1> QED BY <1>2, <1>3

LEMMA CloseHeardStep ==
  ASSUME ServerTypes, MediaPart, NEW s \in Sockets, CloseHeard(s)
  PROVE  MediaPart' /\ ServerTypes'
<1>1. /\ up' = [up EXCEPT ![s] = "closed"] /\ guarded' = guarded \ {s}
      /\ active' = (s \notin guarded /\ active)
      /\ stage' = [stage EXCEPT ![s] = IF stage[s] = "fed" THEN "flush" ELSE stage[s]]
      /\ UNCHANGED <<heard, fed>>
  BY DEF CloseHeard, StillGuarded
<1>2. GuardHeld'
  BY <1>1 DEF MediaPart, GuardHeld, Linked, ServerTypes
<1>3. HeaderFirst'
  BY <1>1 DEF MediaPart, HeaderFirst, ServerTypes
<1> QED BY <1>1, <1>2, <1>3 DEF MediaPart, ServerTypes

\* A socket comes, is taken on, or is refused.
LEMMA ArrivalStep ==
  ASSUME ServerTypes, MediaPart, NEW s \in Sockets,
         (\E p \in Panels : Connect(p, s)) \/ Accept(s) \/ Refuse(s)
  PROVE  MediaPart' /\ ServerTypes'
<1>1. CASE \E p \in Panels : Connect(p, s)
  <2>1. /\ up[s] = "closed" /\ stage[s] = "none" /\ up' = [up EXCEPT ![s] = "coming"]
        /\ UNCHANGED <<heard, stage, fed, active, guarded>>
    BY <1>1 DEF Connect, Spent, ingest
  <2> QED BY <2>1 DEF MediaPart, GuardHeld, HeaderFirst, Linked, ServerTypes
<1>2. CASE Accept(s)
  <2>1. /\ up[s] = "coming" /\ up' = [up EXCEPT ![s] = "open"]
        /\ stage' = [stage EXCEPT ![s] = "check"]
        /\ UNCHANGED <<heard, fed, active, guarded>>
    BY <1>2 DEF Accept
  <2> QED BY <2>1 DEF MediaPart, GuardHeld, HeaderFirst, Linked, ServerTypes
<1>3. CASE Refuse(s)
  <2>1. /\ up[s] = "coming" /\ up' = [up EXCEPT ![s] = "closed"]
        /\ UNCHANGED <<heard, stage, fed, active, guarded>>
    BY <1>3 DEF Refuse, CloseSeen, ingest
  <2> QED BY <2>1 DEF MediaPart, GuardHeld, HeaderFirst, Linked, ServerTypes
<1> QED BY <1>1, <1>2, <1>3

\* The steps of the panel and of the browser that svc-media does not see.
LEMMA Unseen ==
  /\ \A p \in Panels : Panel(p) => UNCHANGED <<MediaStuff, slots, others>>
  /\ \A s \in Sockets : Link(s) => UNCHANGED <<MediaStuff, slots, others>>
<1> USE DEF MediaStuff, ingest, socket
<1>1. ASSUME NEW p \in Panels, Panel(p) PROVE UNCHANGED <<MediaStuff, slots, others>>
  <2>1. ASSUME NEW kind \in {"camera", "screen"}, Start(p, kind)
        PROVE  UNCHANGED <<MediaStuff, slots, others>>
    BY <2>1 DEF Start
  <2>2. Captured(p) \/ Denied(p) \/ StartFails(p) => UNCHANGED <<MediaStuff, slots, others>>
    BY DEF Captured, Denied, StartFails
  <2>3. EndLive(p) \/ TrackEnds(p) => UNCHANGED <<MediaStuff, slots, others>>
    BY DEF EndLive, TrackEnds
  <2>4. SwitchCamera(p) \/ Unmount(p) \/ Mount(p) => UNCHANGED <<MediaStuff, slots, others>>
    BY DEF SwitchCamera, Unmount, Mount
  <2> QED BY <1>1, <2>1, <2>2, <2>3, <2>4 DEF Panel
<1>2. ASSUME NEW s \in Sockets, Link(s) PROVE UNCHANGED <<MediaStuff, slots, others>>
  BY <1>2 DEF Link, Opened, Closed, LinkLost, CloseSeen
<1> QED BY <1>1, <1>2

LEMMA MediaStep ==
  ASSUME ServerTypes, MediaPart, [Next]_vars
  PROVE  MediaPart' /\ ServerTypes'
<1>1. ASSUME UNCHANGED MediaStuff PROVE MediaPart' /\ ServerTypes'
  BY <1>1 DEF MediaStuff, MediaPart, GuardHeld, HeaderFirst, Linked, ServerTypes
<1>2. OtherComes \/ OtherGoes \/ UNCHANGED vars => UNCHANGED MediaStuff
  BY DEF MediaStuff, OtherComes, OtherGoes, vars, socket, ingest
<1> QED BY <1>1, <1>2, Unseen, ChunkStep, EncoderStep, IngestStep, CloseHeardStep, ArrivalStep
        DEF Next, Server
-----------------------------------------------------------------------------
(* The slots.                                                               *)

\* A connection more, and one less.
LEMMA LinkCount ==
  ASSUME NEW S, NEW s, IsFiniteSet(S)
  PROVE  /\ Cardinality(S) \in Nat
         /\ s \notin S => /\ IsFiniteSet(S \union {s})
                       /\ Cardinality(S \union {s}) = Cardinality(S) + 1
         /\ s \in S => /\ IsFiniteSet(S \ {s})
                     /\ Cardinality(S \ {s}) = Cardinality(S) - 1
                     /\ Cardinality(S) > 0
<1>1. Cardinality(S) \in Nat
  BY FS_CardinalityType
<1>2. s \notin S => IsFiniteSet(S \union {s}) /\ Cardinality(S \union {s}) = Cardinality(S) + 1
  BY FS_AddElement
<1>3. s \in S => IsFiniteSet(S \ {s}) /\ Cardinality(S \ {s}) = Cardinality(S) - 1
  BY FS_RemoveElement
<1>4. s \in S => Cardinality(S) > 0
  BY <1>1, FS_EmptySet
<1> QED BY <1>1, <1>2, <1>3, <1>4

LEMMA EventSteps == [Next]_vars => UNCHANGED events \/ Event
<1> SUFFICES ASSUME [Next]_vars, ~ Event PROVE UNCHANGED events
  OBVIOUS
<1>1. ASSUME NEW p \in Panels, Panel(p) PROVE UNCHANGED events
  BY <1>1 DEF Panel, Start, Captured, Denied, StartFails, EndLive, TrackEnds, SwitchCamera,
              Unmount, Mount
<1>2. ASSUME NEW p \in Panels, NEW s \in Sockets, Connect(p, s) PROVE UNCHANGED events
  BY <1>2 DEF Connect
<1>3. ASSUME NEW s \in Sockets, Link(s) PROVE UNCHANGED events
  BY <1>3 DEF Link, Opened, Closed, LinkLost
<1>4. ASSUME NEW s \in Sockets, Server(s) PROVE UNCHANGED events
  BY <1>4 DEF Server, Accept, Refuse, Chunk, KeyRefused, Ingest, CloseHeard, EncoderDies,
              EncoderExits
<1>5. OtherComes \/ OtherGoes \/ UNCHANGED vars => UNCHANGED events
  BY DEF OtherComes, OtherGoes, vars
<1> QED BY <1>1, <1>2, <1>3, <1>4, <1>5 DEF Next

LEMMA CountStep ==
  ASSUME TypeOK, MediaPart, SlotsExact, [Next]_vars
  PROVE  SlotsExact' /\ CountTypes'
<1>1. /\ slots \in 0..MaxConnections /\ others \in 0..MaxConnections /\ MaxConnections \in Nat
      /\ IsFiniteSet(Conns) /\ Cardinality(Conns) \in Nat /\ slots = others + Cardinality(Conns)
      /\ \A s \in Sockets : up[s] \in {"closed", "coming", "open", "closing"}
  BY Limits, FS_CardinalityType DEF TypeOK, SlotsExact
<1>2. events' \in 0..MaxEvents
  BY EventSteps, EventTypes DEF TypeOK
<1> DEFINE Counted == SlotsExact' /\ slots' \in 0..MaxConnections /\ others' \in 0..MaxConnections
<1>3. UNCHANGED <<slots, others>> /\ Conns' = Conns => Counted
  BY <1>1 DEF SlotsExact
<1>4. ASSUME NEW s \in Sockets, Accept(s) PROVE Counted
  <2>1. s \notin Conns /\ Conns' = Conns \union {s} /\ slots < MaxConnections
        /\ slots' = slots + 1 /\ others' = others
    BY <1>1, <1>4 DEF Accept, HasRoom, Conns, Linked, TypeOK
  <2>2. IsFiniteSet(Conns \union {s}) /\ Cardinality(Conns \union {s}) = Cardinality(Conns) + 1
    BY <1>1, <2>1, LinkCount
  <2> QED BY <1>1, <2>1, <2>2 DEF SlotsExact
<1>5. ASSUME NEW s \in Sockets, CloseHeard(s) PROVE Counted
  <2>1. s \in Conns /\ Conns' = Conns \ {s} /\ slots' = slots - 1 /\ others' = others
    BY <1>1, <1>5 DEF CloseHeard, Released, Conns, Linked, TypeOK
  <2>2. /\ IsFiniteSet(Conns \ {s}) /\ Cardinality(Conns \ {s}) = Cardinality(Conns) - 1
        /\ Cardinality(Conns) > 0
    BY <1>1, <2>1, LinkCount
  <2> QED BY <1>1, <2>1, <2>2 DEF SlotsExact
<1>6. OtherComes \/ OtherGoes => Counted
  <2>1. OtherComes \/ OtherGoes => Conns' = Conns
    BY DEF OtherComes, OtherGoes, socket, Conns, Linked
  <2> QED BY <1>1, <2>1 DEF OtherComes, OtherGoes, HasRoom, SlotsExact
<1>7. ASSUME NEW s \in Sockets, (\E p \in Panels : Connect(p, s)) \/ Refuse(s) PROVE Counted
  <2>1. UNCHANGED <<slots, others>> /\ \A r \in Sockets : Linked(r)' = Linked(r)
    BY <1>1, <1>7 DEF Connect, Spent, Refuse, CloseSeen, ingest, Linked, TypeOK
  <2> QED BY <1>3, <2>1 DEF Conns
<1>8. ASSUME NEW s \in Sockets,
             Chunk(s) \/ KeyRefused(s) \/ Ingest(s) \/ EncoderDies(s) \/ EncoderExits(s)
      PROVE  Counted
  <2>1. UNCHANGED <<slots, others>>
    BY <1>8 DEF Chunk, KeyRefused, Ingest, EncoderDies, EncoderExits, ingest
  <2>2. UNCHANGED up \/ Hang(s)
    BY <1>8 DEF Chunk, KeyRefused, Ingest, EncoderDies, EncoderExits
  <2>3. \A r \in Sockets : Linked(r)' = Linked(r)
    BY <2>2, HangFacts, TypeParts DEF Linked
  <2> QED BY <1>3, <2>1, <2>3 DEF Conns
<1>9. UNCHANGED <<MediaStuff, slots, others>> => Counted
  BY <1>3 DEF MediaStuff, Conns, Linked
<1>10. UNCHANGED vars => UNCHANGED <<MediaStuff, slots, others>>
  BY DEF vars, MediaStuff, socket, ingest
<1>11. Counted
  <2> HIDE DEF Counted
  <2> QED BY <1>4, <1>5, <1>6, <1>7, <1>8, <1>9, <1>10, Unseen DEF Next, Server
<1> QED BY <1>2, <1>11 DEF CountTypes

\* Links break in silence one by one.
LEMMA SilentStep == ASSUME SilentTypes, [Next]_vars PROVE SilentTypes'
<1>0. SilentTypes BY DEF SilentTypes
<1>1. ASSUME NEW p \in Panels, Panel(p) PROVE SilentTypes'
  BY <1>0, <1>1 DEF SilentTypes, Panel, Start, Captured, Denied, StartFails, EndLive, TrackEnds,
              SwitchCamera, Unmount, Mount, ingest
<1>2. ASSUME NEW p \in Panels, NEW s \in Sockets, Connect(p, s) PROVE SilentTypes'
  BY <1>0, <1>2 DEF SilentTypes, Connect, ingest
<1>3. ASSUME NEW s \in Sockets, Link(s) PROVE SilentTypes'
  BY <1>0, <1>3 DEF SilentTypes, Link, Opened, Closed, LinkLost, ingest
<1>4. ASSUME NEW s \in Sockets, Server(s) PROVE SilentTypes'
  BY <1>0, <1>4 DEF SilentTypes, Server, Accept, Refuse, Chunk, KeyRefused, Ingest, CloseHeard,
              EncoderDies, EncoderExits, ingest
<1>5. OtherComes \/ OtherGoes \/ UNCHANGED vars => SilentTypes'
  BY <1>0 DEF SilentTypes, OtherComes, OtherGoes, vars, ingest
<1> QED BY <1>1, <1>2, <1>3, <1>4, <1>5 DEF Next
-----------------------------------------------------------------------------
LEMMA IngestInit == Init => IngestInvariant
<1> SUFFICES ASSUME Init PROVE IngestInvariant
  OBVIOUS
<1>1. TypeOK
  <2>1. PanelTypes /\ SocketTypes
    BY PanelKinds DEF Init, PanelTypes, SocketTypes
  <2>2. 0 \in 0..(BufferLimit + 1) /\ 0 \in 0..MaxConnections /\ 0 \in 0..MaxEvents
    BY Limits
  <2>3. ServerTypes
    BY <2>2 DEF Init, ServerTypes
  <2>4. CountTypes
    BY <2>2 DEF Init, CountTypes
  <2>5. SilentTypes
    BY DEF Init, SilentTypes
  <2> QED BY <2>1, <2>3, <2>4, <2>5, TypeParts
<1>2. PanelPart /\ MediaPart
  <2>1. PanelsAgree
    BY DEF Init, PanelsAgree, Busy
  <2>2. SessionsOwned
    BY DEF Init, SessionsOwned, Live
  <2>3. GuardHeld /\ HeaderFirst
    BY DEF Init, GuardHeld, HeaderFirst
  <2> QED BY <2>1, <2>2, <2>3 DEF PanelPart, MediaPart
<1>3. Conns = {} /\ slots = 0 /\ others = 0
  BY DEF Init, Conns, Linked
<1>4. SlotsExact
  BY <1>3, FS_EmptySet DEF SlotsExact
<1> QED BY <1>1, <1>2, <1>4 DEF IngestInvariant

LEMMA IngestPreserved == IngestInvariant /\ [Next]_vars => IngestInvariant'
<1> SUFFICES ASSUME IngestInvariant, [Next]_vars PROVE IngestInvariant'
  OBVIOUS
<1>1. PanelTypes /\ SocketTypes /\ ServerTypes /\ SilentTypes
  BY TypeParts DEF IngestInvariant
<1>2. PanelPart' /\ PanelTypes' /\ SocketTypes'
  BY <1>1, PanelStep DEF IngestInvariant
<1>3. MediaPart' /\ ServerTypes'
  BY <1>1, MediaStep DEF IngestInvariant
<1>4. SlotsExact' /\ CountTypes'
  BY CountStep DEF IngestInvariant
<1>5. SilentTypes'
  BY <1>1, SilentStep
<1>6. TypeOK'
  BY <1>2, <1>3, <1>4, <1>5
  DEF TypeOK, PanelTypes, SocketTypes, ServerTypes, CountTypes, SilentTypes
<1> QED BY <1>2, <1>3, <1>4, <1>6 DEF IngestInvariant

LEMMA IngestHolds == Spec => []IngestInvariant
BY IngestInit, IngestPreserved, PTL DEF Spec
-----------------------------------------------------------------------------
\* Every panel, socket, connection and counter has its type: in particular the
\* slots never go below nought or above MAX_CONNECTIONS (ingest.ts:172-176).
THEOREM IngestTyped == Spec => []TypeOK
<1>1. IngestInvariant => TypeOK
  BY DEF IngestInvariant
<1> QED BY <1>1, IngestHolds, PTL

\* What a panel shows is true: idle or failed it holds no device and no session,
\* live it has a session its button ends, and every socket of its that may still
\* open or send is that session, for any interleaving of starts, stops, camera
\* switches, unmounts and late closes (broadcast.tsx:241-278).
THEOREM PanelsTruthful == Spec => []PanelTruthful
<1>1. IngestInvariant => PanelTruthful
  <2> SUFFICES ASSUME IngestInvariant, NEW p \in mounted
               PROVE  /\ ~ Busy(p) => video[p] = "off" /\ cleanup[p] = None /\ step[p] = "none"
                      /\ phase[p] = "live" => cleanup[p] # None
                      /\ \A s \in Sockets :
                           owner[s] = p /\ net[s] \in {"connecting", "open"} => cleanup[p] = s
    BY DEF PanelTruthful
  <2>1. p \in Panels /\ p # None
    BY NoneIsNone DEF IngestInvariant, TypeOK
  <2> QED BY <2>1 DEF IngestInvariant, PanelPart, PanelsAgree, SessionsOwned, Live
<1> QED BY <1>1, IngestHolds, PTL

\* A channel has one ingest: its guard is held by one connection that has not
\* closed, nobody else's encoder is fed, and what is fed begins with the header
\* of the recording (ingest.ts:57-61, 142-144).
THEOREM OnlyIngest == Spec => []OneIngest
<1>1. IngestInvariant => OneIngest
  <2> SUFFICES ASSUME IngestInvariant PROVE OneIngest
    OBVIOUS
  <2>1. Cardinality(guarded) <= 1
    <3>1. CASE guarded = {}
      <4>1. Cardinality({}) = 0
        BY FS_EmptySet
      <4> QED BY <3>1, <4>1
    <3>2. CASE guarded # {}
      <4>1. PICK s : guarded = {s}
        BY <3>2 DEF IngestInvariant, MediaPart, GuardHeld
      <4>2. Cardinality({s}) = 1
        BY FS_Singleton
      <4> QED BY <4>1, <4>2
    <3> QED BY <3>1, <3>2
  <2>2. active = (guarded # {})
    BY DEF IngestInvariant, TypeOK, MediaPart, GuardHeld
  <2>3. /\ \A s \in Sockets : stage[s] = "fed" => s \in guarded /\ fed[s] # "headless"
        /\ \A s \in guarded : up[s] # "closed"
    BY DEF IngestInvariant, MediaPart, GuardHeld, HeaderFirst, Linked
  <2> QED BY <2>1, <2>2, <2>3 DEF OneIngest
<1> QED BY <1>1, IngestHolds, PTL

\* The slots in use are the channel's open connections and those of others: no
\* way a connection ends leaks one or gives one back twice.
THEOREM NoSlotLeaks == Spec => []SlotsExact
<1>1. IngestInvariant => SlotsExact
  BY DEF IngestInvariant
<1> QED BY <1>1, IngestHolds, PTL
-----------------------------------------------------------------------------
(* Watching a channel.                                                      *)

\* While no second path was claimed beside a session, there is at most one.
Gathered ==
  /\ ~ overlapped => \A p, q \in sessions : p = q
  /\ RouteServes

\* Until something fails, a session means a live key and an entry for its path.
Calm == faults = 0 /\ sessions # {} => live /\ sessions = {route}

\* The types, apart for what the servers keep and for what the page shows.
ServedTypes ==
  /\ warm \subseteq published /\ published \subseteq Paths
  /\ live \in BOOLEAN /\ overlapped \in BOOLEAN
  /\ sessions \subseteq Paths /\ claiming \subseteq Paths /\ shots \subseteq Paths
  /\ route \in Paths \union {NoPath}
  /\ capture \in Paths \union {NoPath}
  /\ frames \in BOOLEAN /\ reaps \in 0..MaxTimers
  /\ thumb \in {"none", "fresh", "old"}
  /\ faults \in 0..MaxFaults
PageTypes ==
  /\ shown \in BOOLEAN /\ wants \in BOOLEAN /\ playing \in BOOLEAN
  /\ broken \in BOOLEAN /\ native \in BOOLEAN /\ stuck \in BOOLEAN
  /\ url \in {"none", "valid", "expired"}

LEMMA ViewingParts == ViewingTypeOK <=> ServedTypes /\ PageTypes
BY DEF ViewingTypeOK, ServedTypes, PageTypes

\* What MediaMTX, the poller, the thumbnails and the faults do to the page: the page
\* alone moves what it shows.
LEMMA PageTypeStep ==
  ASSUME ServedTypes, PageTypes, [ViewingNext]_viewingVars
  PROVE  PageTypes'
<1> USE DEF PageTypes
<1>1. CASE UNCHANGED page
  BY <1>1 DEF page
<1>2. CASE PollChannel \/ PollDegraded
  BY <1>2 DEF ServedTypes, PollChannel, PollDegraded
<1>3. CASE PollFails \/ GetUrlFails
  BY <1>3 DEF PollFails, GetUrlFails
<1>4. CASE GetUrl \/ UrlExpires
  BY <1>4 DEF GetUrl, UrlExpires
<1>5. CASE Ask
  <2>1. /\ playing' = Served
        /\ stuck' = FALSE \/ stuck' = TRUE
        /\ UNCHANGED <<shown, wants, url, broken, native>>
    BY <1>5 DEF Ask
  <2>2. playing' \in BOOLEAN
    BY <2>1 DEF Served
  <2> QED BY <2>1, <2>2
<1> QED BY <1>1, <1>2, <1>3, <1>4, <1>5
        DEF ViewingNext, viewingVars, Encoder, Publish, Unpublish, Warms, Session, Found, Rejected,
            Claimed, Gone, Shoot, Keys, Heartbeat, Lapses, Thumbnail, Reap, EntryStays, Write, Shot,
            Ages, Sweep, Faults, MtxRestart, MediaRestart, KeyLost

\* Every step keeps the types.
LEMMA ViewingTypeStep ==
  ASSUME ViewingTypeOK, [ViewingNext]_viewingVars
  PROVE  ViewingTypeOK'
<1>0. ServedTypes /\ PageTypes' /\ MaxTimers \in Nat /\ MaxFaults \in Nat
  BY ViewingParts, PageTypeStep, BoundsAreNat
<1> SUFFICES ServedTypes'
  BY <1>0 DEF ViewingTypeOK, ServedTypes, PageTypes
<1> USE <1>0 DEF ServedTypes, mtx, poller, still
<1>1. ASSUME NEW p \in Paths, Encoder(p) \/ Warms(p) \/ Found(p) \/ Rejected(p) PROVE ServedTypes'
  BY <1>1 DEF Encoder, Publish, Unpublish, Warms, Found, Rejected
<1>2. ASSUME NEW p \in Paths, Claimed(p) \/ Shoot(p) PROVE ServedTypes'
  BY <1>2 DEF Claimed, Shoot, ShotDue
<1>3. ASSUME NEW p \in Paths, Gone(p) PROVE ServedTypes'
  <2>1. reaps' \in 0..MaxTimers
    BY <1>3 DEF Gone
  <2> QED BY <1>3, <2>1 DEF Gone
<1>4. CASE Keys
  BY <1>4 DEF Keys, Heartbeat, Lapses
<1>5. CASE PollChannel \/ GetUrl \/ UrlExpires \/ Ask
  BY <1>5 DEF PollChannel, GetUrl, UrlExpires, Ask
<1>6. CASE Reap
  BY <1>6 DEF Reap, EntryStays
<1>7. CASE Write \/ Ages \/ Sweep
  BY <1>7 DEF Write, Ages, Sweep
<1>8. CASE Shot
  BY <1>8 DEF Shot
<1>9. CASE Faults
  <2>1. faults' \in 0..MaxFaults
    BY <1>9 DEF Faults, MtxRestart, MediaRestart, KeyLost, PollDegraded, PollFails, GetUrlFails,
           Fault
  <2>2. 0 \in 0..MaxTimers
    OBVIOUS
  <2> QED BY <1>9, <2>1, <2>2
          DEF Faults, MtxRestart, MediaRestart, KeyLost, PollDegraded, PollFails, GetUrlFails
<1>10. CASE UNCHANGED viewingVars
  BY <1>10 DEF viewingVars
<1> QED BY <1>1, <1>2, <1>3, <1>4, <1>5, <1>6, <1>7, <1>8, <1>9, <1>10
        DEF ViewingNext, Session, Thumbnail

\* The channel's sessions, its route and its thumbnail at svc-media, and what the
\* watch page shows, are of the types the code gives them.
THEOREM ViewingTyped == ViewingSpec => []ViewingTypeOK
<1>0. MaxTimers \in Nat /\ MaxFaults \in Nat
  BY BoundsAreNat
<1>1. ViewingInit => ViewingTypeOK
  <2>1. 0 \in 0..MaxTimers /\ 0 \in 0..MaxFaults
    BY <1>0
  <2> QED BY <2>1 DEF ViewingInit, ViewingTypeOK
<1>2. ViewingTypeOK /\ [ViewingNext]_viewingVars => ViewingTypeOK'
  BY ViewingTypeStep
<1> QED BY <1>1, <1>2, PTL DEF ViewingSpec

\* However a channel moves from path to path, channelToPath leads the HLS proxy to
\* a path that has a session, unless a second path was claimed while the first
\* still had its session: claims set the entry and the end of any session deletes
\* it (main.ts, hls-server.ts).
THEOREM RouteLeads == ViewingSpec => []RouteServes
<1>1. ViewingInit => Gathered
  BY DEF ViewingInit, Gathered, RouteServes
<1>2. Gathered /\ [ViewingNext]_viewingVars => Gathered'
  <2> SUFFICES ASSUME Gathered, [ViewingNext]_viewingVars PROVE Gathered' OBVIOUS
  <2> USE DEF Gathered, RouteServes, poller
  <2>1. ASSUME NEW p \in Paths, Claimed(p) \/ Gone(p) PROVE Gathered'
    BY <2>1 DEF Claimed, Gone
  <2>2. CASE MediaRestart
    BY <2>2 DEF MediaRestart
  <2>3. CASE UNCHANGED <<sessions, route, overlapped>>
    BY <2>3
  <2> QED BY <2>1, <2>2, <2>3 DEF ViewingNext, viewingVars, Encoder, Publish, Unpublish, Warms,
        Session, Found, Rejected, Shoot, Keys, Heartbeat, Lapses, PollChannel,
        GetUrl, UrlExpires, Ask, Thumbnail, Reap, EntryStays, Write, Shot,
        Ages, Sweep, Faults, MtxRestart, KeyLost, PollDegraded, PollFails, GetUrlFails
<1>3. Gathered => RouteServes
  BY DEF Gathered
<1> QED BY <1>1, <1>2, <1>3, PTL DEF ViewingSpec

\* While nothing is restarted and no key is lost, a channel never has two sessions,
\* and the one it has is live and the one its viewers are led to: the live key in
\* Redis keeps every other path from being claimed (main.ts, channel.service.ts).
THEOREM OneStreamServed ==
  ViewingSpec => [](faults = 0 /\ sessions # {} => live /\ sessions = {route})
<1>1. ViewingInit => Calm
  BY DEF ViewingInit, Calm
<1>2. ViewingTypeOK /\ ViewingTypeOK' /\ Calm /\ [ViewingNext]_viewingVars => Calm'
  <2> SUFFICES ASSUME ViewingTypeOK, ViewingTypeOK', Calm, [ViewingNext]_viewingVars, faults' = 0 PROVE Calm'
    BY DEF Calm
  <2>0. faults \in Nat
    BY BoundsAreNat DEF ViewingTypeOK
  <2>f. ~ Fault
    BY <2>0 DEF Fault
  <2> USE DEF Calm, poller
  <2>1. ASSUME NEW p \in Paths, Claimed(p) \/ Gone(p) PROVE Calm'
    BY <2>1 DEF Claimed, Gone
  <2>2. CASE Heartbeat \/ Lapses
    BY <2>2 DEF Heartbeat, Lapses
  <2>3. CASE UNCHANGED <<live, sessions, route, faults>>
    BY <2>3
  <2> QED BY <2>f, <2>1, <2>2, <2>3 DEF ViewingNext, viewingVars, Encoder, Publish, Unpublish, Warms,
        Session, Found, Rejected, Shoot, Keys, PollChannel, GetUrl, UrlExpires,
        Ask, Thumbnail, Reap, EntryStays, Write, Shot, Ages, Sweep, Faults,
        MtxRestart, MediaRestart, KeyLost, PollDegraded, PollFails, GetUrlFails
<1>3. Calm => (faults = 0 /\ sessions # {} => live /\ sessions = {route})
  BY DEF Calm
<1> QED BY <1>1, <1>2, <1>3, ViewingTyped, PTL DEF ViewingSpec

-----------------------------------------------------------------------------
(* The landing curtain.                                                     *)

\* The gate shows the curtain on the page only, and the first run begins with it.
GateOpens ==
  /\ gate.visible => gate.page = "here"
  /\ gate.page = "away" => last = 0
\* Runs come one after another, and each is cleaned up before the next;
RunsInTurn ==
  \A e \in Runs : /\ e > last => run[e].image = "none"
                  /\ e < last => run[e].clean
\* what ticks belongs to the last run, whose image is there;
Ticks(r) == r.loop \/ r.auto \/ r.fall
OneTicks ==
  \A e \in Runs : Ticks(run[e]) => e = last /\ ~ run[e].clean /\ run[e].image = "here"
\* and its fallback timer is only set for a sheet that falls.
FallsEarned == \A e \in Runs : run[e].fall => sheet.collapsing

CurtainInvariant ==
  CurtainTypeOK /\ GateOpens /\ RunsInTurn /\ (late = {} => OneTicks /\ FallsEarned)

\* Runs of the effect are records of the type, cleaned up, started or begun anew.
LEMMA RunTypes ==
  /\ NoRun \in Run /\ Pristine \in Sheet
  /\ \A r \in Run : Cleaned(r) \in Run /\ Started(r) \in Run
  /\ \A s \in Sheet : Falling(s) \in Sheet /\ Sliced(s) \in Sheet
BY DEF NoRun, Run, Pristine, Sheet, Cleaned, Started, Falling, Sliced

\* What each of these does to the fields the invariant reads.
LEMMA RunFields ==
  /\ NoRun.image = "none" /\ ~ NoRun.clean /\ ~ Ticks(NoRun) /\ ~ NoRun.fall
  /\ \A r \in Run :
       /\ Cleaned(r).image = r.image /\ Cleaned(r).clean /\ ~ Ticks(Cleaned(r)) /\ ~ Cleaned(r).fall
       /\ Started(r).image = "here" /\ Started(r).clean = r.clean /\ Started(r).fall = r.fall
BY DEF NoRun, Run, Cleaned, Started, Ticks
LEMMA SheetFields ==
  /\ ~ Pristine.collapsing
  /\ \A s \in Sheet : Falling(s).collapsing /\ Sliced(s).collapsing
BY DEF Pristine, Sheet, Falling, Sliced

\* The cleanup of a run, seen from every run.
LEMMA CleanOne ==
  ASSUME NEW runs \in [Runs -> Run], NEW n
  PROVE  /\ [runs EXCEPT ![n] = Cleaned(@)] \in [Runs -> Run]
         /\ \A e \in Runs : [runs EXCEPT ![n] = Cleaned(@)][e] =
                                IF e = n THEN Cleaned(runs[e]) ELSE runs[e]
<1> DEFINE after == [runs EXCEPT ![n] = Cleaned(@)]
<1>1. \A e \in Runs : after[e] = IF e = n THEN Cleaned(runs[e]) ELSE runs[e]
  OBVIOUS
<1>2. \A e \in Runs : after[e] \in Run
  BY <1>1, RunTypes
<1>3. after = [e \in Runs |-> after[e]]
  OBVIOUS
<1> HIDE DEF after
<1>4. after \in [Runs -> Run]
  BY <1>2, <1>3
<1> QED BY <1>1, <1>4 DEF after

\* Whoever cleans up or lets runs be keeps them in turn.
LEMMA Calmer ==
  ASSUME CurtainInvariant, CurtainTypeOK', GateOpens', last' = last, late' = late,
         \A e \in Runs : run'[e] = run[e] \/ run'[e] = Cleaned(run[e]),
         late = {} => \A e \in Runs : run[e].fall => sheet'.collapsing
  PROVE  CurtainInvariant'
<1>1. run \in [Runs -> Run]
  BY DEF CurtainInvariant, CurtainTypeOK
<1>2. \A e \in Runs : /\ run'[e].image = run[e].image
                      /\ run[e].clean => run'[e].clean
                      /\ run'[e].fall => run[e].fall
                      /\ Ticks(run'[e]) => Ticks(run[e]) /\ run'[e].clean = run[e].clean
  BY <1>1, RunFields
<1>3. Runs' = Runs
  BY DEF Runs
<1> QED BY <1>2, <1>3 DEF CurtainInvariant, RunsInTurn, OneTicks, FallsEarned

\* Types of what the actions do to the sheet and the gate.
LEMMA TornTypes ==
  ASSUME CurtainTypeOK
  PROVE  /\ \A p \in Points : [sheet EXCEPT !.off = @ \union {p}] \in Sheet
         /\ \A c \in SUBSET Links : /\ [sheet EXCEPT !.torn = @ \union c] \in Sheet
                                    /\ [sheet EXCEPT !.started = TRUE, !.torn = @ \union c] \in Sheet
BY DEF CurtainTypeOK, Sheet
LEMMA GateTypes ==
  ASSUME CurtainTypeOK
  PROVE  /\ [gate EXCEPT !.phase = "revealed"] \in Gate
         /\ [gate EXCEPT !.visible = FALSE] \in Gate
         /\ [gate EXCEPT !.page = "left", !.visible = FALSE] \in Gate
         /\ \A b \in BOOLEAN : [gate EXCEPT !.page = "here", !.visible = b] \in Gate
BY DEF CurtainTypeOK, Gate

LEMMA TouchStep ==
  ASSUME CurtainInvariant,
         \/ \E p \in Points : Drop(p)
         \/ \E l \in Links : Tear(l)
         \/ Grab \/ Resize \/ Skip \/ ToggleDismiss \/ Midnight
  PROVE  CurtainInvariant'
<1>1. CurtainTypeOK
  BY DEF CurtainInvariant
<1>2. UNCHANGED <<gate, run, last, late>>
  BY DEF Drop, Tear, Grab, Resize, Skip, ToggleDismiss, Midnight
<1>3. sheet' \in Sheet /\ (sheet.collapsing => sheet'.collapsing)
  <2> USE DEF Sheet
  <2>1. ASSUME NEW p \in Points, Drop(p) PROVE sheet' \in Sheet /\ sheet'.collapsing = sheet.collapsing
    BY <1>1, <2>1, TornTypes DEF Drop, CurtainTypeOK
  <2>2. ASSUME NEW l \in Links, Tear(l) PROVE sheet' \in Sheet /\ sheet'.collapsing = sheet.collapsing
    BY <1>1, <2>2, TornTypes DEF Tear, CurtainTypeOK
  <2>3. CASE Grab
    BY <1>1, <2>3, TornTypes DEF Grab, CurtainTypeOK
  <2>4. CASE Resize
    BY <2>4, RunTypes DEF Resize
  <2>5. CASE Skip
    BY <1>1, <2>5, RunTypes, SheetFields DEF Skip, CurtainTypeOK
  <2>6. CASE ToggleDismiss \/ Midnight
    BY <1>1, <2>6 DEF ToggleDismiss, Midnight, CurtainTypeOK
  <2> QED BY <2>1, <2>2, <2>3, <2>4, <2>5, <2>6
<1>4. CurtainTypeOK'
  BY <1>1, <1>2, <1>3 DEF CurtainTypeOK, Drop, Tear, Grab, Resize, Skip, ToggleDismiss, Midnight, Runs
<1>5. GateOpens'
  BY <1>2 DEF CurtainInvariant, GateOpens
<1> QED BY <1>2, <1>3, <1>4, <1>5, Calmer DEF CurtainInvariant, FallsEarned

\* Leaving only cleans up.
LEMMA LeaveStep ==
  ASSUME CurtainInvariant, LoginDone \/ LeavePage
  PROVE  CurtainInvariant'
<1>1. CurtainTypeOK /\ run \in [Runs -> Run] /\ Runs' = Runs
  BY DEF CurtainInvariant, CurtainTypeOK, Runs
<1>2. UNCHANGED <<until, sheet, last, ready, revealed, stray, late>>
  BY DEF LoginDone, LeavePage, Goes
<1>3. \/ run' = run
      \/ run' = [run EXCEPT ![last] = Cleaned(@)]
  BY DEF LoginDone, LeavePage, Goes
<1>4. /\ run' \in [Runs -> Run]
      /\ \A e \in Runs : run'[e] = run[e] \/ run'[e] = Cleaned(run[e])
  BY <1>1, <1>3, CleanOne
<1>5. gate' \in Gate /\ GateOpens'
  <2>1. gate \in Gate /\ GateOpens
    BY <1>1 DEF CurtainInvariant, CurtainTypeOK
  <2>2. CASE LoginDone
    BY <1>1, <1>2, <2>1, <2>2, GateTypes DEF LoginDone, Goes, GateOpens, Gate
  <2>3. CASE LeavePage
    BY <1>1, <1>2, <2>1, <2>3, GateTypes DEF LeavePage, Goes, GateOpens, Gate
  <2> QED BY <2>2, <2>3
<1>6. CurtainTypeOK'
  BY <1>1, <1>2, <1>4, <1>5 DEF CurtainTypeOK
<1> QED BY <1>2, <1>4, <1>5, <1>6, Calmer DEF CurtainInvariant, FallsEarned

\* fireReveal, on runs of which nothing new ticks.
LEMMA RevealCalms ==
  ASSUME CurtainTypeOK, GateOpens, NEW runs \in [Runs -> Run], Reveal(runs), last' = last
  PROVE  /\ run' \in [Runs -> Run] /\ gate' \in Gate /\ revealed' \in BOOLEAN /\ GateOpens'
         /\ \A e \in Runs : run'[e] = runs[e] \/ run'[e] = Cleaned(runs[e])
<1>1. \/ run' = runs
      \/ run' = [runs EXCEPT ![last] = Cleaned(@)]
  BY DEF Reveal
<1>2. gate \in Gate
  BY DEF CurtainTypeOK
<1>3. gate' = gate \/ gate' = [gate EXCEPT !.phase = "revealed"]
  BY DEF Reveal
<1>4. gate' \in Gate /\ GateOpens'
  BY <1>2, <1>3, GateTypes DEF GateOpens, Gate
<1> QED BY <1>1, <1>4, CleanOne DEF Reveal

LEMMA RevealStep ==
  ASSUME CurtainInvariant, StrayFires \/ \E e \in Runs : FallFires(e) \/ SheetGone(e)
  PROVE  CurtainInvariant'
<1>1. /\ CurtainTypeOK /\ GateOpens /\ run \in [Runs -> Run] /\ Runs' = Runs
  BY DEF CurtainInvariant, CurtainTypeOK, Runs
<1>2. UNCHANGED <<until, sheet, last, ready, late>>
  BY DEF StrayFires, FallFires, SheetGone
<1>3. /\ stray' \in BOOLEAN
  BY <1>1 DEF StrayFires, FallFires, SheetGone, CurtainTypeOK
<1>4. CASE StrayFires \/ \E e \in Runs : SheetGone(e)
  <2>1. Reveal(run)
    BY <1>4 DEF StrayFires, SheetGone
  <2>2. /\ run' \in [Runs -> Run] /\ gate' \in Gate /\ revealed' \in BOOLEAN /\ GateOpens'
        /\ \A e \in Runs : run'[e] = run[e] \/ run'[e] = Cleaned(run[e])
    BY <1>1, <1>2, <2>1, RevealCalms
  <2>3. CurtainTypeOK'
    BY <1>1, <1>2, <1>3, <2>2 DEF CurtainTypeOK
  <2> QED BY <1>2, <2>2, <2>3, Calmer DEF CurtainInvariant, FallsEarned
<1>5. ASSUME NEW e \in Runs, FallFires(e) PROVE CurtainInvariant'
  <2> DEFINE runs == [run EXCEPT ![e].fall = FALSE]
  <2>1. /\ runs \in [Runs -> Run]
        /\ \A f \in Runs : /\ runs[f].image = run[f].image /\ runs[f].clean = run[f].clean
                           /\ Ticks(runs[f]) => Ticks(run[f])
                           /\ runs[f].fall => run[f].fall
    BY <1>1 DEF Run, Ticks
  <2>2. Reveal(runs)
    BY <1>5 DEF FallFires
  <2> HIDE DEF runs
  <2>3. /\ run' \in [Runs -> Run] /\ gate' \in Gate /\ revealed' \in BOOLEAN /\ GateOpens'
        /\ \A f \in Runs : run'[f] = runs[f] \/ run'[f] = Cleaned(runs[f])
    BY <1>1, <1>2, <2>1, <2>2, RevealCalms
  <2>4. CurtainTypeOK'
    BY <1>1, <1>2, <1>3, <2>3 DEF CurtainTypeOK
  <2>5. \A f \in Runs : /\ run'[f].image = run[f].image
                        /\ run[f].clean => run'[f].clean
                        /\ run'[f].fall => run[f].fall
                        /\ Ticks(run'[f]) => Ticks(run[f]) /\ run'[f].clean = run[f].clean
    BY <2>1, <2>3, RunFields
  <2> QED BY <1>1, <1>2, <2>3, <2>4, <2>5 DEF CurtainInvariant, RunsInTurn, OneTicks, FallsEarned
<1> QED BY <1>4, <1>5

\* triggerCollapse: the timer it sets is for a sheet it lets fall.
LEMMA CollapseStep ==
  ASSUME CurtainInvariant, NEW e \in Runs, LoosePart(e) \/ AutoFires(e)
  PROVE  CurtainInvariant'
<1>1. /\ CurtainTypeOK /\ GateOpens /\ run \in [Runs -> Run] /\ Runs' = Runs /\ sheet \in Sheet
  BY DEF CurtainInvariant, CurtainTypeOK, Runs
<1>2. UNCHANGED <<until, gate, last, ready, revealed, late>> /\ Ticks(run[e])
  BY DEF LoosePart, AutoFires, Ticks
<1>3. PICK runs \in [Runs -> Run] :
        /\ Collapse(runs, e)
        /\ \A f \in Runs : /\ runs[f].image = run[f].image /\ runs[f].clean = run[f].clean
                           /\ Ticks(runs[f]) => Ticks(run[f])
                           /\ runs[f].fall = run[f].fall
  <2>1. CASE LoosePart(e)
    BY <1>1, <2>1 DEF LoosePart
  <2>2. CASE AutoFires(e)
    <3> DEFINE rs == [run EXCEPT ![e].auto = FALSE]
    <3>1. /\ rs \in [Runs -> Run]
          /\ \A f \in Runs : /\ rs[f].image = run[f].image /\ rs[f].clean = run[f].clean
                             /\ Ticks(rs[f]) => Ticks(run[f])
                             /\ rs[f].fall = run[f].fall
      BY <1>1 DEF Run, Ticks
    <3>2. Collapse(rs, e)
      BY <2>2 DEF AutoFires
    <3> HIDE DEF rs
    <3> QED BY <3>1, <3>2
  <2> QED BY <2>1, <2>2
<1>4. CASE sheet.made /\ ~ sheet.collapsing
  <2>1. /\ sheet' = Falling(sheet) /\ run' = [runs EXCEPT ![e].fall = TRUE]
        /\ stray' = (stray \/ runs[e].fall)
    BY <1>3, <1>4 DEF Collapse
  <2>2. run' \in [Runs -> Run]
    BY <1>3, <2>1 DEF Run
  <2>3. \A f \in Runs : /\ run'[f].image = run[f].image /\ run'[f].clean = run[f].clean
                        /\ Ticks(run'[f]) => Ticks(run[f]) \/ f = e
    BY <1>3, <2>1 DEF Run, Ticks
  <2>4. sheet' \in Sheet /\ sheet'.collapsing
    BY <1>1, <2>1, RunTypes, SheetFields
  <2>5. stray' \in BOOLEAN
    BY <1>1, <1>3, <2>1 DEF CurtainTypeOK, Run
  <2>6. CurtainTypeOK'
    BY <1>1, <1>2, <2>2, <2>4, <2>5 DEF CurtainTypeOK
  <2> QED BY <1>1, <1>2, <2>3, <2>4, <2>6 DEF CurtainInvariant, GateOpens, RunsInTurn, OneTicks, FallsEarned
<1>5. CASE ~ (sheet.made /\ ~ sheet.collapsing)
  <2>1. run' = runs /\ UNCHANGED <<sheet, stray>>
    BY <1>3, <1>5 DEF Collapse
  <2>2. CurtainTypeOK'
    BY <1>1, <1>2, <1>3, <2>1 DEF CurtainTypeOK
  <2> QED BY <1>1, <1>2, <1>3, <2>1, <2>2 DEF CurtainInvariant, GateOpens, RunsInTurn, OneTicks, FallsEarned
<1> QED BY <1>4, <1>5

\* An image that loads in time belongs to the last run; of any other the history
\* makes a note.
LEMMA ImageStep ==
  ASSUME CurtainInvariant, NEW e \in Runs, Loaded(e)
  PROVE  CurtainInvariant'
<1>1. /\ CurtainTypeOK /\ GateOpens /\ run \in [Runs -> Run] /\ Runs' = Runs
      /\ last \in Nat /\ e \in Nat /\ late \subseteq Runs
  BY SomeRuns DEF CurtainInvariant, CurtainTypeOK, Runs
<1>2. UNCHANGED <<until, gate, last, revealed, stray>> /\ run[e].image = "loading"
  BY DEF Loaded, ImageLoads, ImageBreaks
<1>3. e <= last /\ (e = last \/ run[e].clean)
  BY <1>1, <1>2 DEF CurtainInvariant, RunsInTurn
<1>4. late = {} => ~ Ticks(run[e])
  BY <1>1, <1>2 DEF CurtainInvariant, OneTicks
<1>5. CASE ImageLoads(e)
  <2>1. /\ run' = [run EXCEPT ![e] = Started(@)] /\ sheet' = Pristine /\ ready' = TRUE
        /\ late' = IF run[e].clean THEN late \union {e} ELSE late
    BY <1>5 DEF ImageLoads
  <2>2. run' \in [Runs -> Run]
    BY <1>1, <2>1, RunTypes
  <2>3. \A f \in Runs : run'[f] = IF f = e THEN Started(run[e]) ELSE run[f]
    BY <1>1, <2>1
  <2>4. /\ run'[e].image = "here" /\ run'[e].clean = run[e].clean /\ run'[e].fall = run[e].fall
    BY <1>1, <2>3, RunFields
  <2>5. CurtainTypeOK'
    BY <1>1, <1>2, <2>1, <2>2, RunTypes DEF CurtainTypeOK
  <2>6. RunsInTurn'
    BY <1>1, <1>2, <1>3, <2>3, <2>4 DEF CurtainInvariant, RunsInTurn
  <2>7. ASSUME late' = {} PROVE OneTicks' /\ FallsEarned'
    <3>1. late = {} /\ ~ run[e].clean /\ e = last
      BY <1>3, <2>1, <2>7
    <3>2. \A f \in Runs : f # e => ~ Ticks(run[f])
      BY <1>1, <3>1 DEF CurtainInvariant, OneTicks
    <3>3. \A f \in Runs : ~ run'[f].fall
      BY <1>4, <2>3, <2>4, <3>1, <3>2 DEF Ticks
    <3> QED BY <1>1, <1>2, <2>3, <2>4, <3>1, <3>2, <3>3 DEF OneTicks, FallsEarned
  <2> QED BY <1>1, <1>2, <2>5, <2>6, <2>7 DEF CurtainInvariant, GateOpens
<1>6. CASE ImageBreaks(e)
  <2>1. /\ run' = [run EXCEPT ![e].image = "broken"]
        /\ UNCHANGED <<sheet, ready, late>>
    BY <1>6 DEF ImageBreaks
  <2>2. run' \in [Runs -> Run]
    BY <1>1, <2>1 DEF Run
  <2>3. \A f \in Runs : /\ f # e => run'[f] = run[f]
                        /\ run'[f].clean = run[f].clean /\ run'[f].fall = run[f].fall
                        /\ Ticks(run'[f]) => Ticks(run[f])
    BY <1>1, <2>1 DEF Run, Ticks
  <2>4. CurtainTypeOK'
    BY <1>1, <1>2, <2>1, <2>2 DEF CurtainTypeOK
  <2> QED BY <1>1, <1>2, <1>3, <1>4, <2>1, <2>3, <2>4
         DEF CurtainInvariant, GateOpens, RunsInTurn, OneTicks, FallsEarned
<1> QED BY <1>5, <1>6 DEF Loaded

\* A run of the effect begins beside runs that tick no longer.
LEMMA BeginStep ==
  ASSUME CurtainInvariant, NEW runs \in [Runs -> Run], NEW e \in Runs,
         Begins(runs, e), last' = e, e = last + 1, GateOpens',
         \A f \in Runs : /\ f > last => runs[f].image = "none"
                         /\ f <= last => runs[f].clean
                         /\ late = {} => ~ Ticks(runs[f]),
         gate' \in Gate, until' \in {"none", "today", "past"},
         UNCHANGED <<revealed, stray, late>>
  PROVE  CurtainInvariant'
<1>1. /\ CurtainTypeOK /\ Runs' = Runs /\ last \in Nat /\ Runs \subseteq Nat /\ e \in 0..MaxRuns
  BY SomeRuns DEF CurtainInvariant, CurtainTypeOK, Runs
<1>2. /\ Started(NoRun) \in Run /\ Started(NoRun).image = "here"
      /\ ~ Started(NoRun).clean /\ ~ Started(NoRun).fall
  BY RunTypes, RunFields
<1>3. LET r == [NoRun EXCEPT !.image = "loading"] IN
      r \in Run /\ ~ Ticks(r) /\ ~ r.fall
  BY DEF NoRun, Run, Ticks
<1>4. PICK r \in Run : /\ run' = [runs EXCEPT ![e] = r] /\ ~ r.fall
                       /\ Ticks(r) => ~ r.clean /\ r.image = "here"
  BY <1>2, <1>3 DEF Begins
<1>5. sheet' \in Sheet /\ ready' \in BOOLEAN
  BY <1>1, RunTypes DEF Begins, CurtainTypeOK
<1>6. run' \in [Runs -> Run] /\ \A f \in Runs : run'[f] = IF f = e THEN r ELSE runs[f]
  BY <1>4
<1>7. CurtainTypeOK'
  BY <1>1, <1>5, <1>6 DEF CurtainTypeOK
<1>8. RunsInTurn'
  BY <1>1, <1>6 DEF RunsInTurn
<1>9. late = {} => OneTicks' /\ FallsEarned'
  BY <1>1, <1>4, <1>6 DEF OneTicks, FallsEarned, Ticks
<1> QED BY <1>7, <1>8, <1>9 DEF CurtainInvariant

LEMMA OpenStep ==
  ASSUME CurtainInvariant, Open
  PROVE  CurtainInvariant'
<1>1. /\ CurtainTypeOK /\ run \in [Runs -> Run] /\ last = 0 /\ 1 \in Runs /\ Runs \subseteq Nat /\ gate \in Gate
      /\ UNCHANGED <<revealed, stray, late>>
  BY SomeRuns DEF CurtainInvariant, GateOpens, CurtainTypeOK, Open, Runs
<1>2. /\ until' \in {"none", "today", "past"}
      /\ gate' \in Gate /\ gate'.page = "here"
  BY <1>1, GateTypes DEF Open, CurtainTypeOK, HiddenNow, Gate
<1>3. GateOpens'
  BY <1>2 DEF GateOpens
<1>4. \A f \in Runs : f > 0 /\ run[f].image = "none" /\ (late = {} => ~ Ticks(run[f]))
  BY <1>1 DEF CurtainInvariant, RunsInTurn, OneTicks, Runs
<1>5. CASE HiddenNow
  <2>1. UNCHANGED <<sheet, run, last, ready>>
    BY <1>5 DEF Open
  <2>2. CurtainTypeOK'
    BY <1>1, <1>2, <2>1 DEF CurtainTypeOK, Runs
  <2>3. late = {} => \A e \in Runs : run[e].fall => sheet'.collapsing
    BY <2>1 DEF CurtainInvariant, FallsEarned
  <2> QED BY <1>1, <1>3, <2>1, <2>2, <2>3, Calmer
<1>6. CASE ~ HiddenNow
  <2>1. last' = 1 /\ Begins(run, 1)
    BY <1>6 DEF Open
  <2>2. 1 = last + 1 /\ \A f \in Runs : f > last /\ ~ f <= last
    BY <1>1, <1>4
  <2> QED BY <1>1, <1>2, <1>3, <1>4, <2>1, <2>2, BeginStep
<1> QED BY <1>5, <1>6

LEMMA ListStep ==
  ASSUME CurtainInvariant, ListChanges
  PROVE  CurtainInvariant'
<1> DEFINE runs == [run EXCEPT ![last] = Cleaned(@)]
<1>1. /\ CurtainTypeOK /\ run \in [Runs -> Run] /\ last \in Nat /\ last < MaxRuns /\ MaxRuns \in Nat
      /\ gate \in Gate /\ until \in {"none", "today", "past"} /\ GateOpens
  BY SomeRuns DEF CurtainInvariant, CurtainTypeOK, ListChanges
<1>2. last + 1 \in Runs /\ Runs \subseteq Nat
  BY <1>1 DEF Runs
<1>3. /\ runs \in [Runs -> Run]
      /\ \A f \in Runs : runs[f] = IF f = last THEN Cleaned(run[f]) ELSE run[f]
  BY <1>1, CleanOne
<1>4. Begins(runs, last + 1) /\ last' = last + 1 /\ UNCHANGED <<until, gate, revealed, stray, late>>
  BY DEF ListChanges
<1>5. GateOpens'
  BY <1>1, <1>4 DEF ListChanges, Curtain, GateOpens, Gate
<1> HIDE DEF runs
<1>6. \A f \in Runs : /\ f > last => runs[f].image = "none"
                      /\ f <= last => runs[f].clean
                      /\ late = {} => ~ Ticks(runs[f])
  BY <1>1, <1>2, <1>3, RunFields DEF CurtainInvariant, RunsInTurn, OneTicks
<1> QED BY <1>1, <1>2, <1>3, <1>4, <1>5, <1>6, BeginStep

\* Whatever the visitor and the page do, the runs of the curtain's effect stay in
\* turn, and only the last one ticks unless an image came late (use-tearable.ts).
THEOREM CurtainKept == CurtainSpec => []CurtainInvariant
<1>1. CurtainInit => CurtainInvariant
  <2> SUFFICES ASSUME CurtainInit PROVE CurtainInvariant OBVIOUS
  <2>1. /\ gate \in Gate /\ ~ gate.visible /\ sheet \in Sheet /\ last = 0
        /\ run \in [Runs -> Run]
        /\ \A e \in Runs : run[e] = NoRun
    BY RunTypes DEF CurtainInit, Gate, Sheet, Pristine
  <2>2. 0 \in 0..MaxRuns /\ \A e \in Runs : ~ e < 0
    BY SomeRuns DEF Runs
  <2>3. CurtainTypeOK
    BY <2>1, <2>2 DEF CurtainInit, CurtainTypeOK
  <2> QED BY <2>1, <2>2, <2>3, RunFields DEF CurtainInvariant, GateOpens, RunsInTurn, OneTicks, FallsEarned
<1>2. CurtainInvariant /\ [CurtainNext]_curtainVars => CurtainInvariant'
  <2> SUFFICES ASSUME CurtainInvariant, [CurtainNext]_curtainVars PROVE CurtainInvariant' OBVIOUS
  <2>1. CASE UNCHANGED curtainVars
    BY <2>1 DEF curtainVars, CurtainInvariant, CurtainTypeOK, GateOpens, RunsInTurn, OneTicks, FallsEarned, Runs
  <2> QED BY <2>1, TouchStep, LeaveStep, RevealStep, CollapseStep, ImageStep, OpenStep, ListStep DEF CurtainNext
<1> QED BY <1>1, <1>2, PTL DEF CurtainSpec

\* The gate, the sheet and the runs of the effect are of the types the code gives
\* them (landing-gate.tsx, tearable.ts, use-tearable.ts).
THEOREM CurtainTyped == CurtainSpec => []CurtainTypeOK
<1>1. CurtainInvariant => CurtainTypeOK
  BY DEF CurtainInvariant
<1> QED BY <1>1, CurtainKept, PTL

\* However often the effect runs again and whatever is resized, dismissed or torn
\* in between, two runs never have a frame loop or a timer at once: each cleanup
\* stops what its run started, unless an image loads after it (use-tearable.ts).
THEOREM OneRunTicks ==
  CurtainSpec => [](late = {} => \A d, e \in Runs : Ticks(run[d]) /\ Ticks(run[e]) => d = e)
<1>1. CurtainInvariant =>
        (late = {} => \A d, e \in Runs : Ticks(run[d]) /\ Ticks(run[e]) => d = e)
  BY DEF CurtainInvariant, OneTicks
<1> QED BY <1>1, CurtainKept, PTL

\* The form never shows up behind a sheet that hangs: with no late image and no
\* Skip pending, fireReveal finds the sheet falling (use-tearable.ts).
THEOREM FormIsEarned == CurtainSpec => RevealEarned
<1>1. CurtainInvariant /\ [CurtainNext]_curtainVars =>
        [(~ revealed /\ revealed' /\ Curtain /\ late = {}) => (sheet.collapsing \/ stray)]_curtainVars
  <2> SUFFICES ASSUME CurtainInvariant, CurtainNext, ~ revealed, revealed', late = {}
               PROVE  sheet.collapsing \/ stray
    OBVIOUS
  <2>1. StrayFires \/ \E e \in Runs : FallFires(e) \/ SheetGone(e)
    BY DEF CurtainNext, Open, ListChanges, LoginDone, LeavePage, Goes, ToggleDismiss,
           Midnight, Grab, Resize, Skip, Drop, Tear, Loaded, ImageLoads,
           ImageBreaks, LoosePart, AutoFires
  <2> QED BY <2>1 DEF StrayFires, FallFires, SheetGone, CurtainInvariant, FallsEarned
<1> QED BY <1>1, CurtainKept, PTL DEF CurtainSpec, RevealEarned

-----------------------------------------------------------------------------
(* The studio.                                                              *)

Row   == [owner : Users, key : 1..MaxKeys]
View  == [on : {"loading", "failed", "form", "panel"}, channel : Slugs \union {NoChannel},
          prefix : 0..MaxKeys, created : 0..MaxKeys, shown : 0..MaxKeys]
Fetch == [at : {"none", "some"}, row : Slugs \union {NoChannel}, key : 0..MaxKeys]
Calling  == [at : {"idle", "sent", "unheard", "done"}, key : 0..MaxKeys]

\* The state, with the sequence of keys as one, and what a row's fields are.
LEMMA Typed ==
  ASSUME StudioTypeOK
  PROVE  /\ user \in [Tabs -> Users] /\ rows \in [Slugs -> Row \union {NoChannel}]
         /\ minter \in Seq(Tabs) /\ Len(minter) \in Nat /\ Len(minter) <= MaxKeys
         /\ tab \in [Tabs -> View] /\ fetch \in [Tabs -> Fetch]
         /\ call \in [Tabs -> [Ops -> Calling]] /\ rare \in Nat /\ MaxKeys \in Nat
         /\ DOMAIN minter = 1..Len(minter) /\ NoChannel \notin Slugs /\ NoChannel \notin Row
<1>1. MaxKeys \in Nat /\ MaxRare \in Nat /\ NoChannel \notin Slugs /\ NoChannel \notin [owner : Users, key : Nat]
  BY NoChannelIsNone, Bounds
<1>2. \A r \in Row : r \in [owner : Users, key : Nat]
  BY <1>1 DEF Row
<1>3. Len(minter) \in Nat /\ minter \in Seq(Tabs)
  BY <1>1 DEF StudioTypeOK
<1> QED BY <1>1, <1>2, <1>3 DEF StudioTypeOK, Row, View, Fetch, Calling

\* One call of one tab moves on.
LEMMA Moved ==
  ASSUME StudioTypeOK, NEW t \in Tabs, NEW op \in Ops, NEW c \in Calling,
         call' = [call EXCEPT ![t][op] = c]
  PROVE  /\ call' \in [Tabs -> [Ops -> Calling]] /\ call'[t][op] = c
         /\ \A u \in Tabs, o \in Ops : u # t \/ o # op => call'[u][o] = call[u][o]
<1>1. call \in [Tabs -> [Ops -> Calling]]
  BY Typed
<1> DEFINE cs == [call[t] EXCEPT ![op] = c]
<1>2. cs \in [Ops -> Calling] /\ cs[op] = c /\ \A o \in Ops : o # op => cs[o] = call[t][o]
  BY <1>1
<1>3. call' = [call EXCEPT ![t] = cs]
  OBVIOUS
<1> HIDE DEF cs
<1>4. call' \in [Tabs -> [Ops -> Calling]] /\ call'[t] = cs /\ \A u \in Tabs : u # t => call'[u] = call[u]
  BY <1>1, <1>2, <1>3
<1> QED BY <1>2, <1>4

\* What a call of createChannel or rotateStreamKey that returns leaves behind.
LEMMA Returned ==
  ASSUME StudioTypeOK, NEW t \in Tabs, NEW op \in Ops, Return(t, op)
  PROVE  /\ Len(minter) + 1 \in 1..MaxKeys /\ minter' \in Seq(Tabs)
         /\ Len(minter') = Len(minter) + 1 /\ minter'[Len(minter) + 1] = t
         /\ \A j \in 1..Len(minter) : minter'[j] = minter[j]
         /\ call' \in [Tabs -> [Ops -> Calling]]
         /\ \A u \in Tabs, o \in Ops : u # t \/ o # op => call'[u][o] = call[u][o]
         /\ \/ call'[t][op] = [at |-> "done", key |-> Len(minter) + 1]
            \/ call[t][op].at = "unheard" /\ call'[t][op] = Rest
<1>1. /\ minter \in Seq(Tabs) /\ Len(minter) \in Nat /\ MaxKeys \in Nat /\ Len(minter) < MaxKeys
      /\ call \in [Tabs -> [Ops -> Calling]] /\ minter' = Append(minter, t)
  BY Typed DEF Return, Latest
<1>2. /\ Len(minter) + 1 \in 1..MaxKeys /\ minter' \in Seq(Tabs)
      /\ Len(minter') = Len(minter) + 1 /\ minter'[Len(minter) + 1] = t
      /\ \A j \in 1..Len(minter) : minter'[j] = minter[j]
  BY <1>1
<1> DEFINE done == [at |-> "done", key |-> Len(minter) + 1]
           c == IF call[t][op].at = "unheard" THEN Rest ELSE done
<1>3. Rest \in Calling /\ done \in Calling
  BY <1>1, <1>2 DEF Rest, Calling
<1>4. call' = [call EXCEPT ![t][op] = c]
  BY <1>1 DEF Return, Latest
<1>5. c \in Calling /\ (c = done \/ (call[t][op].at = "unheard" /\ c = Rest))
  BY <1>3
<1> HIDE DEF done, c
<1>6. /\ call' \in [Tabs -> [Ops -> Calling]] /\ call'[t][op] = c
      /\ \A u \in Tabs, o \in Ops : u # t \/ o # op => call'[u][o] = call[u][o]
  <2>1. c \in Calling
    BY <1>5
  <2> QED BY <1>4, <2>1, Moved, ZenonT(60)
<1> QED BY <1>2, <1>5, <1>6 DEF done

\* Every step of the studio, the BFF and core keeps the types.
LEMMA StudioTypes ==
  ASSUME StudioTypeOK, [StudioNext]_studioVars
  PROVE  StudioTypeOK'
<1> /\ user \in [Tabs -> Users] /\ rows \in [Slugs -> Row \union {NoChannel}]
    /\ minter \in Seq(Tabs) /\ Len(minter) \in Nat /\ Len(minter) <= MaxKeys
    /\ tab \in [Tabs -> View] /\ fetch \in [Tabs -> Fetch]
    /\ call \in [Tabs -> [Ops -> Calling]] /\ MaxKeys \in Nat
  BY Typed
<1>e. Rare => rare' \in 0..MaxRare
  BY Bounds DEF Rare, StudioTypeOK
<1>f. NoAnswer \in Fetch /\ Fresh \in View /\ Rest \in Calling
  BY DEF NoAnswer, Fresh, Rest, Fetch, View, Calling
<1>b. /\ \A b \in Calling : /\ [b EXCEPT !.at = "unheard"] \in Calling
                            /\ [b EXCEPT !.at = "sent"] \in Calling
      /\ \A r \in Row, k \in 1..MaxKeys : [r EXCEPT !.key = k] \in Row
      /\ \A p \in View, q \in Fetch :
           /\ [p EXCEPT !.on = "form"] \in View
           /\ q.row # NoChannel =>
                [p EXCEPT !.on = "panel", !.channel = q.row, !.prefix = q.key,
                          !.shown = IF p.on = "panel" THEN p.shown ELSE p.created] \in View
  BY DEF Calling, Row, View, Fetch
<1>t. (/\ user' \in [Tabs -> Users] /\ rows' \in [Slugs -> Row \union {NoChannel}] /\ tokens' \subseteq Users \X Slugs
       /\ minter' \in Seq(Tabs) /\ Len(minter') <= MaxKeys
       /\ tab' \in [Tabs -> View] /\ fetch' \in [Tabs -> Fetch]
       /\ call' \in [Tabs -> [Ops -> Calling]] /\ rare' \in 0..MaxRare) => StudioTypeOK'
  BY DEF StudioTypeOK, Row, View, Fetch, Calling, Ops
<1>g. tokens \subseteq Users \X Slugs /\ rare \in 0..MaxRare
  BY DEF StudioTypeOK
<1>1. ASSUME NEW t \in Tabs, Query(t) \/ QueryFails(t) PROVE StudioTypeOK'
  <2>1. CASE GetMyChannel(t)
    <3>1. [fetch[t] EXCEPT !.at = "some"] \in Fetch
      BY DEF Fetch
    <3>2. \A s \in Owned(user[t]) : [at |-> "some", row |-> s, key |-> rows[s].key] \in Fetch
      BY DEF Fetch, Owned, Row
    <3>3. fetch' \in [Tabs -> Fetch]
      BY <2>1, <3>1, <3>2 DEF GetMyChannel
    <3> DEFINE on == IF tab[t].on = "failed" THEN "loading" ELSE tab[t].on
               p == [tab[t] EXCEPT !.on = on]
    <3>4. p \in View
      BY DEF View
    <3>5. tab' \in [Tabs -> View]
      <4>1. tab' = [tab EXCEPT ![t] = p]
        BY <2>1 DEF GetMyChannel
      <4> HIDE DEF p
      <4> QED BY <3>4, <4>1
    <3> QED BY <1>t, <1>g, <2>1, <3>3, <3>5 DEF GetMyChannel, core
  <2>2. CASE Show(t)
    <3>1. fetch' \in [Tabs -> Fetch]
      BY <1>f, <2>2 DEF Show
    <3>2. \E p \in View : tab' = [tab EXCEPT ![t] = p]
      <4>1. CASE fetch[t].row = NoChannel
        BY <1>b, <2>2, <4>1 DEF Show
      <4>2. CASE fetch[t].row # NoChannel
        <5> DEFINE p == [tab[t] EXCEPT !.on = "panel", !.channel = fetch[t].row, !.prefix = fetch[t].key,
                                       !.shown = IF tab[t].on = "panel" THEN tab[t].shown ELSE tab[t].created]
        <5>1. tab' = [tab EXCEPT ![t] = p]
          BY <2>2, <4>2 DEF Show, PrefixOf
        <5>2. p \in View
          BY <1>b, <4>2
        <5> QED BY <5>1, <5>2
      <4> QED BY <4>1, <4>2
    <3>4. tab' \in [Tabs -> View]
      BY <3>2
    <3> QED BY <1>t, <1>g, <2>2, <3>1, <3>4 DEF Show, core
  <2>3. CASE QueryFails(t)
    <3> DEFINE on == IF tab[t].on = "loading" THEN "failed" ELSE tab[t].on
               p == [tab[t] EXCEPT !.on = on]
    <3>1. p \in View
      BY DEF View
    <3>2. tab' \in [Tabs -> View]
      <4>1. tab' = [tab EXCEPT ![t] = p]
        BY <2>3 DEF QueryFails
      <4> HIDE DEF p
      <4> QED BY <3>1, <4>1
    <3> QED BY <1>t, <1>g, <1>e, <1>f, <2>3, <3>2 DEF QueryFails, core
  <2> QED BY <1>1, <2>1, <2>2, <2>3 DEF Query
<1>2. ASSUME NEW t \in Tabs, Reload(t) PROVE StudioTypeOK'
  <2> DEFINE cs == [op \in Ops |-> IF call[t][op].at \in {"sent", "unheard"}
                                   THEN [call[t][op] EXCEPT !.at = "unheard"] ELSE Rest]
  <2>1. \A op \in Ops : call[t][op] \in Calling /\ [call[t][op] EXCEPT !.at = "unheard"] \in Calling
    BY <1>b
  <2>2. cs \in [Ops -> Calling]
    BY <1>f, <2>1
  <2>3. call' = [call EXCEPT ![t] = cs]
    BY <1>2 DEF Reload
  <2>4. call' \in [Tabs -> [Ops -> Calling]]
    BY <2>2, <2>3
  <2> QED BY <1>t, <1>g, <1>e, <1>f, <1>2, <2>4 DEF Reload, core
<1>3. ASSUME NEW t \in Tabs, NEW s \in Slugs, CreateChannel(t, s) PROVE StudioTypeOK'
  <2>1. "create" \in Ops /\ Return(t, "create")
    BY <1>3 DEF CreateChannel, Ops
  <2>2. [owner |-> user[t], key |-> Latest + 1] \in Row
    BY <2>1, Returned DEF Row, Latest
  <2>3. rows' \in [Slugs -> Row \union {NoChannel}]
    BY <1>3, <2>2 DEF CreateChannel
  <2>4. Len(minter') <= MaxKeys
    BY <2>1, Returned
  <2> QED BY <1>t, <1>g, <1>3, <2>1, <2>3, <2>4, Returned DEF CreateChannel
<1>4. ASSUME NEW t \in Tabs, RotateStreamKey(t) PROVE StudioTypeOK'
  <2>1. "rotate" \in Ops /\ Return(t, "rotate")
    BY <1>4 DEF RotateStreamKey, Ops
  <2>2. \A s \in Owned(user[t]) : [rows[s] EXCEPT !.key = Latest + 1] \in Row
    <3>1. Latest + 1 \in 1..MaxKeys /\ \A s \in Owned(user[t]) : rows[s] \in Row
      BY <2>1, Returned DEF Latest, Owned
    <3> QED BY <1>b, <3>1
  <2>3. rows' \in [Slugs -> Row \union {NoChannel}]
    BY <1>4, <2>2 DEF RotateStreamKey
  <2>4. Len(minter') <= MaxKeys
    BY <2>1, Returned
  <2> QED BY <1>t, <1>g, <1>4, <2>1, <2>3, <2>4, Returned DEF RotateStreamKey
<1>5. ASSUME NEW t \in Tabs, Submit(t) \/ SlugTaken(t) PROVE StudioTypeOK'
  <2>1. [call[t]["create"] EXCEPT !.at = "sent"] \in Calling /\ "create" \in Ops
    BY <1>b DEF Ops
  <2>2. \E c \in Calling : call' = [call EXCEPT ![t]["create"] = c]
    BY <1>f, <1>5, <2>1 DEF Submit, SlugTaken
  <2>3. call' \in [Tabs -> [Ops -> Calling]]
    BY <2>1, <2>2, Moved
  <2> QED BY <1>t, <1>g, <1>5, <2>3 DEF Submit, SlugTaken, core
<1>6. ASSUME NEW t \in Tabs, NEW op \in Ops, Heard(t, op) \/ AnswerLost(t, op) PROVE StudioTypeOK'
  <2>1. call' \in [Tabs -> [Ops -> Calling]]
    BY <1>f, <1>6, Moved DEF Heard, AnswerLost
  <2>2. CASE Heard(t, op)
    <3>1. \A o \in Ops : /\ [tab[t] EXCEPT !.created = call[t][o].key] \in View
                         /\ [tab[t] EXCEPT !.shown = call[t][o].key] \in View
      BY DEF View, Calling
    <3>2. tab' \in [Tabs -> View] /\ fetch' \in [Tabs -> Fetch]
      BY <1>f, <2>2, <3>1 DEF Heard, NewKey, Invalidate, Ops
    <3> QED BY <1>t, <1>g, <2>1, <2>2, <3>2 DEF Heard, core
  <2>3. CASE AnswerLost(t, op)
    BY <1>t, <1>g, <1>e, <2>1, <2>3 DEF AnswerLost, core
  <2> QED BY <1>6, <2>2, <2>3
<1>7. ASSUME NEW t \in Tabs, IssueIngestToken(t) PROVE StudioTypeOK'
  BY <1>t, <1>g, <1>e, <1>7 DEF IssueIngestToken, Owned
<1>8. ASSUME NEW k, TokenExpires(k) PROVE StudioTypeOK'
  BY <1>t, <1>g, <1>8 DEF TokenExpires
<1>9. CASE UNCHANGED studioVars
  BY <1>t, <1>g, <1>9 DEF studioVars, core
<1> QED BY <1>1, <1>2, <1>3, <1>4, <1>5, <1>6, <1>7, <1>8, <1>9 DEF StudioNext

\* Every row's key was generated for a tab of the row's owner; every ingest token
\* leads to a channel of the user it names; nobody has a key and no channel; and
\* the only channel a user has carries the newest of the user's keys.
Taken == {s \in Slugs : rows[s] # NoChannel}
Keyed ==
  \A s \in Taken : rows[s].key \in 1..Len(minter) /\ user[minter[rows[s].key]] = rows[s].owner
TokensHome == \A k \in tokens : k[2] \in Owned(k[1])
KeysOwned  == \A j \in 1..Len(minter) : Owned(user[minter[j]]) # {}
Newest ==
  \A t \in Tabs, s \in Slugs :
    Owned(user[t]) = {s} => \A j \in 1..Len(minter) : user[minter[j]] = user[t] => j <= rows[s].key
Books == IsFiniteSet(Taken) /\ Keyed /\ TokensHome /\ KeysOwned /\ Newest

\* The keys in a tab were generated for it; a panel, and an answer for one, is of a
\* channel of its user, and a tab that has had its panel gets no other answer.
Minted(t, k) == k \in 1..Len(minter) /\ minter[k] = t
Kept(t) ==
  /\ tab[t].created # 0 => Minted(t, tab[t].created)
  /\ tab[t].shown # 0 => Minted(t, tab[t].shown)
  /\ \A op \in Ops : call[t][op].at = "done" => Minted(t, call[t][op].key)
  /\ call[t]["rotate"].at \in {"idle", "done"}
  /\ rare = 0 => call[t]["create"].at # "unheard"
Paned(t) ==
  /\ tab[t].on = "panel" => tab[t].channel \in Owned(user[t])
  /\ fetch[t].row # NoChannel => fetch[t].row \in Owned(user[t])
  /\ fetch[t].at = "none" => fetch[t].row = NoChannel
  /\ tab[t].on = "panel" /\ fetch[t].at = "some" => fetch[t].row # NoChannel

\* Where key k is, while nothing was lost, if it is the key of the only channel of
\* t's user and was generated for t: on its way, shown, or kept for the panel.
Holds(t, k) ==
  \/ call[t]["rotate"].at = "done" /\ call[t]["rotate"].key = k /\ tab[t].on = "panel"
  \/ call[t]["rotate"].at = "idle" /\ tab[t].on = "panel" /\ tab[t].shown = k
  \/ /\ call[t]["rotate"].at = "idle" /\ tab[t].shown = 0 /\ tab[t].created \in {0, k}
     /\ call[t]["create"].at = "done" => call[t]["create"].key = k
InHand(t) ==
  rare = 0 =>
    \A s \in Slugs : Owned(user[t]) = {s} /\ minter[rows[s].key] = t => Holds(t, rows[s].key)
Own(t) == Kept(t) /\ Paned(t) /\ InHand(t)

StudioInvariant == StudioTypeOK /\ Books /\ \A t \in Tabs : Own(t)

\* Nobody has a channel or a key yet.
LEMMA StudioBegins ==
  ASSUME StudioInit
  PROVE  StudioInvariant
<1>1. StudioTypeOK
  <2>1. MaxKeys \in Nat /\ MaxRare \in Nat
    BY Bounds
  <2>2. 0 \in 0..MaxKeys /\ 0 \in 0..MaxRare
    BY <2>1
  <2>3. <<>> \in Seq(Tabs) /\ Len(<<>>) <= MaxKeys
    BY <2>1
  <2> QED BY <2>2, <2>3 DEF StudioInit, StudioTypeOK, Fresh, NoAnswer, Rest
<1>2. Taken = {} /\ Len(minter) = 0 /\ \A u : Owned(u) = {}
  BY DEF StudioInit, Taken, Owned
<1>3. Books
  BY <1>2, FS_EmptySet DEF StudioInit, Books, Keyed, TokensHome, KeysOwned, Newest
<1>4. ASSUME NEW t \in Tabs PROVE Own(t)
  BY <1>2 DEF StudioInit, Own, Kept, Paned, InHand, Fresh, NoAnswer, Rest, Ops
<1> QED BY <1>1, <1>3, <1>4 DEF StudioInvariant

\* What leaves the rows, the keys and the tokens alone leaves the books in order.
LEMMA BooksRest ==
  ASSUME Books, UNCHANGED core
  PROVE  Books' /\ \A u : Owned(u)' = Owned(u)
BY DEF core, Books, Taken, Keyed, TokensHome, KeysOwned, Newest, Owned

\* A token is issued for a channel of the user's, or expires.
LEMMA TokensStep ==
  ASSUME StudioInvariant,
         (\E t \in Tabs : IssueIngestToken(t)) \/ (\E k \in tokens : TokenExpires(k))
  PROVE  Books' /\ \A u : Owned(u)' = Owned(u)
<1>1. UNCHANGED <<user, rows, minter>> /\ \A u : Owned(u)' = Owned(u)
  BY DEF IssueIngestToken, TokenExpires, Owned
<1>2. TokensHome'
  <2>1. tokens' \subseteq tokens \/ \E t \in Tabs : \E s \in Owned(user[t]) : tokens' = tokens \union {<<user[t], s>>}
    BY DEF IssueIngestToken, TokenExpires
  <2>2. \A i \in tokens' : i[2] \in Owned(i[1])
    BY <2>1 DEF StudioInvariant, Books, TokensHome
  <2> QED BY <1>1, <2>2 DEF TokensHome
<1>3. (IsFiniteSet(Taken) /\ Keyed /\ KeysOwned /\ Newest)'
  BY <1>1 DEF StudioInvariant, Books, Taken, Keyed, KeysOwned, Newest, Owned
<1> QED BY <1>1, <1>2, <1>3 DEF Books

\* createChannel's row and key leave the books in order.
LEMMA CreateBooks ==
  ASSUME StudioInvariant, NEW t \in Tabs, NEW s \in Slugs, CreateChannel(t, s)
  PROVE  /\ Books' /\ user' = user /\ rows'[s].key = Len(minter) + 1
         /\ \A u : Owned(u) \subseteq Owned(u)'
         /\ \A u : Owned(u)' = IF u = user[t] THEN Owned(u) \union {s} ELSE Owned(u)
         /\ \A x \in Slugs : x # s => rows'[x] = rows[x]
<1> /\ user \in [Tabs -> Users] /\ rows \in [Slugs -> Row \union {NoChannel}] /\ minter \in Seq(Tabs)
    /\ Len(minter) \in Nat /\ NoChannel \notin Slugs /\ NoChannel \notin Row /\ MaxKeys \in Nat
  BY Typed DEF StudioInvariant
<1> DEFINE n == Len(minter) + 1
           r == [owner |-> user[t], key |-> n]
           Later(u) == IF u = user[t] THEN Owned(u) \union {s} ELSE Owned(u)
<1>1. "create" \in Ops /\ Return(t, "create") /\ StudioTypeOK
  BY DEF CreateChannel, Ops, StudioInvariant
<1>2. /\ n \in 1..MaxKeys /\ minter' \in Seq(Tabs) /\ Len(minter') = n /\ minter'[n] = t
      /\ \A j \in 1..Len(minter) : minter'[j] = minter[j]
  BY <1>1, Returned
<1>3. r \in Row /\ r # NoChannel /\ r.owner = user[t] /\ r.key = n
  BY <1>2 DEF Row
<1>4. /\ user' = user /\ tokens' = tokens /\ rows[s] = NoChannel /\ rows'[s] = r
      /\ \A x \in Slugs : x # s => rows'[x] = rows[x]
  BY DEF CreateChannel, Latest
<1> HIDE DEF r
<1>5. \A u : Owned(u)' = Later(u)
  BY <1>3, <1>4 DEF Owned
<1>6. IsFiniteSet(Taken')
  <2>1. Taken' = Taken \union {s}
    BY <1>3, <1>4 DEF Taken
  <2> QED BY <2>1, FS_AddElement DEF StudioInvariant, Books
<1>7. Keyed'
  <2> SUFFICES ASSUME NEW x \in Slugs, rows'[x] # NoChannel
               PROVE  rows'[x].key \in 1..n /\ user[minter'[rows'[x].key]] = rows'[x].owner
    BY <1>2, <1>4 DEF Keyed, Taken
  <2>1. CASE x = s
    BY <1>2, <1>3, <1>4, <2>1
  <2>2. CASE x # s
    <3>1. rows[x].key \in 1..Len(minter) /\ user[minter[rows[x].key]] = rows[x].owner /\ rows'[x] = rows[x]
      BY <1>4, <2>2 DEF StudioInvariant, Books, Keyed, Taken
    <3> QED BY <1>2, <3>1
  <2> QED BY <2>1, <2>2
<1>8. TokensHome'
  BY <1>4, <1>5 DEF StudioInvariant, Books, TokensHome
<1>9. KeysOwned'
  <2> SUFFICES ASSUME NEW j \in 1..n PROVE Later(user[minter'[j]]) # {}
    BY <1>2, <1>4, <1>5 DEF KeysOwned
  <2>1. CASE j = n
    BY <1>2, <1>5, <2>1
  <2>2. CASE j # n
    <3>1. j \in 1..Len(minter) /\ minter'[j] = minter[j]
      BY <1>2, <2>2
    <3>2. Owned(user[minter[j]]) # {}
      BY <3>1 DEF StudioInvariant, Books, KeysOwned
    <3> QED BY <1>5, <3>1, <3>2
  <2> QED BY <2>1, <2>2
<1>10. Newest'
  <2> SUFFICES ASSUME NEW u \in Tabs, NEW x \in Slugs, Later(user[u]) = {x},
                      NEW j \in 1..n, user[minter'[j]] = user[u]
               PROVE  j <= rows'[x].key
    BY <1>2, <1>4, <1>5 DEF Newest
  <2>1. CASE user[u] = user[t]
    <3>1. x = s
      BY <1>5, <2>1
    <3> QED BY <1>3, <1>4, <3>1
  <2>2. CASE user[u] # user[t]
    <3>1. Owned(user[u]) = {x} /\ j # n
      BY <1>2, <1>5, <2>2
    <3>2. j \in 1..Len(minter) /\ minter'[j] = minter[j]
      BY <1>2, <3>1
    <3>3. x # s
      BY <1>4, <3>1 DEF Owned
    <3>4. j <= rows[x].key
      BY <3>1, <3>2 DEF StudioInvariant, Books, Newest
    <3> QED BY <1>4, <3>3, <3>4
  <2> QED BY <2>1, <2>2
<1> QED BY <1>3, <1>4, <1>5, <1>6, <1>7, <1>8, <1>9, <1>10 DEF Books

\* So does rotateStreamKey, which gives all the channels of the user the new key.
LEMMA RotateBooks ==
  ASSUME StudioInvariant, NEW t \in Tabs, RotateStreamKey(t)
  PROVE  /\ Books' /\ user' = user /\ \A u : Owned(u)' = Owned(u)
         /\ \A x \in Slugs : x \in Owned(user[t]) => rows'[x].key = Len(minter) + 1
         /\ \A x \in Slugs : x \notin Owned(user[t]) => rows'[x] = rows[x]
<1> /\ user \in [Tabs -> Users] /\ rows \in [Slugs -> Row \union {NoChannel}] /\ minter \in Seq(Tabs)
    /\ Len(minter) \in Nat /\ NoChannel \notin Slugs /\ NoChannel \notin Row /\ MaxKeys \in Nat
  BY Typed DEF StudioInvariant
<1> DEFINE n == Len(minter) + 1
<1>1. "rotate" \in Ops /\ Return(t, "rotate") /\ StudioTypeOK
  BY DEF RotateStreamKey, Ops, StudioInvariant
<1>2. /\ n \in 1..MaxKeys /\ minter' \in Seq(Tabs) /\ Len(minter') = n /\ minter'[n] = t
      /\ \A j \in 1..Len(minter) : minter'[j] = minter[j]
  BY <1>1, Returned
<1>3. \A q \in Row : [q EXCEPT !.key = n] \in Row /\ [q EXCEPT !.key = n].key = n
                     /\ [q EXCEPT !.key = n].owner = q.owner
  BY <1>2 DEF Row
<1>4. \A x \in Slugs : IF x \in Owned(user[t])
                       THEN rows'[x] # NoChannel /\ rows'[x].key = n /\ rows'[x].owner = user[t]
                       ELSE rows'[x] = rows[x]
  <2>1. \A x \in Slugs : x \in Owned(user[t]) => rows'[x] = [rows[x] EXCEPT !.key = n]
    BY DEF RotateStreamKey, Latest
  <2>2. \A x \in Slugs : x \notin Owned(user[t]) => rows'[x] = rows[x]
    BY DEF RotateStreamKey
  <2>3. \A x \in Owned(user[t]) : x \in Slugs /\ rows[x] \in Row /\ rows[x].owner = user[t]
    BY DEF Owned
  <2>4. \A q \in Row : [q EXCEPT !.key = n] # NoChannel
    BY <1>3
  <2>5. ASSUME NEW x \in Slugs, x \in Owned(user[t])
        PROVE  rows'[x] # NoChannel /\ rows'[x].key = n /\ rows'[x].owner = user[t]
    <3>1. rows[x] \in Row /\ rows[x].owner = user[t] /\ rows'[x] = [rows[x] EXCEPT !.key = n]
      BY <2>1, <2>3, <2>5
    <3> QED BY <1>3, <2>4, <3>1
  <2> HIDE DEF n
  <2> QED BY <2>2, <2>5
<1>5. user' = user /\ tokens' = tokens /\ tab[t].on = "panel"
  BY DEF RotateStreamKey
<1>6. \A u : Owned(u)' = Owned(u)
  BY <1>4 DEF Owned
<1>7. IsFiniteSet(Taken')
  <2>1. Taken' = Taken
    BY <1>4 DEF Taken, Owned
  <2> QED BY <2>1 DEF StudioInvariant, Books
<1>8. Keyed'
  <2> SUFFICES ASSUME NEW x \in Slugs, rows'[x] # NoChannel
               PROVE  rows'[x].key \in 1..n /\ user[minter'[rows'[x].key]] = rows'[x].owner
    BY <1>2, <1>5 DEF Keyed, Taken
  <2>1. CASE x \in Owned(user[t])
    BY <1>2, <1>4, <2>1
  <2>2. CASE x \notin Owned(user[t])
    <3>1. rows'[x] = rows[x]
      BY <1>4, <2>2
    <3>2. rows[x].key \in 1..Len(minter) /\ user[minter[rows[x].key]] = rows[x].owner
      BY <3>1 DEF StudioInvariant, Books, Keyed, Taken
    <3> QED BY <1>2, <3>1, <3>2
  <2> QED BY <2>1, <2>2
<1>9. TokensHome'
  BY <1>5, <1>6 DEF StudioInvariant, Books, TokensHome
<1>10. KeysOwned'
  <2> SUFFICES ASSUME NEW j \in 1..n PROVE Owned(user[minter'[j]]) # {}
    BY <1>2, <1>5, <1>6 DEF KeysOwned
  <2>1. CASE j = n
    BY <1>2, <1>5, <2>1 DEF StudioInvariant, Own, Paned
  <2>2. CASE j # n
    <3>1. j \in 1..Len(minter) /\ minter'[j] = minter[j]
      BY <1>2, <2>2
    <3> QED BY <3>1 DEF StudioInvariant, Books, KeysOwned
  <2> QED BY <2>1, <2>2
<1>11. Newest'
  <2> SUFFICES ASSUME NEW u \in Tabs, NEW x \in Slugs, Owned(user[u]) = {x},
                      NEW j \in 1..n, user[minter'[j]] = user[u]
               PROVE  j <= rows'[x].key
    BY <1>2, <1>5, <1>6 DEF Newest
  <2>1. CASE user[u] = user[t]
    BY <1>4, <2>1
  <2>2. CASE user[u] # user[t]
    <3>1. j # n
      BY <1>2, <2>2
    <3>2. j \in 1..Len(minter) /\ minter'[j] = minter[j]
      BY <1>2, <3>1
    <3>3. j <= rows[x].key
      BY <3>2 DEF StudioInvariant, Books, Newest
    <3>4. x \notin Owned(user[t])
      BY <2>2 DEF Owned
    <3> QED BY <1>4, <3>3, <3>4
  <2> QED BY <2>1, <2>2
<1> QED BY <1>4, <1>5, <1>6, <1>7, <1>8, <1>9, <1>10, <1>11 DEF Books

\* A tab that gets no key from core keeps its own in order: rows that change get
\* another tab's key.
LEMMA OthersKeep ==
  ASSUME StudioInvariant, NEW t \in Tabs, NEW op \in Ops, Return(t, op),
         UNCHANGED <<user, tab, fetch, rare>>, \A v : Owned(v) \subseteq Owned(v)',
         \A x \in Slugs : rows'[x] = rows[x] \/ rows'[x].key = Len(minter) + 1,
         NEW u \in Tabs, u # t
  PROVE  Own(u)'
<1> Len(minter) \in Nat /\ StudioTypeOK
  BY Typed DEF StudioInvariant
<1>1. /\ Len(minter') = Len(minter) + 1 /\ minter'[Len(minter) + 1] = t
      /\ \A j \in 1..Len(minter) : minter'[j] = minter[j]
      /\ \A o \in Ops : call'[u][o] = call[u][o]
  BY Returned
<1>2. Own(u) /\ "create" \in Ops /\ "rotate" \in Ops
  BY DEF StudioInvariant, Ops
<1>3. Kept(u)'
  <2>1. \A k : Minted(u, k) => Minted(u, k)'
    BY <1>1 DEF Minted
  <2>2. /\ tab'[u].created # 0 => Minted(u, tab[u].created)'
        /\ tab'[u].shown # 0 => Minted(u, tab[u].shown)'
        /\ \A o \in Ops : call'[u][o].at = "done" => Minted(u, call[u][o].key)'
    BY <1>1, <1>2, <2>1 DEF Own, Kept
  <2> QED BY <1>1, <1>2, <2>2 DEF Own, Kept, Minted
<1>4. Paned(u)'
  BY <1>2 DEF Own, Paned
<1>5. InHand(u)'
  <2> SUFFICES ASSUME rare = 0, NEW x \in Slugs, (Owned(user[u]) = {x})', minter'[rows'[x].key] = u
               PROVE  Holds(u, rows[x].key)'
    BY DEF InHand
  <2>1. rows'[x] = rows[x] /\ x \in Owned(user[u])
    <3>1. rows'[x].key # Len(minter) + 1 /\ rows'[x] = rows[x]
      BY <1>1
    <3>2. rows'[x] # NoChannel /\ rows'[x].owner = user[u]
      BY DEF Owned
    <3> QED BY <3>1, <3>2 DEF Owned
  <2>2. Owned(user[u]) = {x}
    BY <2>1
  <2>3. rows[x].key \in 1..Len(minter)
    BY <2>1 DEF StudioInvariant, Books, Keyed, Taken, Owned
  <2>4. minter[rows[x].key] = u
    BY <1>1, <2>1, <2>3
  <2>5. Holds(u, rows[x].key)
    BY <1>2, <2>2, <2>4 DEF Own, InHand
  <2> QED BY <1>1, <1>2, <2>1, <2>5 DEF Holds
<1> QED BY <1>3, <1>4, <1>5 DEF Own

\* createChannel answers a tab: until then its user had nothing.
LEMMA CreateStep ==
  ASSUME StudioInvariant, NEW t \in Tabs, NEW s \in Slugs, CreateChannel(t, s), NEW u \in Tabs
  PROVE  Own(u)'
<1> Len(minter) \in Nat /\ StudioTypeOK
  BY Typed DEF StudioInvariant
<1>1. "create" \in Ops /\ "rotate" \in Ops /\ Return(t, "create") /\ rows[s] = NoChannel
  BY DEF CreateChannel, Ops
<1>2. /\ user' = user /\ rows'[s].key = Len(minter) + 1 /\ \A v : Owned(v) \subseteq Owned(v)'
      /\ \A v : Owned(v)' = IF v = user[t] THEN Owned(v) \union {s} ELSE Owned(v)
      /\ \A x \in Slugs : x # s => rows'[x] = rows[x]
  BY CreateBooks
<1>3. UNCHANGED <<user, tab, fetch, rare>>
  BY DEF CreateChannel
<1>4. CASE u # t
  BY <1>1, <1>2, <1>3, <1>4, OthersKeep
<1>5. CASE u = t
  <2>1. /\ Len(minter') = Len(minter) + 1 /\ minter'[Len(minter) + 1] = t
        /\ \A j \in 1..Len(minter) : minter'[j] = minter[j]
        /\ \A o \in Ops : o # "create" => call'[t][o] = call[t][o]
        /\ \/ call'[t]["create"] = [at |-> "done", key |-> Len(minter) + 1]
           \/ call[t]["create"].at = "unheard" /\ call'[t]["create"] = Rest
    BY <1>1, Returned
  <2>2. Own(t) /\ call'[t]["rotate"] = call[t]["rotate"] /\ \A o \in Ops : o = "create" \/ o = "rotate"
    BY <1>1, <2>1 DEF StudioInvariant, Ops
  <2> DEFINE Mine(k) == k \in 1..Len(minter') /\ minter'[k] = t
  <2>3. Mine(Len(minter) + 1) /\ \A k : (Minted(t, k) => Mine(k)) /\ (Minted(t, k)' <=> Mine(k))
    BY <2>1 DEF Minted
  <2> HIDE DEF Mine
  <2>4. Kept(t)'
    <3>1. /\ tab'[t].created # 0 => Mine(tab[t].created)
          /\ tab'[t].shown # 0 => Mine(tab[t].shown)
      BY <1>3, <2>2, <2>3 DEF Own, Kept
    <3>2. call'[t]["rotate"].at = "done" => Mine(call[t]["rotate"].key)
      BY <1>1, <2>2, <2>3 DEF Own, Kept
    <3>3. call'[t]["create"].at = "done" => Mine(call'[t]["create"].key)
      BY <2>1, <2>3 DEF Rest
    <3>4. call'[t]["create"].at # "unheard"
      BY <2>1 DEF Rest
    <3>5. /\ tab'[t].created # 0 => Mine(tab[t].created) /\ tab'[t].created = tab[t].created
          /\ tab'[t].shown # 0 => Mine(tab[t].shown) /\ tab'[t].shown = tab[t].shown
          /\ call'[t]["rotate"].at \in {"idle", "done"}
      BY <1>1, <1>3, <2>2, <3>1 DEF Own, Kept
    <3>6. \A o \in Ops : call'[t][o].at = "done" => Mine(call'[t][o].key)
      BY <2>2, <3>2, <3>3
    <3> QED BY <2>3, <3>4, <3>5, <3>6 DEF Kept
  <2>5. Paned(t)'
    BY <1>2, <1>3, <2>2 DEF Own, Paned
  <2>6. InHand(t)'
    <3> SUFFICES ASSUME rare = 0, NEW x \in Slugs, (Owned(user[t]) = {x})'
                 PROVE  Holds(t, rows[x].key)'
      BY <1>3 DEF InHand
    <3>1. Owned(user[t])' = {x} /\ Owned(user[t]) = {} /\ x = s
      <4>1. Owned(user[t]) \union {s} = {x} /\ s \notin Owned(user[t])
        BY <1>1, <1>2 DEF Owned
      <4> QED BY <4>1, <1>3
    <3>2. \A j \in 1..Len(minter) : minter[j] # t
      BY <3>1 DEF StudioInvariant, Books, KeysOwned
    <3>3. \A k : ~ Minted(t, k)
      BY <3>2 DEF Minted
    <3>4. tab[t].shown = 0 /\ tab[t].created = 0 /\ call[t]["rotate"].at = "idle"
      BY <1>1, <2>2, <3>3 DEF Own, Kept
    <3>5. call[t]["create"].at # "unheard"
      BY <2>2 DEF Own, Kept
    <3>6. rows'[x].key = Len(minter) + 1 /\ call'[t]["create"].key = Len(minter) + 1
      BY <1>2, <2>1, <3>1, <3>5
    <3> QED BY <1>3, <2>2, <3>4, <3>6 DEF Holds
  <2> QED BY <1>5, <2>4, <2>5, <2>6 DEF Own
<1> QED BY <1>4, <1>5

\* rotateStreamKey answers a tab.
LEMMA RotateStep ==
  ASSUME StudioInvariant, NEW t \in Tabs, RotateStreamKey(t), NEW u \in Tabs
  PROVE  Own(u)'
<1> Len(minter) \in Nat /\ StudioTypeOK
  BY Typed DEF StudioInvariant
<1>1. /\ "create" \in Ops /\ "rotate" \in Ops /\ Return(t, "rotate")
      /\ tab[t].on = "panel" /\ call[t]["rotate"].at = "idle"
  BY DEF RotateStreamKey, Ops
<1>2. /\ user' = user /\ \A v : Owned(v)' = Owned(v)
      /\ \A x \in Slugs : x \in Owned(user[t]) => rows'[x].key = Len(minter) + 1
      /\ \A x \in Slugs : x \notin Owned(user[t]) => rows'[x] = rows[x]
  BY RotateBooks
<1>3. UNCHANGED <<user, tab, fetch, rare>>
  BY DEF RotateStreamKey
<1>4. CASE u # t
  <2>1. /\ \A v : Owned(v) \subseteq Owned(v)'
        /\ \A x \in Slugs : rows'[x] = rows[x] \/ rows'[x].key = Len(minter) + 1
    BY <1>2
  <2> QED BY <1>1, <1>3, <1>4, <2>1, OthersKeep
<1>5. CASE u = t
  <2>1. /\ Len(minter') = Len(minter) + 1 /\ minter'[Len(minter) + 1] = t
        /\ \A j \in 1..Len(minter) : minter'[j] = minter[j]
        /\ \A o \in Ops : o # "rotate" => call'[t][o] = call[t][o]
        /\ call'[t]["rotate"] = [at |-> "done", key |-> Len(minter) + 1]
    BY <1>1, Returned
  <2>2. Own(t) /\ call'[t]["create"] = call[t]["create"] /\ \A o \in Ops : o = "create" \/ o = "rotate"
    BY <1>1, <2>1 DEF StudioInvariant, Ops
  <2> DEFINE Mine(k) == k \in 1..Len(minter') /\ minter'[k] = t
  <2>3. Mine(Len(minter) + 1) /\ \A k : (Minted(t, k) => Mine(k)) /\ (Minted(t, k)' <=> Mine(k))
    BY <2>1 DEF Minted
  <2> HIDE DEF Mine
  <2>4. Kept(t)'
    <3>1. /\ tab'[t].created # 0 => Mine(tab[t].created) /\ tab'[t].created = tab[t].created
          /\ tab'[t].shown # 0 => Mine(tab[t].shown) /\ tab'[t].shown = tab[t].shown
          /\ rare' = 0 => call'[t]["create"].at # "unheard"
      BY <1>3, <2>2, <2>3 DEF Own, Kept
    <3>2. call'[t]["create"].at = "done" => Mine(call[t]["create"].key)
      BY <1>1, <2>2, <2>3 DEF Own, Kept
    <3>3. Mine(call'[t]["rotate"].key) /\ call'[t]["rotate"].at = "done"
      BY <2>1, <2>3
    <3>4. \A o \in Ops : call'[t][o].at = "done" => Mine(call'[t][o].key)
      BY <2>2, <3>2, <3>3
    <3> QED BY <2>3, <3>1, <3>3, <3>4 DEF Kept
  <2>5. Paned(t)'
    BY <1>2, <1>3, <2>2 DEF Own, Paned
  <2>6. InHand(t)'
    <3> SUFFICES ASSUME NEW x \in Slugs, (Owned(user[t]) = {x})'
                 PROVE  Holds(t, rows[x].key)'
      BY DEF InHand
    <3>1. x \in Owned(user[t])
      BY <1>2
    <3>2. rows'[x].key = Len(minter) + 1
      BY <1>2, <3>1
    <3> QED BY <1>1, <1>3, <2>1, <3>2 DEF Holds
  <2> QED BY <1>5, <2>4, <2>5, <2>6 DEF Own
<1> QED BY <1>4, <1>5

\* A tab's own is kept by what touches neither core nor the tab.
LEMMA Untouched ==
  ASSUME NEW u \in Tabs, Own(u), UNCHANGED <<user, rows, minter, tab[u], fetch[u], call[u]>>, rare' = 0 => rare = 0
  PROVE  Own(u)'
BY DEF Own, Kept, Paned, InHand, Minted, Holds, Owned

\* The steps of a tab that leave core alone, for the tab itself: its query ...
LEMMA QueryStep ==
  ASSUME StudioInvariant, NEW t \in Tabs, Query(t) \/ QueryFails(t)
  PROVE  Own(t)' /\ UNCHANGED <<core, call>> /\ rare' \in {rare, rare + 1}
         /\ \A u \in Tabs : u # t => tab'[u] = tab[u] /\ fetch'[u] = fetch[u]
<1> tab \in [Tabs -> View] /\ fetch \in [Tabs -> Fetch] /\ rare \in Nat /\ Own(t) /\ Books
  BY Typed DEF StudioInvariant
<1>1. UNCHANGED <<core, call>> /\ rare' \in {rare, rare + 1}
  BY DEF Query, QueryFails, GetMyChannel, Show, Rare
<1>2. \A u \in Tabs : u # t => tab'[u] = tab[u] /\ fetch'[u] = fetch[u]
  BY DEF Query, QueryFails, GetMyChannel, Show
<1>3. UNCHANGED <<user, rows, minter, call>> /\ \A u : Owned(u)' = Owned(u)
  BY <1>1, BooksRest DEF core
<1>4. rare' = 0 => rare = 0
  BY <1>1
<1>p. tab[t] \in View
  BY DEF View
<1>q. ASSUME GetMyChannel(t) \/ QueryFails(t)
      PROVE  /\ tab'[t].on = "panel" <=> tab[t].on = "panel"
             /\ tab'[t].channel = tab[t].channel
             /\ tab'[t].shown = tab[t].shown /\ tab'[t].created = tab[t].created
  <2>1. tab'[t] = tab[t] \/ \E on \in {"loading", "failed"} :
          tab[t].on # "panel" /\ tab'[t] = [tab[t] EXCEPT !.on = on]
    BY <1>p, <1>q DEF GetMyChannel, QueryFails, View
  <2> QED BY <1>p, <2>1 DEF View
<1>5. CASE GetMyChannel(t)
  <2>1. /\ tab'[t].on = "panel" <=> tab[t].on = "panel"
        /\ tab'[t].channel = tab[t].channel
        /\ tab'[t].shown = tab[t].shown /\ tab'[t].created = tab[t].created
    BY <1>5, <1>q
  <2>2. fetch[t].row = NoChannel /\ fetch'[t].at = "some" /\ fetch'[t].row \in Owned(user[t]) \union {NoChannel}
        /\ (Owned(user[t]) # {} => fetch'[t].row \in Owned(user[t]))
    <3>1. fetch[t].at = "none" /\ fetch[t].row = NoChannel
      BY <1>5 DEF GetMyChannel, Own, Paned
    <3>2. CASE Owned(user[t]) = {}
      <4>1. fetch'[t] = [fetch[t] EXCEPT !.at = "some"]
        BY <1>5, <3>2 DEF GetMyChannel
      <4>2. fetch'[t].at = "some" /\ fetch'[t].row = fetch[t].row
        BY <4>1 DEF Fetch
      <4> QED BY <3>1, <3>2, <4>2
    <3>3. CASE Owned(user[t]) # {}
      BY <1>5, <3>1, <3>3 DEF GetMyChannel
    <3> QED BY <3>2, <3>3
  <2>3. Paned(t)'
    <3>1. tab[t].on = "panel" => tab[t].channel \in Owned(user[t])
      BY DEF Own, Paned
    <3>2. NoChannel \notin Owned(user[t])
      BY NoChannelIsNone DEF Owned
    <3> QED BY <1>3, <2>1, <2>2, <3>1, <3>2 DEF Paned
  <2>4. Kept(t)' /\ InHand(t)'
    BY <1>3, <1>4, <2>1 DEF Own, Kept, InHand, Minted, Holds
  <2> QED BY <1>1, <1>2, <2>3, <2>4 DEF Own
<1>6. CASE Show(t)
  <2>1. fetch'[t] = NoAnswer /\ fetch[t].at = "some"
    BY <1>6 DEF Show
  <2>2. tab'[t].created = tab[t].created /\ tab'[t].shown \in {tab[t].shown, tab[t].created}
        /\ IF fetch[t].row = NoChannel THEN tab'[t].on = "form" /\ tab'[t].shown = tab[t].shown
           ELSE /\ tab'[t].on = "panel" /\ tab'[t].channel = fetch[t].row
                /\ tab'[t].shown = IF tab[t].on = "panel" THEN tab[t].shown ELSE tab[t].created
    <3>1. CASE fetch[t].row = NoChannel
      <4>1. tab'[t] = [tab[t] EXCEPT !.on = "form"]
        BY <1>6, <3>1 DEF Show
      <4> QED BY <3>1, <4>1 DEF View
    <3>2. CASE fetch[t].row # NoChannel
      <4>1. tab'[t] = [tab[t] EXCEPT !.on = "panel", !.channel = fetch[t].row, !.prefix = fetch[t].key,
                          !.shown = IF tab[t].on = "panel" THEN tab[t].shown ELSE tab[t].created]
        BY <1>6, <3>2 DEF Show, PrefixOf
      <4> QED BY <3>2, <4>1 DEF View
    <3> QED BY <3>1, <3>2
  <2>3. Kept(t)'
    BY <1>3, <1>4, <2>2 DEF Own, Kept, Minted
  <2>4. Paned(t)'
    BY <1>3, <2>1, <2>2 DEF Own, Paned, NoAnswer
  <2>5. InHand(t)'
    <3>1. \A k : Holds(t, k) => Holds(t, k)'
      BY <1>3, <2>1, <2>2 DEF Own, Paned, Holds
    <3> QED BY <1>3, <1>4, <3>1 DEF Own, InHand
  <2> QED BY <1>1, <1>2, <2>3, <2>4, <2>5 DEF Own
<1>7. CASE QueryFails(t)
  <2>1. /\ tab'[t].on = "panel" <=> tab[t].on = "panel"
        /\ tab'[t].channel = tab[t].channel
        /\ tab'[t].shown = tab[t].shown /\ tab'[t].created = tab[t].created
        /\ fetch'[t] = NoAnswer
    BY <1>7, <1>q DEF QueryFails
  <2> QED BY <1>1, <1>2, <1>3, <1>4, <2>1 DEF Own, Kept, Paned, InHand, Minted, Holds, NoAnswer
<1> QED BY <1>5, <1>6, <1>7 DEF Query

\* ... its calls on the way to core, and their answers ...
LEMMA CallStep ==
  ASSUME StudioInvariant, NEW t \in Tabs, NEW op \in Ops,
         Submit(t) \/ SlugTaken(t) \/ Heard(t, op) \/ AnswerLost(t, op)
  PROVE  Own(t)' /\ UNCHANGED core /\ rare' \in {rare, rare + 1}
         /\ \A u \in Tabs : u # t => tab'[u] = tab[u] /\ fetch'[u] = fetch[u] /\ call'[u] = call[u]
<1> tab \in [Tabs -> View] /\ fetch \in [Tabs -> Fetch] /\ rare \in Nat /\ Own(t) /\ Books
    /\ call \in [Tabs -> [Ops -> Calling]] /\ StudioTypeOK /\ "create" \in Ops /\ "rotate" \in Ops
    /\ \A o \in Ops : o = "create" \/ o = "rotate"
  BY Typed DEF StudioInvariant, Ops
<1>1. UNCHANGED core /\ rare' \in {rare, rare + 1}
  BY DEF Submit, SlugTaken, Heard, AnswerLost, Rare
<1>2. \A u \in Tabs : u # t => tab'[u] = tab[u] /\ fetch'[u] = fetch[u] /\ call'[u] = call[u]
  BY DEF Submit, SlugTaken, Heard, AnswerLost, Invalidate
<1>3. UNCHANGED <<user, rows, minter>> /\ \A u : Owned(u)' = Owned(u)
  BY <1>1, BooksRest DEF core
<1>4. rare' = 0 => rare = 0
  BY <1>1
<1>r. Rest \in Calling /\ Rest.at = "idle"
  BY Typed DEF StudioInvariant, Rest, Calling
<1>5. CASE Submit(t) \/ SlugTaken(t)
  <2>1. tab' = tab /\ fetch' = fetch
    BY <1>5 DEF Submit, SlugTaken
  <2>2. /\ call'[t]["rotate"] = call[t]["rotate"] /\ call'[t]["create"].at \in {"sent", "idle"}
    <3>1. \A b \in Calling : [b EXCEPT !.at = "sent"] \in Calling /\ [b EXCEPT !.at = "sent"].at = "sent"
      BY DEF Calling
    <3>2. \E c \in Calling : c.at \in {"sent", "idle"} /\ call' = [call EXCEPT ![t]["create"] = c]
      <4>1. CASE SlugTaken(t)
        BY <1>r, <4>1 DEF SlugTaken
      <4>2. CASE Submit(t)
        <5> DEFINE c == [call[t]["create"] EXCEPT !.at = "sent"]
        <5>1. c \in Calling /\ c.at = "sent"
          BY <3>1
        <5>2. call' = [call EXCEPT ![t]["create"] = c]
          BY <4>2 DEF Submit
        <5> HIDE DEF c
        <5> QED BY <5>1, <5>2
      <4> QED BY <1>5, <4>1, <4>2
    <3> QED BY <3>2, Moved DEF StudioInvariant
  <2>3. Kept(t)'
    <3>1. \A o \in Ops : call'[t][o].at = "done" => Minted(t, call'[t][o].key)
      BY <2>2 DEF Own, Kept
    <3> QED BY <1>3, <1>4, <2>1, <2>2, <3>1 DEF Own, Kept, Minted
  <2>4. Paned(t)'
    BY <1>3, <2>1 DEF Own, Paned
  <2>5. \A k : Holds(t, k) => Holds(t, k)'
    BY <2>1, <2>2 DEF Holds
  <2>6. InHand(t)'
    BY <1>3, <1>4, <2>5 DEF Own, InHand
  <2> QED BY <1>1, <1>2, <2>3, <2>4, <2>6 DEF Own
<1>6. CASE Heard(t, op) \/ AnswerLost(t, op)
  <2>1. call[t][op].at = "done" /\ call'[t][op] = Rest /\ \A o \in Ops : o # op => call'[t][o] = call[t][o]
    BY <1>6, <1>r, Moved DEF Heard, AnswerLost, StudioInvariant
  <2>2. CASE Heard(t, op)
    <3>1. /\ fetch'[t] = NoAnswer /\ tab'[t].on = tab[t].on /\ tab'[t].channel = tab[t].channel
          /\ tab'[t].created = IF op = "create" THEN call[t][op].key ELSE tab[t].created
          /\ tab'[t].shown = IF op = "create" THEN tab[t].shown ELSE call[t][op].key
      <4>1. fetch'[t] = NoAnswer
        BY <2>2 DEF Heard, Invalidate
      <4>2. CASE op = "create"
        <5>1. tab'[t] = [tab[t] EXCEPT !.created = call[t][op].key]
          BY <2>2, <4>2 DEF Heard
        <5> QED BY <4>1, <4>2, <5>1 DEF View
      <4>3. CASE op # "create"
        <5>1. tab'[t] = [tab[t] EXCEPT !.shown = call[t][op].key] /\ op = "rotate"
          BY <2>2, <4>3 DEF Heard, NewKey
        <5> QED BY <4>1, <4>3, <5>1 DEF View
      <4> QED BY <4>2, <4>3
    <3>2. Kept(t)'
      <4>1. \A o \in Ops : call'[t][o].at = "done" => Minted(t, call'[t][o].key)
        BY <1>r, <2>1 DEF Own, Kept
      <4>2. call'[t]["rotate"].at \in {"idle", "done"} /\ (rare = 0 => call'[t]["create"].at # "unheard")
        BY <1>r, <2>1 DEF Own, Kept
      <4>3. /\ tab'[t].created # 0 => Minted(t, tab'[t].created)
            /\ tab'[t].shown # 0 => Minted(t, tab'[t].shown)
        BY <2>1, <3>1 DEF Own, Kept
      <4> QED BY <1>3, <1>4, <4>1, <4>2, <4>3 DEF Kept, Minted
    <3>3. Paned(t)'
      BY <1>3, <3>1 DEF Own, Paned, NoAnswer
    <3>4. ASSUME NEW k, Holds(t, k) PROVE Holds(t, k)'
      <4>1. CASE op = "create"
        BY <1>r, <2>1, <3>1, <3>4, <4>1 DEF Holds
      <4>2. CASE op = "rotate"
        BY <1>r, <2>1, <3>1, <3>4, <4>2 DEF Holds
      <4> QED BY <4>1, <4>2
    <3>5. InHand(t)'
      BY <1>3, <1>4, <3>4 DEF Own, InHand
    <3> QED BY <1>1, <1>2, <3>2, <3>3, <3>5 DEF Own
  <2>3. CASE AnswerLost(t, op)
    <3>1. tab' = tab /\ fetch' = fetch /\ rare' # 0
      BY <2>3 DEF AnswerLost, Rare
    <3>2. \A o \in Ops : call'[t][o].at = "done" => Minted(t, call'[t][o].key)
      BY <1>r, <2>1 DEF Own, Kept
    <3>3. call'[t]["rotate"].at \in {"idle", "done"}
      BY <1>r, <2>1 DEF Own, Kept
    <3>4. Kept(t)'
      BY <1>3, <3>1, <3>2, <3>3 DEF Own, Kept, Minted
    <3> QED BY <1>1, <1>2, <1>3, <3>1, <3>4 DEF Own, Paned, InHand
  <2> QED BY <1>6, <2>2, <2>3
<1> QED BY <1>5, <1>6

\* ... and its being loaded anew.
LEMMA ReloadStep ==
  ASSUME StudioInvariant, NEW t \in Tabs, Reload(t)
  PROVE  Own(t)' /\ UNCHANGED core /\ rare' \in {rare, rare + 1}
         /\ \A u \in Tabs : u # t => tab'[u] = tab[u] /\ fetch'[u] = fetch[u] /\ call'[u] = call[u]
<1> tab \in [Tabs -> View] /\ fetch \in [Tabs -> Fetch] /\ rare \in Nat /\ Own(t) /\ Books
    /\ call \in [Tabs -> [Ops -> Calling]] /\ "rotate" \in Ops
  BY Typed DEF StudioInvariant, Ops
<1>1. UNCHANGED core /\ rare' = rare + 1 /\ rare' # 0
  BY DEF Reload, Rare
<1>2. /\ \A u \in Tabs : u # t => tab'[u] = tab[u] /\ fetch'[u] = fetch[u] /\ call'[u] = call[u]
      /\ tab'[t] = Fresh /\ fetch'[t] = NoAnswer
      /\ call'[t] = [op \in Ops |-> IF call[t][op].at \in {"sent", "unheard"}
                                    THEN [call[t][op] EXCEPT !.at = "unheard"] ELSE Rest]
  BY DEF Reload
<1>3. \A op \in Ops : call'[t][op].at \in {"idle", "unheard"}
  <2>1. \A b \in Calling : [b EXCEPT !.at = "unheard"].at = "unheard"
    BY DEF Calling
  <2> QED BY <1>2, <2>1 DEF Rest
<1>4. call'[t]["rotate"].at = "idle"
  <2>1. call[t]["rotate"].at \notin {"sent", "unheard"}
    BY DEF Own, Kept
  <2> QED BY <1>2, <2>1 DEF Rest
<1>5. Kept(t)'
  BY <1>1, <1>2, <1>3, <1>4 DEF Kept, Fresh
<1>6. Paned(t)' /\ InHand(t)'
  BY <1>1, <1>2 DEF Paned, InHand, Fresh, NoAnswer
<1> QED BY <1>1, <1>2, <1>5, <1>6 DEF Own

\* Every step keeps the books of core and what each tab has.
LEMMA StudioStep ==
  ASSUME StudioInvariant, [StudioNext]_studioVars
  PROVE  StudioInvariant'
<1>1. StudioTypeOK'
  BY StudioTypes DEF StudioInvariant
<1>2. rare \in Nat /\ (rare' \in {rare, rare + 1} => (rare' = 0 => rare = 0))
  BY Typed DEF StudioInvariant
<1>3. ASSUME NEW t \in Tabs, Own(t)', UNCHANGED core, rare' \in {rare, rare + 1},
             \A u \in Tabs : u # t => tab'[u] = tab[u] /\ fetch'[u] = fetch[u] /\ call'[u] = call[u]
      PROVE  StudioInvariant'
  <2>1. Books'
    BY <1>3, BooksRest DEF StudioInvariant
  <2>2. ASSUME NEW u \in Tabs, u # t PROVE Own(u)'
    BY <1>2, <1>3, <2>2, Untouched DEF StudioInvariant, core
  <2> QED BY <1>1, <1>3, <2>1, <2>2 DEF StudioInvariant
<1>4. ASSUME NEW t \in Tabs, Query(t) \/ QueryFails(t) PROVE StudioInvariant'
  <2>1. /\ Own(t)' /\ UNCHANGED <<core, call>> /\ rare' \in {rare, rare + 1}
        /\ \A u \in Tabs : u # t => tab'[u] = tab[u] /\ fetch'[u] = fetch[u]
    BY <1>4, QueryStep
  <2> QED BY <1>3, <2>1
<1>5. ASSUME NEW t \in Tabs, NEW op \in Ops,
             Submit(t) \/ SlugTaken(t) \/ Heard(t, op) \/ AnswerLost(t, op)
      PROVE  StudioInvariant'
  <2>1. /\ Own(t)' /\ UNCHANGED core /\ rare' \in {rare, rare + 1}
        /\ \A u \in Tabs : u # t => tab'[u] = tab[u] /\ fetch'[u] = fetch[u] /\ call'[u] = call[u]
    BY <1>5, CallStep
  <2> QED BY <1>3, <2>1
<1>6. ASSUME NEW t \in Tabs, Reload(t) PROVE StudioInvariant'
  <2>1. /\ Own(t)' /\ UNCHANGED core /\ rare' \in {rare, rare + 1}
        /\ \A u \in Tabs : u # t => tab'[u] = tab[u] /\ fetch'[u] = fetch[u] /\ call'[u] = call[u]
    BY <1>6, ReloadStep
  <2> QED BY <1>3, <2>1
<1>7. ASSUME NEW t \in Tabs, NEW s \in Slugs, CreateChannel(t, s) PROVE StudioInvariant'
  BY <1>1, <1>7, CreateBooks, CreateStep DEF StudioInvariant
<1>8. ASSUME NEW t \in Tabs, RotateStreamKey(t) PROVE StudioInvariant'
  BY <1>1, <1>8, RotateBooks, RotateStep DEF StudioInvariant
<1>9. ASSUME (\E t \in Tabs : IssueIngestToken(t)) \/ (\E k \in tokens : TokenExpires(k))
      PROVE  StudioInvariant'
  <2>1. Books'
    BY <1>9, TokensStep
  <2>2. UNCHANGED <<user, rows, minter, tab, fetch, call>> /\ (rare' = 0 => rare = 0)
    BY <1>2, <1>9 DEF IssueIngestToken, TokenExpires, Rare
  <2>3. ASSUME NEW u \in Tabs PROVE Own(u)'
    BY <2>2, Untouched DEF StudioInvariant
  <2> QED BY <1>1, <2>1, <2>3 DEF StudioInvariant
<1>10. CASE UNCHANGED studioVars
  <2>1. UNCHANGED core /\ UNCHANGED <<user, rows, minter, tab, fetch, call, rare>>
    BY <1>10 DEF studioVars, core
  <2>2. ASSUME NEW u \in Tabs PROVE Own(u)'
    BY <2>1, Untouched DEF StudioInvariant
  <2> QED BY <1>1, <2>1, <2>2, BooksRest DEF StudioInvariant
<1>11. "create" \in Ops
  BY DEF Ops
<1> QED BY <1>4, <1>5, <1>6, <1>7, <1>8, <1>9, <1>10, <1>11 DEF StudioNext

\* Rows, keys and tokens agree with each other and with what every tab has, through
\* any creations, rotations, reloads and lost answers (channel.service.ts, tab.tsx).
THEOREM StudioKept == StudioSpec => []StudioInvariant
<1>1. StudioInit => StudioInvariant
  BY StudioBegins
<1>2. StudioInvariant /\ [StudioNext]_studioVars => StudioInvariant'
  BY StudioStep
<1> QED BY <1>1, <1>2, PTL DEF StudioSpec

\* Channels, keys and tokens, the studio's pages and their calls are of the types
\* the code gives them (channel.service.ts, tab.tsx).
THEOREM StudioTyped == StudioSpec => []StudioTypeOK
<1>1. StudioInvariant => StudioTypeOK
  BY DEF StudioInvariant
<1> QED BY <1>1, StudioKept, PTL

\* However many tabs users create and rotate in, no credential leads to somebody
\* else's channel, and the key a studio shows, when it is the user's latest, works
\* with the channel it stands beside: createChannel and rotateStreamKey in
\* channel.service.ts, onSubmit and rotate in tab.tsx.
THEOREM KeysLeadHome == StudioSpec => []KeysResolve
<1>1. StudioInvariant => StayHome
  <2> SUFFICES ASSUME StudioInvariant PROVE StayHome
    OBVIOUS
  <2>1. DOMAIN minter = 1..Len(minter) /\ Books
    BY Typed DEF StudioInvariant
  <2>2. \A j \in 1..Len(minter) : Resolved(j) \subseteq Owned(user[minter[j]])
    BY <2>1 DEF Books, Keyed, Taken, Resolved, Owned
  <2> QED BY <2>1, <2>2 DEF StayHome, Books, TokensHome
<1>2. StudioInvariant => ShownReaches
  <2> SUFFICES ASSUME StudioInvariant, NEW t \in Tabs, NEW j \in DOMAIN minter,
                      tab[t].shown # 0, call[t]["rotate"].at = "idle", rare = 0, minter[j] = t,
                      \A i \in (j + 1)..Latest : user[minter[i]] # user[t],
                      Cardinality(Owned(user[t])) = 1
               PROVE  Resolved(tab[t].shown) = {tab[t].channel}
    BY DEF ShownReaches
  <2>1. DOMAIN minter = 1..Len(minter) /\ Len(minter) \in Nat /\ Books /\ Own(t) /\ j \in 1..Len(minter)
    BY Typed DEF StudioInvariant
  <2>2. PICK s : Owned(user[t]) = {s}
    <3>1. IsFiniteSet(Owned(user[t]))
      <4>1. Owned(user[t]) \subseteq Taken
        BY DEF Owned, Taken
      <4> QED BY <2>1, <4>1, FS_Subset DEF Books
    <3> QED BY <3>1, FS_Singleton
  <2> DEFINE k == rows[s].key
  <2>3. s \in Slugs /\ rows[s] # NoChannel /\ k \in 1..Len(minter) /\ user[minter[k]] = user[t]
    BY <2>1, <2>2 DEF Owned, Books, Keyed, Taken
  <2>4. k = j
    <3>1. j <= k
      BY <2>1, <2>2, <2>3 DEF Books, Newest
    <3>2. k \notin (j + 1)..Latest
      BY <2>3
    <3> HIDE DEF k
    <3> QED BY <2>1, <2>3, <3>1, <3>2 DEF Latest
  <2>5. Holds(t, k)
    BY <2>1, <2>2, <2>3, <2>4 DEF Own, InHand
  <2>6. tab[t].on = "panel" /\ tab[t].shown = k
    BY <2>5 DEF Holds
  <2>7. tab[t].channel = s
    BY <2>1, <2>2, <2>6 DEF Own, Paned
  <2>8. Resolved(k) = {s}
    <3>1. \A x \in Resolved(k) : x \in Owned(user[t])
      BY <2>1, <2>3 DEF Books, Keyed, Taken, Resolved, Owned
    <3> QED BY <2>2, <2>3, <3>1 DEF Resolved
  <2> QED BY <2>6, <2>7, <2>8
<1>3. StudioInvariant => KeysResolve
  BY <1>1, <1>2 DEF KeysResolve
<1> QED BY <1>3, StudioKept, PTL
======================================================================================================================================
