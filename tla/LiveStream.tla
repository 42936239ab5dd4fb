----------------------------- MODULE LiveStream -----------------------------
(***************************************************************************)
(* How one channel goes live and off again: MediaMTX knows who publishes,   *)
(* svc-media polls it and claims or releases the channel by calling         *)
(* svc-core, and svc-core is the single writer of the live state, a Redis   *)
(* key with a TTL and a row of the streams table                            *)
(* (apps/svc-media/src/main.ts, apps/svc-core/src/channel/channel.service.ts*)
(* ).  Channels share nothing but the poller.                               *)
(*                                                                          *)
(* A path of MediaMTX is a key the encoder publishes under: the channel's   *)
(* stream key, or a browser's ingest token; several may be valid at once.   *)
(* Calls between the services are split at the commands core issues.  Time  *)
(* advances by the heartbeat period.                                        *)
(***************************************************************************)
EXTENDS Integers, FiniteSets

CONSTANTS Paths,       \* MediaMTX paths of the channel, live/<key>
          LiveTtl,     \* LIVE_TTL_SECONDS in heartbeat periods
          MaxPolls,    \* polls, and stopStream calls, in flight: a bound
          MaxFaults    \* bound on crashes and failed commands

ASSUME PathsFinite == IsFiniteSet(Paths)
ASSUME TtlOutlivesBeat == LiveTtl \in Nat /\ LiveTtl > 1
ASSUME Bounds == MaxPolls \in Nat /\ MaxFaults \in Nat

VARIABLES
  wants,      \* the broadcaster means to be live (external)
  valid,      \* keys resolveChannelId resolves to the channel
  ready,      \* paths MediaMTX reports ready (external)
  mtxUp,      \* MediaMTX answers (external)
  sessions,   \* svc-media: the paths in `sessions'
  claiming,   \* svc-media: the paths in `claiming'
  polls,      \* svc-media: lists of ready paths read and not yet applied
  due,        \* svc-media: sessions whose heartbeat has yet to fire this period
  starts,     \* core: where the startStream of each path stands
  stops,      \* core: the stopStream calls in flight, by what they do next
  beats,      \* core: a heartbeat call is in flight
  live,       \* core: what is left of live:{channelId}, 0 if absent
  rows,       \* core: how many rows of streams are 'live'
  faults

media == <<sessions, claiming, polls, due>>
core  == <<starts, stops, beats, live, rows>>
outer == <<wants, valid, ready, mtxUp>>
vars  == <<outer, media, core, faults>>

StartStages == {"none", "sent", "insert", "ok", "refused"}

TypeOK ==
  /\ wants \in BOOLEAN /\ valid \subseteq Paths /\ ready \subseteq Paths /\ mtxUp \in BOOLEAN
  /\ sessions \subseteq Paths /\ claiming \subseteq Paths \ sessions
  /\ polls \subseteq SUBSET Paths /\ due \subseteq sessions
  /\ starts \in [Paths -> StartStages]
  /\ stops \in [{"update", "delete"} -> Nat]
  /\ beats \in BOOLEAN
  /\ live \in 0..LiveTtl /\ rows \in Nat /\ faults \in Nat

Init ==
  /\ wants = FALSE /\ valid = {} /\ ready = {} /\ mtxUp = TRUE
  /\ sessions = {} /\ claiming = {} /\ polls = {} /\ due = {}
  /\ starts = [p \in Paths |-> "none"]
  /\ stops = [k \in {"update", "delete"} |-> 0]
  /\ beats = FALSE /\ live = 0 /\ rows = 0 /\ faults = 0

Fault == faults < MaxFaults /\ faults' = faults + 1
-----------------------------------------------------------------------------
(* The broadcaster, its keys and MediaMTX (external).                       *)

Decide ==
  /\ wants' = ~ wants
  /\ UNCHANGED <<valid, ready, mtxUp, media, core, faults>>

\* rotateStreamKey or issueIngestToken; a key is used for one path.
IssueKey(p) ==
  /\ p \notin valid \union ready \union sessions \union claiming /\ starts[p] = "none"
  /\ valid' = valid \union {p}
  /\ UNCHANGED <<wants, ready, mtxUp, media, core, faults>>

\* rotateStreamKey replaces the key; an ingest token expires.
RetireKey(p) ==
  /\ p \in valid
  /\ valid' = valid \ {p}
  /\ UNCHANGED <<wants, ready, mtxUp, media, core, faults>>

\* The encoder connects: MediaMTX asks /mtx/auth, which asks validateStreamKey.
Publish(p) ==
  /\ wants /\ mtxUp /\ p \in valid \ ready
  /\ ready' = ready \union {p}
  /\ UNCHANGED <<wants, valid, mtxUp, media, core, faults>>

Unpublish(p) ==
  /\ ~ wants /\ p \in ready
  /\ ready' = ready \ {p}
  /\ UNCHANGED <<wants, valid, mtxUp, media, core, faults>>

MtxCrash ==
  /\ mtxUp /\ Fault
  /\ mtxUp' = FALSE /\ ready' = {}
  /\ UNCHANGED <<wants, valid, media, core>>

MtxRecover ==
  /\ ~ mtxUp /\ mtxUp' = TRUE
  /\ UNCHANGED <<wants, valid, ready, media, core, faults>>
-----------------------------------------------------------------------------
(* svc-media: the poller and the sessions.                                  *)

\* pollPaths, its fetch: every 2 s, whether or not the last one is through.
PollRead ==
  /\ mtxUp /\ Cardinality(polls) < MaxPolls
  /\ polls' = polls \union {ready}
  /\ UNCHANGED <<outer, sessions, claiming, due, core, faults>>

\* pollPaths, the rest: onPublishReady for each path that has no session and is
\* not being claimed, onPublishGone for each session whose path is not listed.
PollApply(seen) ==
  LET fresh == seen \ (sessions \union claiming)
      gone  == sessions \ seen
  IN
  /\ seen \in polls
  /\ \A p \in fresh : starts[p] = "none"
  /\ stops["update"] + stops["delete"] + Cardinality(gone) <= MaxPolls
  /\ polls' = polls \ {seen}
  /\ claiming' = claiming \union fresh
  /\ starts' = [p \in Paths |-> IF p \in fresh THEN "sent" ELSE starts[p]]
  /\ sessions' = sessions \ gone
  /\ due' = due \ gone
  /\ stops' = [stops EXCEPT !["update"] = @ + Cardinality(gone)]
  /\ UNCHANGED <<outer, beats, live, rows, faults>>

\* onPublishReady: startStream succeeded.
StartOk(p) ==
  /\ p \in claiming /\ starts[p] = "ok"
  /\ starts' = [starts EXCEPT ![p] = "none"]
  /\ claiming' = claiming \ {p}
  /\ sessions' = sessions \union {p}
  /\ UNCHANGED <<outer, polls, due, stops, beats, live, rows, faults>>

\* Slip: a refused claim stays in `claiming'.
StartRefusedKept(p) ==
  /\ p \in claiming /\ starts[p] = "refused"
  /\ starts' = [starts EXCEPT ![p] = "none"]
  /\ \/ ready' = ready \ {p}
     \/ UNCHANGED ready
  /\ UNCHANGED <<wants, valid, mtxUp, media, stops, beats, live, rows, faults>>

\* onPublishReady: startStream failed; kickPublisher closes the publisher it
\* finds, if it finds it.
StartRefused(p) ==
  /\ p \in claiming /\ starts[p] = "refused"
  /\ starts' = [starts EXCEPT ![p] = "none"]
  /\ claiming' = claiming \ {p}
  /\ \/ ready' = ready \ {p}
     \/ UNCHANGED ready
  /\ UNCHANGED <<wants, valid, mtxUp, sessions, polls, due, stops, beats, live, rows, faults>>

\* The answer to a claim of an earlier life of svc-media is heard by nobody.
StartUnheard(p) ==
  /\ p \notin claiming /\ starts[p] \in {"ok", "refused"}
  /\ starts' = [starts EXCEPT ![p] = "none"]
  /\ UNCHANGED <<outer, media, stops, beats, live, rows, faults>>

\* The heartbeat interval of a session.
HeartbeatFires(p) ==
  /\ p \in due
  /\ due' = due \ {p}
  /\ beats' = TRUE
  /\ UNCHANGED <<outer, sessions, claiming, polls, starts, stops, live, rows, faults>>

\* svc-media restarts and remembers nothing.
MediaRestart ==
  /\ Fault
  /\ sessions' = {} /\ claiming' = {} /\ polls' = {} /\ due' = {}
  /\ UNCHANGED <<outer, core>>
-----------------------------------------------------------------------------
(* svc-core.                                                                *)

\* Slip: SET without NX.
StartTakesOver(p) ==
  /\ starts[p] = "sent"
  /\ IF p \in valid
     THEN live' = LiveTtl /\ starts' = [starts EXCEPT ![p] = "insert"]
     ELSE UNCHANGED live /\ starts' = [starts EXCEPT ![p] = "refused"]
  /\ UNCHANGED <<outer, media, stops, beats, rows, faults>>

\* startStream: resolve the key, then SET NX; or core cannot do either.
StartClaim(p) ==
  /\ starts[p] = "sent"
  /\ \/ /\ p \in valid /\ live = 0
        /\ live' = LiveTtl /\ starts' = [starts EXCEPT ![p] = "insert"] /\ UNCHANGED faults
     \/ /\ p \notin valid \/ live > 0
        /\ starts' = [starts EXCEPT ![p] = "refused"] /\ UNCHANGED <<live, faults>>
     \/ /\ Fault
        /\ starts' = [starts EXCEPT ![p] = "refused"] /\ UNCHANGED live
  /\ UNCHANGED <<outer, media, stops, beats, rows>>

\* startStream: INSERT the row; a failure leaves the key behind.
StartInsert(p) ==
  /\ starts[p] = "insert"
  /\ \/ /\ starts' = [starts EXCEPT ![p] = "ok"]
        /\ rows' = rows + 1 /\ UNCHANGED faults
     \/ /\ Fault
        /\ starts' = [starts EXCEPT ![p] = "refused"] /\ UNCHANGED rows
  /\ UNCHANGED <<outer, media, stops, beats, live>>

\* Slips: the key is deleted before the rows are ended.
DeleteFirst ==
  /\ stops["update"] > 0
  /\ stops' = [stops EXCEPT !["update"] = @ - 1, !["delete"] = @ + 1]
  /\ live' = 0
  /\ UNCHANGED <<outer, media, starts, beats, rows, faults>>
UpdateLast ==
  /\ stops["delete"] > 0
  /\ stops' = [stops EXCEPT !["delete"] = @ - 1]
  /\ rows' = 0
  /\ UNCHANGED <<outer, media, starts, beats, live, faults>>
StopDeletesFirst == DeleteFirst \/ UpdateLast

\* stopStream: UPDATE ends every live row of the channel, then DEL the key; a
\* failure of either ends the call.
StopUpdate ==
  /\ stops["update"] > 0
  /\ \/ /\ stops' = [stops EXCEPT !["update"] = @ - 1, !["delete"] = @ + 1]
        /\ rows' = 0 /\ UNCHANGED faults
     \/ /\ Fault
        /\ stops' = [stops EXCEPT !["update"] = @ - 1] /\ UNCHANGED rows
  /\ UNCHANGED <<outer, media, starts, beats, live>>
StopDelete ==
  /\ stops["delete"] > 0
  /\ stops' = [stops EXCEPT !["delete"] = @ - 1]
  /\ \/ live' = 0 /\ UNCHANGED faults
     \/ Fault /\ UNCHANGED live
  /\ UNCHANGED <<outer, media, starts, beats, rows>>
Stop == StopUpdate \/ StopDelete

\* heartbeat: SET with the TTL, whether or not the key is there.
Heartbeat ==
  /\ beats /\ beats' = FALSE
  /\ \/ live' = LiveTtl /\ UNCHANGED faults
     \/ Fault /\ UNCHANGED live
  /\ UNCHANGED <<outer, media, starts, stops, rows>>

\* Redis restarts empty, or evicts the key.
KeyLost ==
  /\ live > 0 /\ Fault
  /\ live' = 0
  /\ UNCHANGED <<outer, media, starts, stops, beats, rows>>
-----------------------------------------------------------------------------
\* Slip: the key is set without EX.
KeepKey == UNCHANGED live
\* Redis expires the key.
Expire == live' = IF live > 0 THEN live - 1 ELSE 0

\* A heartbeat period passes.  What core has begun for a claim, a release or a
\* heartbeat it ends within the period; polls and unserved claims may drag on.
Tick ==
  /\ due = {} /\ ~ beats /\ stops["update"] + stops["delete"] = 0
  /\ \A p \in Paths : starts[p] \notin {"insert", "ok"}
  /\ Expire
  /\ due' = sessions
  /\ UNCHANGED <<outer, sessions, claiming, polls, starts, stops, beats, rows, faults>>

\* What a claim of p waits for.
Claim(p) == StartClaim(p) \/ StartInsert(p) \/ StartOk(p) \/ StartRefused(p) \/ StartUnheard(p)
Poll     == \E seen \in polls : PollApply(seen)
Beat     == Heartbeat \/ \E p \in Paths : HeartbeatFires(p)

Next ==
  \/ Decide \/ MtxCrash \/ MtxRecover \/ MediaRestart \/ KeyLost
  \/ \E p \in Paths : IssueKey(p) \/ RetireKey(p) \/ Publish(p) \/ Unpublish(p) \/ Claim(p)
  \/ PollRead \/ Poll \/ Stop \/ Beat \/ Tick

Spec == Init /\ [][Next]_vars

\* Polls are made and applied, calls are answered, timers fire and time passes;
\* the encoder does what the broadcaster wants and MediaMTX comes back.
Fairness ==
  /\ WF_vars(MtxRecover) /\ SF_vars(PollRead) /\ WF_vars(Poll)
  /\ \A p \in Paths : SF_vars(Publish(p)) /\ WF_vars(Unpublish(p)) /\ WF_vars(Claim(p))
  /\ WF_vars(Stop) /\ WF_vars(Beat) /\ SF_vars(Tick)

FairSpec == Spec /\ Fairness
-----------------------------------------------------------------------------
\* One encoder at a time (작업계획서.md:262): whatever keys are published under,
\* and however polls, claims, stops and heartbeats overlap, the channel has one
\* session, as long as no command fails and nobody crashes.
SingleSession == faults = 0 => Cardinality(sessions) <= 1

\* While it has a session the channel is listed: no stop of an earlier session
\* ends the rows or deletes the key of a later one.
SessionIsListed == (faults = 0 /\ sessions # {}) => (live > 0 /\ rows > 0)

\* A channel nobody broadcasts on goes off the air whatever was lost or is late:
\* the key outlives every session by its TTL at most (channel.service.ts:262).
GhostsFade == (<>[] ~ wants) => <>[](live = 0)

\* A broadcaster who keeps trying with a good key gets on the air again and
\* again, however often claims are refused or parts restart.
BroadcastersReturn ==
  (\E p \in Paths : <>[](wants /\ p \in valid)) => []<>(sessions # {})
=============================================================================
