----------------------------- MODULE ChatRooms -----------------------------
(***************************************************************************)
(* The chat sockets and rooms of one BFF instance: who is admitted, which   *)
(* room it joins, when a room's Redis subscription begins and ends, and     *)
(* how dead sockets are reaped (apps/bff/src/ws/chat.ts).                   *)
(*                                                                          *)
(* handleChatWs is split at its awaits; the code between two awaits is one  *)
(* step.  A close event runs the close listeners registered so far in one   *)
(* turn and is never replayed: a listener registered after it never runs.   *)
(* leaveRoom, started by a listener, is split at its own awaits.            *)
(* Verdicts of other services (is the token good, does the channel exist)   *)
(* are arbitrary.  Chat messages are not modelled here.                     *)
(***************************************************************************)
EXTENDS Integers, FiniteSets

CONSTANTS Sockets, Users, Channels,
          RoomIds,             \* identities of Room objects
          None,                \* no room
          MaxTotal,            \* MAX_TOTAL_SOCKETS
          MaxPerUser,          \* MAX_SOCKETS_PER_USER
          MaxRooms,            \* MAX_ROOMS
          MaxFaults            \* bound on failed Redis commands

ASSUME SocketsFinite == IsFiniteSet(Sockets)
ASSUME Caps == {MaxTotal, MaxPerUser, MaxRooms} \subseteq Nat
ASSUME NoneIsNoRoom == None \notin RoomIds
ASSUME Populated == Users # {} /\ Channels # {}

VARIABLES
  rooms,             \* const rooms: the Room of a channel
  room,              \* the Room objects
  totalSockets,      \* let totalSockets
  userSocketCounts,  \* const userSocketCounts
  conn,              \* each WebSocket and where its handler stands
  on,                \* the close listeners registered on each socket
  beat,              \* each socket's heartbeat interval, and its `alive'
  leaving,           \* each socket's leaveRoom
  viewers,           \* viewers:{channelId} in Redis
  faults,            \* failed Redis commands so far
  raced              \* history: channels and users a race has disturbed

shared == <<rooms, room, totalSockets, userSocketCounts>>
vars   == <<shared, conn, on, beat, leaving, viewers, faults, raced>>

Awaiting == {"auth", "verify", "exists", "me", "subscribe", "incr"}
Phases   == Awaiting \union {"done"}
Links    == {"open", "closing", "closed"}

Conn  == [link : Links, gone : BOOLEAN, phase : Phases,
          user : Users, channel : Channels, room : RoomIds \union {None}]
Room  == [channel : Channels, sockets : SUBSET Sockets, sub : {"pending", "on", "off"}]
Leave == [phase : {"none", "decr", "unsub"}, room : RoomIds \union {None}]

TypeOK ==
  /\ rooms \in [Channels -> RoomIds \union {None}]
  /\ room \in [RoomIds -> Room]
  /\ totalSockets \in Nat
  /\ userSocketCounts \in [Users -> Nat]
  /\ conn \in [Sockets -> Conn]
  /\ on \in [Sockets -> SUBSET {"total", "user", "beat", "leave"}]
  /\ beat \in [Sockets -> {"off", "alive", "unheard"}]
  /\ leaving \in [Sockets -> Leave]
  /\ viewers \in [Channels -> Int]
  /\ faults \in Nat
  /\ raced \subseteq Channels \union Users

NoLeave == [phase |-> "none", room |-> None]

Init ==
  /\ rooms = [c \in Channels |-> None]
  /\ room = [r \in RoomIds |-> [channel |-> CHOOSE c \in Channels : TRUE,
                                sockets |-> {}, sub |-> "off"]]
  /\ totalSockets = 0
  /\ userSocketCounts = [u \in Users |-> 0]
  /\ conn = [s \in Sockets |->
               [link |-> "closed", gone |-> FALSE, phase |-> "done",
                user |-> CHOOSE u \in Users : TRUE, channel |-> CHOOSE c \in Channels : TRUE,
                room |-> None]]
  /\ on = [s \in Sockets |-> {}]
  /\ beat = [s \in Sockets |-> "off"]
  /\ leaving = [s \in Sockets |-> NoLeave]
  /\ viewers = [c \in Channels |-> 0]
  /\ faults = 0
  /\ raced = {}
-----------------------------------------------------------------------------
UserOf(s)    == conn[s].user
ChannelOf(s) == conn[s].channel
Open(s)      == conn[s].link = "open"
RoomCount    == Cardinality({c \in Channels : rooms[c] # None})
InTeardown(r) == \E s \in Sockets : leaving[s] = [phase |-> "unsub", room |-> r]

Step(s, phase) == conn' = [conn EXCEPT ![s].phase = phase]

\* reject: the handler returns and the socket starts closing.
Reject(s) ==
  conn' = [conn EXCEPT ![s].phase = "done",
                       ![s].link = IF @ = "open" THEN "closing" ELSE @]

\* socket.on("close", ...): heard only if the event is still to come.
Listen(s, L) ==
  on' = [on EXCEPT ![s] = IF conn[s].link = "closed" THEN @ ELSE @ \union L]

\* A socket identity is free again once nothing refers to its last use.
Reusable(s) ==
  /\ conn[s].link = "closed" /\ conn[s].phase = "done"
  /\ leaving[s] = NoLeave /\ beat[s] = "off"
  /\ \A r \in RoomIds : s \notin room[r].sockets

Unreferenced(r) ==
  /\ room[r].sub = "off"
  /\ \A c \in Channels : rooms[c] # r
  /\ \A s \in Sockets : conn[s].room # r /\ leaving[s].room # r
-----------------------------------------------------------------------------
(* Admission.                                                               *)

Opened(s) ==
  \E u \in Users, c \in Channels :
    conn' = [conn EXCEPT ![s] = [link |-> "open", gone |-> FALSE, phase |-> "auth",
                                 user |-> u, channel |-> c, room |-> None]]

\* A well-formed upgrade under the ceiling claims its place before anything
\* else; a refused one leaves nothing behind.
Connect(s) ==
  /\ Reusable(s)
  /\ totalSockets < MaxTotal
  /\ Opened(s)
  /\ totalSockets' = totalSockets + 1
  /\ on' = [on EXCEPT ![s] = {"total"}]
  /\ UNCHANGED <<rooms, room, userSocketCounts, beat, leaving, viewers, faults, raced>>

\* awaitAuthToken: the first frame carries a token.
AuthFrame(s) ==
  /\ conn[s].phase = "auth" /\ Open(s) /\ ~ conn[s].gone
  /\ Step(s, "verify")
  /\ UNCHANGED <<shared, on, beat, leaving, viewers, faults, raced>>

\* awaitAuthToken: timeout, another frame, or the socket closed.
AuthFailed(s) ==
  /\ conn[s].phase = "auth"
  /\ Reject(s)
  /\ UNCHANGED <<shared, on, beat, leaving, viewers, faults, raced>>

\* verifyAccessToken said no, or the user has too many sockets.
Unverified(s) ==
  /\ conn[s].phase = "verify"
  /\ Reject(s)
  /\ UNCHANGED <<shared, on, beat, leaving, viewers, faults, raced>>

\* The per-user ceiling: count the socket.  The race: it closed while its token
\* was verified, and the listener that gives the place back comes too late.
CountUser(s) ==
  /\ userSocketCounts[UserOf(s)] < MaxPerUser
  /\ userSocketCounts' = [userSocketCounts EXCEPT ![UserOf(s)] = @ + 1]
  /\ raced' = IF conn[s].link = "closed" THEN raced \union {UserOf(s)} ELSE raced

\* verifyAccessToken said yes and the channel has a room: start the heartbeat.
VerifiedKnownRoom(s) ==
  /\ conn[s].phase = "verify" /\ rooms[ChannelOf(s)] # None
  /\ CountUser(s)
  /\ Listen(s, {"user", "beat"})
  /\ beat' = [beat EXCEPT ![s] = "alive"]
  /\ Step(s, "me")
  /\ UNCHANGED <<rooms, room, totalSockets, leaving, viewers, faults>>

\* verifyAccessToken said yes and there is no room yet: room capacity, then
\* the user's creation rate (an arbitrary verdict), then channelExists is asked.
VerifiedNewRoom(s) ==
  /\ conn[s].phase = "verify" /\ rooms[ChannelOf(s)] = None
  /\ CountUser(s)
  /\ Listen(s, {"user"})
  /\ (RoomCount < MaxRooms /\ Step(s, "exists")) \/ Reject(s)
  /\ UNCHANGED <<rooms, room, totalSockets, beat, leaving, viewers, faults>>

\* channelExists: yes, or core does not answer; start the heartbeat.
ChannelFound(s) ==
  /\ conn[s].phase = "exists"
  /\ Listen(s, {"beat"})
  /\ beat' = [beat EXCEPT ![s] = "alive"]
  /\ Step(s, "me")
  /\ UNCHANGED <<shared, leaving, viewers, faults, raced>>

ChannelMissing(s) ==
  /\ conn[s].phase = "exists"
  /\ Reject(s)
  /\ UNCHANGED <<shared, on, beat, leaving, viewers, faults, raced>>
-----------------------------------------------------------------------------
(* joinRoom.                                                                *)

\* coreAuth.me answered and the channel has a Room: join it.
JoinExisting(s) ==
  LET r == rooms[ChannelOf(s)] IN
  /\ conn[s].phase = "me" /\ r # None
  /\ room' = [room EXCEPT ![r].sockets = @ \union {s}]
  /\ Step(s, "incr")
  /\ raced' = IF InTeardown(r) THEN raced \union {ChannelOf(s)} ELSE raced
  /\ UNCHANGED <<rooms, totalSockets, userSocketCounts, on, beat, leaving,
                 viewers, faults>>

\* coreAuth.me answered and there is no Room: make one and subscribe it.
JoinNew(s) ==
  /\ conn[s].phase = "me" /\ rooms[ChannelOf(s)] = None
  /\ \E r \in RoomIds :
       /\ Unreferenced(r)
       /\ rooms' = [rooms EXCEPT ![ChannelOf(s)] = r]
       /\ room' = [room EXCEPT ![r] = [channel |-> ChannelOf(s), sockets |-> {},
                                       sub |-> "pending"]]
       /\ conn' = [conn EXCEPT ![s].phase = "subscribe", ![s].room = r]
  /\ UNCHANGED <<totalSockets, userSocketCounts, on, beat, leaving, viewers,
                 faults, raced>>

Subscribed(s) ==
  LET r == conn[s].room IN
  /\ conn[s].phase = "subscribe"
  /\ room' = [room EXCEPT ![r].sub = "on", ![r].sockets = @ \union {s}]
  /\ conn' = [conn EXCEPT ![s].phase = "incr", ![s].room = None]
  /\ raced' = IF InTeardown(r) THEN raced \union {ChannelOf(s)} ELSE raced
  /\ UNCHANGED <<rooms, totalSockets, userSocketCounts, on, beat, leaving,
                 viewers, faults>>

\* rooms.delete(channelId), whatever room that is.
DeleteRoom(c) == rooms' = [rooms EXCEPT ![c] = None]

\* subscribe rejects: the room is discarded and the socket closed.
SubscribeFailed(s) ==
  LET r == conn[s].room  c == ChannelOf(s) IN
  /\ conn[s].phase = "subscribe" /\ faults < MaxFaults
  /\ faults' = faults + 1
  /\ DeleteRoom(c)
  /\ room' = [room EXCEPT ![r].sub = "off"]
  /\ conn' = [conn EXCEPT ![s].phase = "done", ![s].room = None,
                          ![s].link = IF @ = "open" THEN "closing" ELSE @]
  /\ raced' = IF rooms[c] \notin {None, r} \/ room[r].sockets # {}
              THEN raced \union {c} ELSE raced
  /\ UNCHANGED <<totalSockets, userSocketCounts, on, beat, leaving, viewers>>

\* A best-effort INCR or DECR of the viewer count.
Count(c, n) ==
  \/ viewers' = [viewers EXCEPT ![c] = @ + n] /\ UNCHANGED faults
  \/ faults < MaxFaults /\ faults' = faults + 1 /\ UNCHANGED viewers

\* The viewer is counted, the handler done: only now is leaveRoom registered.
Joined(s) ==
  /\ conn[s].phase = "incr"
  /\ Count(ChannelOf(s), 1)
  /\ Listen(s, {"leave"})
  /\ Step(s, "done")
  /\ raced' = IF conn[s].link = "closed" THEN raced \union {ChannelOf(s)} ELSE raced
  /\ UNCHANGED <<shared, beat, leaving>>
-----------------------------------------------------------------------------
(* Closing and leaveRoom.                                                   *)

\* leaveRoom up to its first await.
BeginLeave(s) ==
  LET r == rooms[ChannelOf(s)] IN
  IF "leave" \in on[s] /\ r # None
  THEN /\ room' = [room EXCEPT ![r].sockets = @ \ {s}]
       /\ leaving' = [leaving EXCEPT ![s] = [phase |-> "decr", room |-> r]]
  ELSE UNCHANGED <<room, leaving>>

\* Slip: the release is registered for sockets that were never counted.
ReleaseAny(s) ==
  userSocketCounts' = [userSocketCounts EXCEPT ![UserOf(s)] = @ - 1]

\* The listener that gives the user's place back.
ReleaseUser(s) ==
  LET n == userSocketCounts[UserOf(s)] IN
  userSocketCounts' = IF "user" \in on[s] /\ n > 0
                      THEN [userSocketCounts EXCEPT ![UserOf(s)] = n - 1]
                      ELSE userSocketCounts

\* The close event: the peer closed, or a close we started is through.
Closed(s) ==
  /\ conn[s].link = "closing" \/ (Open(s) /\ ~ conn[s].gone)
  /\ conn' = [conn EXCEPT ![s].link = "closed", ![s].gone = FALSE]
  /\ on' = [on EXCEPT ![s] = {}]
  /\ totalSockets' = IF "total" \in on[s] THEN totalSockets - 1 ELSE totalSockets
  /\ ReleaseUser(s)
  /\ beat' = [beat EXCEPT ![s] = IF "beat" \in on[s] THEN "off" ELSE @]
  /\ BeginLeave(s)
  /\ UNCHANGED <<rooms, viewers, faults, raced>>

\* Slip: a leaver is not subtracted.
LeaveUncounted(s) ==
  LET r == leaving[s].room IN
  /\ leaving[s].phase = "decr"
  /\ Count(ChannelOf(s), 0)
  /\ leaving' = [leaving EXCEPT ![s] = IF room[r].sockets = {} THEN [@ EXCEPT !.phase = "unsub"]
                                       ELSE NoLeave]
  /\ UNCHANGED <<shared, conn, on, beat, raced>>

\* DECR answered: the last one out unsubscribes.
LeaveCounted(s) ==
  LET r == leaving[s].room IN
  /\ leaving[s].phase = "decr"
  /\ Count(ChannelOf(s), -1)
  /\ leaving' = [leaving EXCEPT ![s] = IF room[r].sockets = {} THEN [@ EXCEPT !.phase = "unsub"]
                                       ELSE NoLeave]
  /\ UNCHANGED <<shared, conn, on, beat, raced>>

\* Slips: the room stays in the map; the subscriber stays connected.
LeaveInMap(s) ==
  /\ leaving[s].phase = "unsub" /\ room[leaving[s].room].sub # "pending"
  /\ room' = [room EXCEPT ![leaving[s].room].sub = "off"]
  /\ leaving' = [leaving EXCEPT ![s] = NoLeave]
  /\ UNCHANGED <<rooms, totalSockets, userSocketCounts, conn, on, beat, viewers, faults, raced>>
LeaveConnected(s) ==
  /\ leaving[s].phase = "unsub" /\ room[leaving[s].room].sub # "pending"
  /\ DeleteRoom(ChannelOf(s))
  /\ leaving' = [leaving EXCEPT ![s] = NoLeave]
  /\ UNCHANGED <<room, totalSockets, userSocketCounts, conn, on, beat, viewers, faults, raced>>

\* UNSUBSCRIBE answered (after the SUBSCRIBE sent before it): disconnect and
\* delete the channel's room.
LeaveUnsubscribed(s) ==
  LET r == leaving[s].room  c == ChannelOf(s) IN
  /\ leaving[s].phase = "unsub" /\ room[r].sub # "pending"
  /\ room' = [room EXCEPT ![r].sub = "off"]
  /\ DeleteRoom(c)
  /\ leaving' = [leaving EXCEPT ![s] = NoLeave]
  /\ raced' = IF rooms[c] \notin {None, r} THEN raced \union {c} ELSE raced
  /\ UNCHANGED <<totalSockets, userSocketCounts, conn, on, beat, viewers, faults>>
-----------------------------------------------------------------------------
(* Heartbeat.                                                               *)

\* Slip: a missed pong is forgiven.
BeatForgiving(s) ==
  /\ beat[s] # "off" /\ (conn[s].gone \/ ~ Open(s))
  /\ beat' = [beat EXCEPT ![s] = "unheard"]
  /\ UNCHANGED <<shared, conn, on, leaving, viewers, faults, raced>>

\* The interval: a peer that is there has answered by the next beat; one that
\* is not is pinged once and then terminated.
Beat(s) ==
  /\ beat[s] # "off" /\ (conn[s].gone \/ ~ Open(s))
  /\ IF beat[s] = "alive"
     THEN beat' = [beat EXCEPT ![s] = "unheard"] /\ UNCHANGED conn
     ELSE /\ conn' = [conn EXCEPT ![s].link = IF @ = "open" THEN "closing" ELSE @]
          /\ UNCHANGED beat
  /\ UNCHANGED <<shared, on, leaving, viewers, faults, raced>>

\* The peer is cut off without a close (external).
Vanish(s) ==
  /\ Open(s) /\ ~ conn[s].gone
  /\ conn' = [conn EXCEPT ![s].gone = TRUE]
  /\ UNCHANGED <<shared, on, beat, leaving, viewers, faults, raced>>
-----------------------------------------------------------------------------
\* Answers the handler awaits and events that must come.
Answer(s) ==
  \/ AuthFailed(s) \/ Unverified(s) \/ VerifiedKnownRoom(s) \/ VerifiedNewRoom(s)
  \/ ChannelFound(s) \/ ChannelMissing(s) \/ JoinExisting(s) \/ JoinNew(s)
  \/ Subscribed(s) \/ SubscribeFailed(s) \/ Joined(s)
  \/ LeaveCounted(s) \/ LeaveUnsubscribed(s)

Next ==
  \E s \in Sockets :
    \/ Connect(s) \/ AuthFrame(s) \/ Answer(s) \/ Closed(s) \/ Beat(s) \/ Vanish(s)

Spec == Init /\ [][Next]_vars

\* Awaited calls are answered, timers fire, a close we started completes.
Fairness ==
  \A s \in Sockets :
    /\ WF_vars(Answer(s)) /\ WF_vars(Beat(s))
    /\ WF_vars(conn[s].link = "closing" /\ Closed(s))

FairSpec == Spec /\ Fairness
-----------------------------------------------------------------------------
Alive(s)  == conn[s].link # "closed"
Heard(s, l) == Alive(s) /\ l \in on[s]

\* Through any interleaving of admissions, rejections and closes the instance's
\* ceiling holds, for sockets still waiting to be authenticated too, and a user's:
\* no rejection leaks a place and no close gives one back twice, each count being the
\* sockets that hold a place, unless one of the user's closed while its token was
\* being verified (chat.ts:240-267).
CeilingsHold ==
  /\ totalSockets = Cardinality({s \in Sockets : Alive(s)}) /\ totalSockets <= MaxTotal
  /\ \A u \in Users :
       LET held == Cardinality({s \in Sockets : Heard(s, "user") /\ UserOf(s) = u}) IN
       held <= MaxPerUser /\ (u \notin raced => userSocketCounts[u] = held)

\* The races of rooms are the only ones: a socket that joined and is still open is
\* in the channel's room, subscribed, unless on its channel somebody joined a
\* room being torn down, a teardown or a failed subscription took away a room
\* that others use, or a socket closed while it was joining.
JoinedAreServed ==
  \A s \in Sockets :
    (Heard(s, "leave") /\ ChannelOf(s) \notin raced) =>
       LET r == rooms[ChannelOf(s)] IN
       r # None /\ s \in room[r].sockets /\ room[r].sub # "off"

\* Outside those races no Redis subscription outlives its room: one that is
\* open belongs to the channel's room.
SubscriptionsOwned ==
  \A r \in RoomIds :
    (room[r].sub # "off" /\ room[r].channel \notin raced) => rooms[room[r].channel] = r

\* Outside those races, and if no Redis command fails, the viewer count is the
\* number of sockets that joined and have not been subtracted.
ViewersExact ==
  faults = 0 => \A c \in Channels \ raced :
    viewers[c] = Cardinality({s \in Sockets : ChannelOf(s) = c /\
                               (Heard(s, "leave") \/ leaving[s].phase = "decr")})

\* A socket whose peer has vanished is closed in the end, wherever its handler
\* stands: the frame timeout or the heartbeat finds it (chat.ts:21, 278-291).
VanishedReaped ==
  \A s \in Sockets : (conn[s].link = "open" /\ conn[s].gone) ~> (conn[s].link = "closed")
=============================================================================
