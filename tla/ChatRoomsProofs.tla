-------------------------- MODULE ChatRoomsProofs --------------------------
(***************************************************************************)
(* Proofs about the chat sockets and rooms of one BFF instance, for any     *)
(* number of sockets, users, channels and Room objects and any number of    *)
(* failed Redis commands.  The invariant has four parts, each resting on    *)
(* the ones before it: what a socket's handler, listeners and leaveRoom     *)
(* agree on and how places are counted; whose a Room object is; what is     *)
(* true of a channel no race has disturbed; what its viewer count is.       *)
(***************************************************************************)
EXTENDS ChatRooms, TLAPS, FiniteSetTheorems

\* A handler, the listeners heard so far and a leaveRoom: the close event
\* is consumed once, and leaveRoom runs for handlers that are done.
SocketSound(s) ==
  /\ Alive(s) => "total" \in on[s]
  /\ ~ Alive(s) => on[s] = {}
  /\ conn[s].phase \in {"auth", "verify"} => "user" \notin on[s]
  /\ "leave" \in on[s] => conn[s].phase = "done"
  /\ leaving[s].phase # "none" => conn[s].phase = "done" /\ ~ Alive(s)

\* One step of one socket, its handler or its leaveRoom.
Act(s) == Connect(s) \/ AuthFrame(s) \/ Answer(s) \/ Closed(s) \/ Beat(s) \/ Vanish(s)

Living  == {s \in Sockets : Alive(s)}
Held(u) == {s \in Sockets : Heard(s, "user") /\ UserOf(s) = u}

\* A race only ever adds to a user's count.
PlacesCounted ==
  /\ totalSockets = Cardinality(Living) /\ totalSockets <= MaxTotal
  /\ \A u \in Users :
       /\ Cardinality(Held(u)) <= userSocketCounts[u] /\ userSocketCounts[u] <= MaxPerUser
       /\ u \notin raced => userSocketCounts[u] = Cardinality(Held(u))

\* A Room object in use is its channel's; one being subscribed is one handler's.
RoomsOwned ==
  /\ \A c \in Channels : rooms[c] # None =>
       room[rooms[c]].channel = c /\ room[rooms[c]].sub # "off"
  /\ \A s \in Sockets :
       /\ conn[s].phase = "subscribe" <=> conn[s].room # None
       /\ conn[s].room # None =>
            room[conn[s].room].channel = ChannelOf(s) /\ room[conn[s].room].sub = "pending"
       /\ leaving[s].phase # "none" <=> leaving[s].room # None
       /\ leaving[s].phase # "none" => room[leaving[s].room].channel = ChannelOf(s)
  /\ \A s, t \in Sockets : conn[s].room # None /\ conn[s].room = conn[t].room => s = t

Joins(s) == Heard(s, "leave") \/ conn[s].phase = "incr"

\* On a channel no race has disturbed a socket that joins stays in the room, and
\* a room is torn down empty.
Undisturbed ==
  /\ \A s \in Sockets : Joins(s) /\ ChannelOf(s) \notin raced =>
       rooms[ChannelOf(s)] # None /\ s \in room[rooms[ChannelOf(s)]].sockets
  /\ \A r \in RoomIds : InTeardown(r) /\ room[r].channel \notin raced => room[r].sockets = {}

SocketPart == (\A s \in Sockets : SocketSound(s)) /\ PlacesCounted
RoomPart   == RoomsOwned /\ Undisturbed /\ SubscriptionsOwned
ChatInvariant == TypeOK /\ SocketPart /\ RoomPart /\ ViewersExact
-----------------------------------------------------------------------------
(* Types.                                                                   *)

LEMMA InitTypes == Init => TypeOK
<1> SUFFICES ASSUME Init PROVE TypeOK OBVIOUS
<1> USE Populated DEF Init
<1>1. rooms \in [Channels -> RoomIds \union {None}] /\ viewers \in [Channels -> Int] OBVIOUS
<1>2. (CHOOSE c \in Channels : TRUE) \in Channels OBVIOUS
<1>3. (CHOOSE u \in Users : TRUE) \in Users OBVIOUS
<1>4. room \in [RoomIds -> Room] BY <1>2 DEF Room
<1>5. conn \in [Sockets -> Conn] BY <1>2, <1>3 DEF Conn, Links, Phases, Awaiting
<1>6. leaving \in [Sockets -> Leave] BY DEF Leave, NoLeave
<1>7. QED BY <1>1, <1>4, <1>5, <1>6 DEF TypeOK

LEMMA CountTypes ==
  ASSUME TypeOK, NEW c \in Channels, NEW n \in {-1, 1}, Count(c, n)
  PROVE  viewers' \in [Channels -> Int] /\ faults' \in Nat
BY DEF TypeOK, Count

\* Only open sockets close, so the count of sockets stays a natural number.
LEMMA LivingCounted ==
  /\ IsFiniteSet(Living) /\ \A u \in Users : IsFiniteSet(Held(u))
  /\ \A s \in Sockets : Alive(s) => Cardinality(Living) \in Nat \ {0}
<1>1. IsFiniteSet(Living) /\ \A u \in Users : IsFiniteSet(Held(u))
  BY SocketsFinite, FS_Subset DEF Living, Held
<1>2. \A s \in Sockets : Alive(s) => s \in Living BY DEF Living
<1>3. QED BY <1>1, <1>2, FS_CardinalityType, FS_EmptySet

\* The records a step edits.
LEMMA RoomEdits ==
  ASSUME TypeOK, NEW r \in RoomIds
  PROVE  /\ \A S \in SUBSET Sockets :
              /\ [room EXCEPT ![r].sockets = S] \in [RoomIds -> Room]
              /\ [room EXCEPT ![r].sub = "on", ![r].sockets = S] \in [RoomIds -> Room]
         /\ [room EXCEPT ![r].sub = "off"] \in [RoomIds -> Room]
         /\ \A c \in Channels : [room EXCEPT ![r] =
              [channel |-> c, sockets |-> {}, sub |-> "pending"]] \in [RoomIds -> Room]
<1>1. /\ \A S \in SUBSET Sockets : /\ [room[r] EXCEPT !.sockets = S] \in Room
                                   /\ [room[r] EXCEPT !.sub = "on", !.sockets = S] \in Room
      /\ [room[r] EXCEPT !.sub = "off"] \in Room
      /\ \A c \in Channels : [channel |-> c, sockets |-> {}, sub |-> "pending"] \in Room
  BY DEF TypeOK, Room
<1>2. QED BY <1>1 DEF TypeOK

LEMMA ConnEdits ==
  ASSUME TypeOK, NEW s \in Sockets
  PROVE  /\ \A p \in Phases :
              /\ [conn EXCEPT ![s].phase = p] \in [Sockets -> Conn]
              /\ \A l \in Links : [conn EXCEPT ![s].phase = p, ![s].link = l] \in [Sockets -> Conn]
              /\ \A r \in RoomIds \union {None} :
                   /\ [conn EXCEPT ![s].phase = p, ![s].room = r] \in [Sockets -> Conn]
                   /\ \A l \in Links : [conn EXCEPT ![s].phase = p, ![s].room = r, ![s].link = l]
                                         \in [Sockets -> Conn]
         /\ [conn EXCEPT ![s].link = "closed", ![s].gone = FALSE] \in [Sockets -> Conn]
<1>0. conn[s] \in Conn /\ "closed" \in Links BY DEF TypeOK, Links
<1>1. ASSUME NEW p \in Phases, NEW l \in Links, NEW r \in RoomIds \union {None}
      PROVE  /\ [conn[s] EXCEPT !.phase = p] \in Conn
             /\ [conn[s] EXCEPT !.phase = p, !.link = l] \in Conn
             /\ [conn[s] EXCEPT !.phase = p, !.room = r] \in Conn
             /\ [conn[s] EXCEPT !.phase = p, !.room = r, !.link = l] \in Conn
             /\ [conn[s] EXCEPT !.link = l, !.gone = FALSE] \in Conn
  BY <1>0 DEF Conn
<1>2. \A p \in Phases, l \in Links, r \in RoomIds \union {None} :
        /\ [conn EXCEPT ![s].phase = p] \in [Sockets -> Conn]
        /\ [conn EXCEPT ![s].phase = p, ![s].link = l] \in [Sockets -> Conn]
        /\ [conn EXCEPT ![s].phase = p, ![s].room = r] \in [Sockets -> Conn]
        /\ [conn EXCEPT ![s].phase = p, ![s].room = r, ![s].link = l] \in [Sockets -> Conn]
        /\ [conn EXCEPT ![s].link = l, ![s].gone = FALSE] \in [Sockets -> Conn]
  BY <1>1 DEF TypeOK
<1>3. None \in RoomIds \union {None} /\ "done" \in Phases BY DEF Phases
<1>4. QED BY <1>0, <1>2, <1>3

LEMMA ListenTypes ==
  ASSUME TypeOK, NEW s \in Sockets, NEW L \in SUBSET {"total", "user", "beat", "leave"},
         Listen(s, L)
  PROVE  on' \in [Sockets -> SUBSET {"total", "user", "beat", "leave"}]
<1>1. on[s] \union L \in SUBSET {"total", "user", "beat", "leave"} BY DEF TypeOK
<1>2. QED BY <1>1 DEF TypeOK, Listen

LEMMA CountUserTypes ==
  ASSUME TypeOK, NEW s \in Sockets, CountUser(s)
  PROVE  userSocketCounts' \in [Users -> Nat] /\ raced' \subseteq Channels \union Users
<1>1. UserOf(s) \in Users BY DEF UserOf, TypeOK, Conn
<1>2. QED BY <1>1 DEF CountUser, TypeOK

LEMMA TypeStep ==
  TypeOK /\ totalSockets = Cardinality(Living) /\ RoomsOwned /\ [Next]_vars => TypeOK'
<1> SUFFICES ASSUME TypeOK, totalSockets = Cardinality(Living), RoomsOwned, [Next]_vars
             PROVE  TypeOK'
  OBVIOUS
<1>1. CASE UNCHANGED vars BY <1>1 DEF vars, shared, TypeOK
<1>2. CASE Next
  <2> PICK s \in Sockets : Act(s) BY <1>2 DEF Next, Act
  <2>a. conn[s] \in Conn /\ leaving[s] \in Leave BY DEF TypeOK
  <2>b. /\ UserOf(s) \in Users /\ ChannelOf(s) \in Channels
        /\ conn[s].room \in RoomIds \union {None} /\ leaving[s].room \in RoomIds \union {None}
        /\ conn[s].link \in Links
    BY <2>a DEF Conn, Leave, UserOf, ChannelOf
  <2>c. /\ conn[s].phase = "subscribe" => conn[s].room \in RoomIds
        /\ leaving[s].phase # "none" => leaving[s].room \in RoomIds
    BY <2>b DEF RoomsOwned
  <2>d. /\ rooms[ChannelOf(s)] \in RoomIds \union {None}
        /\ \A r \in RoomIds : room[r].sockets \in SUBSET Sockets
    BY <2>b DEF TypeOK, Room
  <2> USE DEF TypeOK, shared
  <2>1. CASE Connect(s) BY <2>1 DEF Connect, Opened, Conn, Links, Phases, Awaiting
  <2>r. CASE Reject(s) /\ UNCHANGED <<shared, on, beat, leaving, viewers, faults, raced>>
    <3>1. conn' \in [Sockets -> Conn]
      BY <2>r, <2>b, ConnEdits DEF Reject, Links, Phases, Awaiting
    <3>2. QED BY <2>r, <3>1
  <2>2. CASE AuthFrame(s)
    <3>1. conn' \in [Sockets -> Conn] BY <2>2, <2>b, ConnEdits DEF AuthFrame, Step, Phases, Awaiting
    <3>2. QED BY <2>2, <3>1 DEF AuthFrame
  <2>3. CASE VerifiedKnownRoom(s)
    <3>1. conn' \in [Sockets -> Conn]
      BY <2>3, <2>b, ConnEdits DEF VerifiedKnownRoom, Step, Phases, Awaiting
    <3>2. on' \in [Sockets -> SUBSET {"total", "user", "beat", "leave"}]
      BY <2>3, ListenTypes DEF VerifiedKnownRoom
    <3>3. QED BY <2>3, <3>1, <3>2, CountUserTypes DEF VerifiedKnownRoom
  <2>4. CASE VerifiedNewRoom(s)
    <3>1. conn' \in [Sockets -> Conn]
      <4>1. CASE Step(s, "exists") BY <4>1, <2>b, ConnEdits DEF Step, Phases, Awaiting
      <4>2. CASE Reject(s) BY <4>2, <2>b, ConnEdits DEF Reject, Phases, Awaiting, Links
      <4>3. QED BY <2>4, <4>1, <4>2 DEF VerifiedNewRoom
    <3>2. on' \in [Sockets -> SUBSET {"total", "user", "beat", "leave"}]
      BY <2>4, ListenTypes DEF VerifiedNewRoom
    <3>3. QED BY <2>4, <3>1, <3>2, CountUserTypes DEF VerifiedNewRoom
  <2>5. CASE ChannelFound(s)
    <3>1. conn' \in [Sockets -> Conn]
      BY <2>5, <2>b, ConnEdits DEF ChannelFound, Step, Phases, Awaiting
    <3>2. QED BY <2>5, <3>1 DEF ChannelFound, Listen
  <2>6. CASE JoinExisting(s)
    <3>1. conn' \in [Sockets -> Conn]
      BY <2>6, <2>b, ConnEdits DEF JoinExisting, Step, Phases, Awaiting
    <3>2. room' \in [RoomIds -> Room]
      <4> DEFINE r == rooms[ChannelOf(s)]
      <4>1. r \in RoomIds /\ room[r].sockets \union {s} \in SUBSET Sockets
        BY <2>6, <2>d DEF JoinExisting
      <4>2. room' = [room EXCEPT ![r].sockets = room[r].sockets \union {s}]
        BY <2>6 DEF JoinExisting
      <4> HIDE DEF r
      <4>3. QED BY <4>1, <4>2, RoomEdits
    <3>3. QED BY <2>6, <2>b, <3>1, <3>2 DEF JoinExisting
  <2>7. CASE JoinNew(s)
    <3> PICK r \in RoomIds :
          /\ rooms' = [rooms EXCEPT ![ChannelOf(s)] = r]
          /\ room' = [room EXCEPT ![r] = [channel |-> ChannelOf(s), sockets |-> {},
                                          sub |-> "pending"]]
          /\ conn' = [conn EXCEPT ![s].phase = "subscribe", ![s].room = r]
      BY <2>7 DEF JoinNew
    <3>1. conn' \in [Sockets -> Conn] BY ConnEdits DEF Phases, Awaiting
    <3>2. room' \in [RoomIds -> Room] BY <2>b, RoomEdits
    <3>3. rooms' \in [Channels -> RoomIds \union {None}] OBVIOUS
    <3>4. QED BY <2>7, <3>1, <3>2, <3>3 DEF JoinNew
  <2>8. CASE Subscribed(s)
    <3>1. conn' \in [Sockets -> Conn]
      BY <2>8, <2>b, ConnEdits DEF Subscribed, Phases, Awaiting
    <3>2. room' \in [RoomIds -> Room]
      <4> DEFINE r == conn[s].room
      <4>1. r \in RoomIds /\ room[r].sockets \union {s} \in SUBSET Sockets
        BY <2>8, <2>c, <2>d DEF Subscribed
      <4>2. room' = [room EXCEPT ![r].sub = "on", ![r].sockets = room[r].sockets \union {s}]
        BY <2>8, <4>1 DEF Subscribed
      <4> HIDE DEF r
      <4>3. QED BY <4>1, <4>2, RoomEdits
    <3>3. QED BY <2>8, <2>b, <3>1, <3>2 DEF Subscribed
  <2>9. CASE SubscribeFailed(s)
    <3>1. conn' \in [Sockets -> Conn]
      BY <2>9, <2>b, ConnEdits DEF SubscribeFailed, Phases, Awaiting, Links
    <3>2. room' \in [RoomIds -> Room] BY <2>9, <2>b, <2>c, RoomEdits DEF SubscribeFailed
    <3>3. QED BY <2>9, <2>b, <3>1, <3>2 DEF SubscribeFailed, DeleteRoom
  <2>10. CASE Joined(s)
    <3>1. conn' \in [Sockets -> Conn]
      BY <2>10, <2>b, ConnEdits DEF Joined, Step, Phases, Awaiting
    <3>2. QED BY <2>10, <2>b, <3>1, CountTypes DEF Joined, Listen
  <2>11. CASE LeaveCounted(s)
    BY <2>11, <2>b, CountTypes DEF LeaveCounted, NoLeave, Leave
  <2>12. CASE LeaveUnsubscribed(s)
    <3>1. room' \in [RoomIds -> Room] BY <2>12, <2>c, RoomEdits, <2>b DEF LeaveUnsubscribed
    <3>2. QED BY <2>12, <2>b, <3>1 DEF LeaveUnsubscribed, DeleteRoom, NoLeave, Leave
  <2>13. CASE Closed(s)
    <3>1. conn' \in [Sockets -> Conn] BY <2>13, ConnEdits DEF Closed, Links, Phases
    <3>2. room' \in [RoomIds -> Room] /\ leaving' \in [Sockets -> Leave]
      <4> DEFINE r == rooms[ChannelOf(s)]
      <4>1. CASE r # None /\ "leave" \in on[s]
        <5>1. r \in RoomIds /\ room[r].sockets \ {s} \in SUBSET Sockets BY <4>1, <2>d
        <5>2. room' = [room EXCEPT ![r].sockets = room[r].sockets \ {s}]
          BY <2>13, <4>1 DEF Closed, BeginLeave
        <5>3. leaving' = [leaving EXCEPT ![s] = [phase |-> "decr", room |-> r]]
          BY <2>13, <4>1 DEF Closed, BeginLeave
        <5> HIDE DEF r
        <5>4. leaving' \in [Sockets -> Leave] BY <5>1, <5>3 DEF Leave
        <5>5. QED BY <5>1, <5>2, <5>4, RoomEdits
      <4>2. QED BY <2>13, <4>1 DEF Closed, BeginLeave
    <3>3. totalSockets' \in Nat BY <2>13, LivingCounted DEF Closed, Alive, Open
    <3>4. userSocketCounts' \in [Users -> Nat] BY <2>13, <2>b DEF Closed, ReleaseUser
    <3>5. QED BY <2>13, <3>1, <3>2, <3>3, <3>4 DEF Closed
  <2>14. CASE Beat(s)
    <3>1. [conn[s] EXCEPT !.link = IF @ = "open" THEN "closing" ELSE @] \in Conn
      BY <2>a DEF Conn, Links
    <3>2. conn' \in [Sockets -> Conn] BY <2>14, <3>1 DEF Beat
    <3>3. QED BY <2>14, <3>2 DEF Beat
  <2>15. CASE Vanish(s)
    <3>1. [conn[s] EXCEPT !.gone = TRUE] \in Conn BY <2>a DEF Conn
    <3>2. conn' \in [Sockets -> Conn] BY <2>15, <3>1 DEF Vanish
    <3>3. QED BY <2>15, <3>2 DEF Vanish
  <2>16. QED BY <2>1, <2>2, <2>3, <2>4, <2>5, <2>6, <2>7, <2>8, <2>9, <2>10, <2>11, <2>12,
                <2>13, <2>14, <2>15, <2>r DEF Act, Answer, AuthFailed, Unverified, ChannelMissing
<1>3. QED BY <1>1, <1>2
-----------------------------------------------------------------------------
(* Sockets and places.                                                      *)

\* A step of one socket leaves the others where they are.
LEMMA OthersStay ==
  ASSUME TypeOK, NEW s \in Sockets, Act(s), NEW t \in Sockets \ {s}
  PROVE  conn'[t] = conn[t] /\ on'[t] = on[t] /\ leaving'[t] = leaving[t]
<1>1. CASE Connect(s) \/ AuthFrame(s) \/ Vanish(s) \/ Beat(s)
  BY <1>1 DEF TypeOK, Connect, Opened, AuthFrame, Vanish, Beat, Step
<1>2. CASE AuthFailed(s) \/ Unverified(s) \/ ChannelMissing(s) \/ ChannelFound(s)
  BY <1>2 DEF TypeOK, AuthFailed, Unverified, ChannelMissing, ChannelFound, Reject, Step, Listen
<1>3. CASE VerifiedKnownRoom(s) \/ VerifiedNewRoom(s)
  BY <1>3 DEF TypeOK, VerifiedKnownRoom, VerifiedNewRoom, Reject, Step, Listen
<1>4. CASE JoinExisting(s) \/ JoinNew(s) \/ Joined(s)
  BY <1>4 DEF TypeOK, JoinExisting, JoinNew, Joined, Step, Listen, shared
<1>5. CASE Subscribed(s) \/ SubscribeFailed(s)
  BY <1>5 DEF TypeOK, Subscribed, SubscribeFailed
<1>6. CASE LeaveCounted(s) \/ LeaveUnsubscribed(s)
  BY <1>6 DEF TypeOK, LeaveCounted, LeaveUnsubscribed
<1>7. CASE Closed(s)
  BY <1>7 DEF TypeOK, Closed, BeginLeave
<1>8. QED BY <1>1, <1>2, <1>3, <1>4, <1>5, <1>6, <1>7 DEF Act, Answer

\* What a step makes of its own socket's record; only a close event closes it.
LEMMA StepFields ==
  ASSUME TypeOK, NEW s \in Sockets, NEW p, Step(s, p)
  PROVE  /\ conn'[s].phase = p /\ conn'[s].link = conn[s].link /\ conn'[s].room = conn[s].room
         /\ conn'[s].user = conn[s].user /\ conn'[s].channel = conn[s].channel
BY DEF TypeOK, Conn, Step

LEMMA RejectFields ==
  ASSUME TypeOK, NEW s \in Sockets, Reject(s)
  PROVE  /\ conn'[s].phase = "done" /\ conn'[s].room = conn[s].room
         /\ conn'[s].user = conn[s].user /\ conn'[s].channel = conn[s].channel
         /\ conn'[s].link = "closed" <=> conn[s].link = "closed"
BY DEF TypeOK, Conn, Reject

LEMMA BeatFields ==
  ASSUME TypeOK, NEW s \in Sockets, Beat(s) \/ Vanish(s)
  PROVE  /\ conn'[s].phase = conn[s].phase /\ conn'[s].room = conn[s].room
         /\ conn'[s].user = conn[s].user /\ conn'[s].channel = conn[s].channel
         /\ conn'[s].link = "closed" <=> conn[s].link = "closed"
<1>1. CASE Beat(s)
  <2>1. CASE beat[s] = "alive" BY <1>1, <2>1 DEF Beat
  <2>2. CASE beat[s] # "alive" BY <1>1, <2>2 DEF Beat, TypeOK, Conn
  <2>3. QED BY <2>1, <2>2
<1>2. CASE Vanish(s) BY <1>2 DEF Vanish, TypeOK, Conn
<1>3. QED BY <1>1, <1>2

LEMMA JoinFields ==
  ASSUME TypeOK, NEW s \in Sockets, JoinNew(s) \/ Subscribed(s) \/ SubscribeFailed(s)
  PROVE  /\ conn'[s].user = conn[s].user /\ conn'[s].channel = conn[s].channel
         /\ conn'[s].link = "closed" <=> conn[s].link = "closed"
         /\ JoinNew(s) => conn'[s].phase = "subscribe" /\ conn[s].phase = "me"
         /\ Subscribed(s) => conn'[s].phase = "incr" /\ conn'[s].room = None /\ conn[s].phase = "subscribe"
         /\ SubscribeFailed(s) =>
              conn'[s].phase = "done" /\ conn'[s].room = None /\ conn[s].phase = "subscribe"
<1>1. JoinNew(s) => /\ conn'[s].user = conn[s].user /\ conn'[s].channel = conn[s].channel
                    /\ conn'[s].link = conn[s].link
                    /\ conn'[s].phase = "subscribe" /\ conn[s].phase = "me"
  <2> SUFFICES ASSUME JoinNew(s)
               PROVE  /\ conn'[s].user = conn[s].user /\ conn'[s].channel = conn[s].channel
                      /\ conn'[s].link = conn[s].link /\ conn'[s].phase = "subscribe"
    BY DEF JoinNew
  <2> PICK r \in RoomIds : conn' = [conn EXCEPT ![s].phase = "subscribe", ![s].room = r]
    BY DEF JoinNew
  <2> QED BY DEF TypeOK, Conn
<1>2. Subscribed(s) => /\ conn'[s].user = conn[s].user /\ conn'[s].channel = conn[s].channel
                       /\ conn'[s].link = conn[s].link /\ conn'[s].room = None
                       /\ conn'[s].phase = "incr" /\ conn[s].phase = "subscribe"
  BY DEF Subscribed, TypeOK, Conn
<1>3. SubscribeFailed(s) =>
        /\ conn'[s].user = conn[s].user /\ conn'[s].channel = conn[s].channel
        /\ conn'[s].link = "closed" <=> conn[s].link = "closed"
        /\ conn'[s].phase = "done" /\ conn'[s].room = None /\ conn[s].phase = "subscribe"
  BY DEF SubscribeFailed, TypeOK, Conn
<1>4. QED BY <1>1, <1>2, <1>3

LEMMA ClosedFields ==
  ASSUME TypeOK, NEW s \in Sockets, Closed(s)
  PROVE  /\ conn'[s].phase = conn[s].phase /\ conn'[s].link = "closed" /\ on'[s] = {}
         /\ conn'[s].user = conn[s].user /\ conn'[s].channel = conn[s].channel
         /\ conn'[s].room = conn[s].room /\ Alive(s)
BY DEF Closed, TypeOK, Conn, Alive, Open

LEMMA Heeded ==
  ASSUME TypeOK, NEW s \in Sockets, NEW L, Listen(s, L)
  PROVE  \A l : l \in on'[s] <=> l \in on[s] \/ (Alive(s) /\ l \in L)
BY DEF TypeOK, Listen, Alive

LEMMA SocketStep ==
  ASSUME TypeOK, NEW s \in Sockets, Act(s), SocketSound(s)
  PROVE  SocketSound(s)'
<1>0. conn[s] \in Conn /\ leaving[s] \in Leave /\ on[s] \in SUBSET {"total", "user", "beat", "leave"}
  BY DEF TypeOK
<1> USE StepFields, RejectFields, BeatFields, JoinFields, ClosedFields DEF SocketSound, Alive
<1>1. CASE Connect(s)
  BY <1>1 DEF Connect, Opened, Reusable, NoLeave, TypeOK
<1>2. CASE AuthFrame(s) BY <1>2 DEF AuthFrame
<1>3. CASE Beat(s) \/ Vanish(s) BY <1>3 DEF Beat, Vanish
<1>4. CASE AuthFailed(s) \/ Unverified(s) \/ ChannelMissing(s)
  BY <1>4 DEF AuthFailed, Unverified, ChannelMissing
<1>5. CASE ChannelFound(s) BY <1>5, Heeded DEF ChannelFound
<1>6. CASE VerifiedKnownRoom(s) BY <1>6, Heeded DEF VerifiedKnownRoom
<1>7. CASE VerifiedNewRoom(s) BY <1>7, Heeded DEF VerifiedNewRoom
<1>8. CASE JoinExisting(s) BY <1>8 DEF JoinExisting
<1>9. CASE JoinNew(s) BY <1>9 DEF JoinNew
<1>10. CASE Subscribed(s) BY <1>10 DEF Subscribed
<1>11. CASE SubscribeFailed(s) BY <1>11 DEF SubscribeFailed
<1>12. CASE Joined(s) BY <1>12, Heeded DEF Joined, shared
<1>13. CASE LeaveCounted(s) \/ LeaveUnsubscribed(s)
  BY <1>13, <1>0 DEF LeaveCounted, LeaveUnsubscribed, NoLeave, TypeOK
<1>14. CASE Closed(s) BY <1>14 DEF Closed, BeginLeave, TypeOK
<1>15. QED BY <1>1, <1>2, <1>3, <1>4, <1>5, <1>6, <1>7, <1>8, <1>9, <1>10, <1>11, <1>12, <1>13,
              <1>14 DEF Act, Answer

\* Sets that differ in at most one socket.
LEMMA OneApart ==
  ASSUME NEW A \in SUBSET Sockets, NEW B \in SUBSET Sockets, NEW s \in Sockets,
         \A t \in Sockets \ {s} : t \in A <=> t \in B
  PROVE  /\ IsFiniteSet(A) /\ IsFiniteSet(B) /\ Cardinality(A) \in Nat /\ Cardinality(B) \in Nat
         /\ (s \in A <=> s \in B) => A = B
         /\ s \in B /\ s \notin A => Cardinality(B) = Cardinality(A) + 1
         /\ s \in A /\ s \notin B => Cardinality(B) = Cardinality(A) - 1
<1>1. IsFiniteSet(A) /\ IsFiniteSet(B) BY SocketsFinite, FS_Subset
<1>2. s \in B /\ s \notin A => B = A \union {s} OBVIOUS
<1>3. s \in A /\ s \notin B => B = A \ {s} OBVIOUS
<1>4. Cardinality(A) \in Nat /\ Cardinality(B) \in Nat BY <1>1, FS_CardinalityType
<1>5. s \notin A => Cardinality(A \union {s}) = Cardinality(A) + 1 BY <1>1, FS_AddElement
<1>6. s \in A => Cardinality(A \ {s}) = Cardinality(A) - 1 BY <1>1, FS_RemoveElement
<1>7. (s \in A <=> s \in B) => A = B OBVIOUS
<1>8. QED BY <1>1, <1>2, <1>3, <1>4, <1>5, <1>6, <1>7

\* Only an admission, a verified token and a close event touch the counts.
LEMMA OtherSteps ==
  ASSUME TypeOK, NEW s \in Sockets, Act(s), ~ Connect(s), ~ Closed(s)
  PROVE  /\ totalSockets' = totalSockets /\ raced \subseteq raced'
         /\ conn'[s].user = conn[s].user /\ conn'[s].channel = conn[s].channel
         /\ Alive(s)' <=> Alive(s)
         /\ \/ VerifiedKnownRoom(s) \/ VerifiedNewRoom(s)
            \/ userSocketCounts' = userSocketCounts /\ ("user" \in on'[s] <=> "user" \in on[s])
<1> USE StepFields, RejectFields, BeatFields, JoinFields DEF Alive
<1>1. CASE AuthFrame(s) BY <1>1 DEF AuthFrame, shared
<1>2. CASE Beat(s) \/ Vanish(s) BY <1>2 DEF Beat, Vanish, shared
<1>3. CASE AuthFailed(s) \/ Unverified(s) \/ ChannelMissing(s)
  BY <1>3 DEF AuthFailed, Unverified, ChannelMissing, shared
<1>4. CASE ChannelFound(s) BY <1>4, Heeded DEF ChannelFound, shared
<1>5. CASE VerifiedKnownRoom(s) BY <1>5 DEF VerifiedKnownRoom, CountUser
<1>6. CASE VerifiedNewRoom(s) BY <1>6 DEF VerifiedNewRoom, CountUser
<1>7. CASE JoinExisting(s) BY <1>7 DEF JoinExisting
<1>8. CASE JoinNew(s) BY <1>8 DEF JoinNew
<1>9. CASE Subscribed(s) BY <1>9 DEF Subscribed
<1>10. CASE SubscribeFailed(s) BY <1>10 DEF SubscribeFailed
<1>11. CASE Joined(s) BY <1>11, Heeded DEF Joined, shared
<1>12. CASE LeaveCounted(s) \/ LeaveUnsubscribed(s)
  BY <1>12 DEF LeaveCounted, LeaveUnsubscribed, shared
<1>13. QED BY <1>1, <1>2, <1>3, <1>4, <1>5, <1>6, <1>7, <1>8, <1>9, <1>10, <1>11, <1>12
       DEF Act, Answer

LEMMA PlacesStep ==
  ASSUME TypeOK, TypeOK', SocketPart, NEW s \in Sockets, Act(s)
  PROVE  PlacesCounted'
<1>0. SocketSound(s) /\ PlacesCounted /\ UserOf(s) \in Users BY DEF SocketPart, TypeOK, Conn, UserOf
<1>1. totalSockets' = Cardinality(Living') /\ totalSockets' <= MaxTotal
  <2>1. /\ \A t \in Sockets \ {s} : t \in Living <=> t \in Living'
        /\ s \in Living <=> Alive(s)
        /\ s \in Living' <=> Alive(s)'
        /\ Living \in SUBSET Sockets /\ Living' \in SUBSET Sockets
    BY OthersStay DEF Living, Alive
  <2>2. CASE Connect(s)
    <3>1. ~ Alive(s) /\ Alive(s)' BY <2>2 DEF Connect, Reusable, Opened, Alive, TypeOK
    <3>2. totalSockets' = totalSockets + 1 /\ totalSockets < MaxTotal BY <2>2 DEF Connect
    <3>3. QED BY <1>0, <2>1, <3>1, <3>2, OneApart, Caps DEF PlacesCounted, TypeOK
  <2>3. CASE Closed(s)
    <3>1. Alive(s) /\ ~ Alive(s)' BY <2>3, ClosedFields DEF Alive
    <3>2. totalSockets' = totalSockets - 1
      BY <2>3, <3>1, <1>0 DEF Closed, SocketSound
    <3>3. QED BY <1>0, <2>1, <3>1, <3>2, OneApart, Caps DEF PlacesCounted, TypeOK
  <2>4. CASE ~ Connect(s) /\ ~ Closed(s)
    BY <1>0, <2>1, <2>4, OtherSteps, OneApart DEF PlacesCounted
  <2>5. QED BY <2>2, <2>3, <2>4
<1>2. ASSUME NEW u \in Users
      PROVE  /\ Cardinality(Held(u)') <= userSocketCounts'[u] /\ userSocketCounts'[u] <= MaxPerUser
             /\ u \notin raced' => userSocketCounts'[u] = Cardinality(Held(u)')
  <2> DEFINE k  == userSocketCounts[u]
             k1 == userSocketCounts'[u]
             H  == Held(u)
             H1 == Held(u)'
  <2>1. /\ \A t \in Sockets \ {s} : t \in H <=> t \in H1
        /\ s \in H <=> Heard(s, "user") /\ UserOf(s) = u
        /\ s \in H1 <=> Heard(s, "user")' /\ UserOf(s)' = u
        /\ H \in SUBSET Sockets /\ H1 \in SUBSET Sockets
    BY OthersStay DEF Held, Alive, Heard, UserOf
  <2>a. /\ (s \in H <=> s \in H1) => H1 = H
        /\ s \in H1 /\ s \notin H => Cardinality(H1) = Cardinality(H) + 1
    <3> HIDE DEF H, H1
    <3> QED BY <2>1, OneApart
  <2>2. /\ k \in Nat /\ k1 \in Nat /\ Cardinality(H) \in Nat /\ Cardinality(H1) \in Nat
        /\ MaxPerUser \in Nat
    BY <2>1, OneApart, Caps DEF TypeOK
  <2>3. Cardinality(H) <= k /\ k <= MaxPerUser /\ (u \notin raced => k = Cardinality(H))
    BY <1>0 DEF PlacesCounted
  <2>4. CASE Connect(s)
    <3>1. s \notin H /\ s \notin H1
      BY <2>4, <2>1, <1>0 DEF Connect, Reusable, Heard, Alive, TypeOK
    <3>2. H1 = H BY <2>a, <3>1
    <3>3. QED BY <2>3, <2>4, <3>2 DEF Connect
  <2>5. CASE Closed(s)
    <3>1. s \notin H1 /\ (s \in H <=> "user" \in on[s] /\ UserOf(s) = u) /\ raced' = raced
      BY <2>5, <2>1, ClosedFields DEF Heard, Alive, Closed
    <3>2. s \in H => Cardinality(H1) = Cardinality(H) - 1 BY <2>1, <3>1, OneApart
    <3>3. k1 = IF s \in H THEN k - 1 ELSE k
      <4>1. CASE s \in H
        <5>1. k > 0 BY <2>2, <2>3, <3>2, <4>1
        <5>2. QED BY <2>5, <3>1, <4>1, <5>1 DEF Closed, ReleaseUser, TypeOK
      <4>2. CASE s \notin H BY <2>5, <3>1, <4>2, <1>0 DEF Closed, ReleaseUser, TypeOK
      <4>3. QED BY <4>1, <4>2
    <3>4. s \notin H => H1 = H BY <2>a, <3>1
    <3> HIDE DEF k, k1, H, H1
    <3>5. QED BY <2>2, <2>3, <3>1, <3>2, <3>3, <3>4 DEF k, k1, H, H1
  <2>6. CASE VerifiedKnownRoom(s) \/ VerifiedNewRoom(s)
    <3>1. /\ k1 = IF UserOf(s) = u THEN k + 1 ELSE k
          /\ UserOf(s) = u => k < MaxPerUser
          /\ raced \subseteq raced'
          /\ ~ Alive(s) => UserOf(s) \in raced'
      BY <2>6, <1>0 DEF VerifiedKnownRoom, VerifiedNewRoom, CountUser, TypeOK, Alive
    <3>2. /\ conn'[s].user = conn[s].user
          /\ Alive(s)' <=> Alive(s)
          /\ conn[s].phase = "verify"
          /\ "user" \in on'[s] <=> Alive(s) \/ "user" \in on[s]
      BY <2>6, StepFields, RejectFields, Heeded
         DEF VerifiedKnownRoom, VerifiedNewRoom, Alive
    <3>3. s \notin H /\ (s \in H1 <=> Alive(s) /\ UserOf(s) = u)
      BY <2>1, <3>2, <1>0 DEF SocketSound, Heard, UserOf
    <3>4. /\ s \in H1 => Cardinality(H1) = Cardinality(H) + 1
          /\ s \notin H1 => H1 = H
      BY <2>1, <3>3, <2>a
    <3> HIDE DEF k, k1, H, H1
    <3>5. QED BY <2>2, <2>3, <3>1, <3>3, <3>4 DEF k, k1, H, H1
  <2>7. CASE ~ Connect(s) /\ ~ Closed(s) /\ ~ VerifiedKnownRoom(s) /\ ~ VerifiedNewRoom(s)
    <3>1. /\ userSocketCounts' = userSocketCounts /\ raced \subseteq raced'
          /\ s \in H <=> s \in H1
      BY <2>1, <2>7, OtherSteps DEF Heard, UserOf
    <3>2. H1 = H BY <2>a, <3>1
    <3>3. QED BY <2>3, <3>1, <3>2
  <2>8. QED BY <2>4, <2>5, <2>6, <2>7
<1>3. QED BY <1>1, <1>2 DEF PlacesCounted
-----------------------------------------------------------------------------
(* Rooms.                                                                   *)

\* What each step does to Room objects and the map of rooms.
LEMMA RoomsKept ==
  ASSUME TypeOK, NEW s \in Sockets, Act(s),
         ~ JoinNew(s), ~ Subscribed(s), ~ SubscribeFailed(s), ~ LeaveUnsubscribed(s)
  PROVE  /\ rooms' = rooms
         /\ \A q \in RoomIds : room'[q].channel = room[q].channel /\ room'[q].sub = room[q].sub
         /\ \/ room' = room
            \/ Closed(s)
            \/ JoinExisting(s)
<1>1. CASE Connect(s) BY <1>1 DEF Connect
<1>2. CASE AuthFrame(s) \/ Beat(s) \/ Vanish(s) BY <1>2 DEF AuthFrame, Beat, Vanish, shared
<1>3. CASE AuthFailed(s) \/ Unverified(s) \/ ChannelMissing(s) \/ ChannelFound(s)
  BY <1>3 DEF AuthFailed, Unverified, ChannelMissing, ChannelFound, shared
<1>4. CASE VerifiedKnownRoom(s) \/ VerifiedNewRoom(s)
  BY <1>4 DEF VerifiedKnownRoom, VerifiedNewRoom
<1>5. CASE JoinExisting(s) BY <1>5 DEF JoinExisting, TypeOK, Room
<1>6. CASE Joined(s) \/ LeaveCounted(s) BY <1>6 DEF Joined, LeaveCounted, shared
<1>7. CASE Closed(s)
  <2>1. CASE room' = room BY <1>7, <2>1 DEF Closed
  <2>2. CASE room' # room
    <3>1. room' = [room EXCEPT ![rooms[ChannelOf(s)]].sockets = @ \ {s}]
      BY <1>7, <2>2 DEF Closed, BeginLeave
    <3>2. QED BY <1>7, <3>1 DEF Closed, TypeOK, Room
  <2>3. QED BY <2>1, <2>2
<1>8. QED BY <1>1, <1>2, <1>3, <1>4, <1>5, <1>6, <1>7 DEF Act, Answer

\* Where s stands after such a step.
LEMMA SocketRoom ==
  ASSUME TypeOK, RoomsOwned, NEW s \in Sockets, Act(s), SocketSound(s),
         ~ JoinNew(s), ~ Subscribed(s), ~ SubscribeFailed(s), ~ LeaveUnsubscribed(s)
  PROVE  /\ conn'[s].phase = "subscribe" <=> conn'[s].room # None
         /\ conn'[s].room # None => conn'[s].room = conn[s].room
         /\ conn'[s].channel = conn[s].channel \/ (conn'[s].room = None /\ leaving'[s] = NoLeave)
<1>1. CASE Connect(s) BY <1>1 DEF Connect, Opened, TypeOK, Reusable
<1>2. CASE AuthFrame(s) BY <1>2, StepFields DEF AuthFrame, RoomsOwned
<1>3. CASE Beat(s) \/ Vanish(s) BY <1>3, BeatFields DEF RoomsOwned
<1>4. CASE AuthFailed(s) \/ Unverified(s) \/ ChannelMissing(s)
  BY <1>4, RejectFields DEF AuthFailed, Unverified, ChannelMissing, RoomsOwned
<1>5. CASE ChannelFound(s) \/ VerifiedKnownRoom(s) \/ JoinExisting(s) \/ Joined(s)
  BY <1>5, StepFields DEF ChannelFound, VerifiedKnownRoom, JoinExisting, Joined, RoomsOwned
<1>6. CASE VerifiedNewRoom(s) BY <1>6, StepFields, RejectFields DEF VerifiedNewRoom, RoomsOwned
<1>7. CASE LeaveCounted(s) BY <1>7 DEF LeaveCounted, RoomsOwned
<1>8. CASE Closed(s) BY <1>8, ClosedFields DEF RoomsOwned
<1>9. QED BY <1>1, <1>2, <1>3, <1>4, <1>5, <1>6, <1>7, <1>8 DEF Act, Answer

\* leaveRoom starts with the close event and ends by itself.
LEMMA LeavingStep ==
  ASSUME TypeOK, NEW s \in Sockets, Act(s)
  PROVE  \/ leaving'[s] = leaving[s]
         \/ leaving'[s] = NoLeave /\ (LeaveCounted(s) \/ LeaveUnsubscribed(s))
         \/ LeaveCounted(s) /\ leaving[s].phase = "decr"
                            /\ leaving'[s] = [phase |-> "unsub", room |-> leaving[s].room]
                            /\ room[leaving[s].room].sockets = {}
         \/ Closed(s) /\ "leave" \in on[s] /\ rooms[ChannelOf(s)] # None
                      /\ leaving'[s] = [phase |-> "decr", room |-> rooms[ChannelOf(s)]]
<1>1. CASE Closed(s) BY <1>1 DEF Closed, BeginLeave, TypeOK
<1>2. CASE LeaveCounted(s)
  <2>0. leaving[s] \in Leave BY DEF TypeOK
  <2>1. [leaving[s] EXCEPT !.phase = "unsub"] = [phase |-> "unsub", room |-> leaving[s].room]
    BY <2>0 DEF Leave
  <2>2. leaving'[s] = IF room[leaving[s].room].sockets = {}
                      THEN [leaving[s] EXCEPT !.phase = "unsub"] ELSE NoLeave
    BY <1>2 DEF LeaveCounted, TypeOK
  <2>3. QED BY <1>2, <2>1, <2>2 DEF LeaveCounted
<1>3. CASE LeaveUnsubscribed(s) BY <1>3 DEF LeaveUnsubscribed, TypeOK
<1>4. CASE ~ Closed(s) /\ ~ LeaveCounted(s) /\ ~ LeaveUnsubscribed(s)
  BY <1>4 DEF Act, Answer, Connect, AuthFrame, AuthFailed, Unverified, ChannelMissing, ChannelFound,
     VerifiedKnownRoom, VerifiedNewRoom, JoinExisting, JoinNew, Subscribed, SubscribeFailed,
     Joined, Beat, Vanish
<1>5. QED BY <1>1, <1>2, <1>3, <1>4

\* What the four steps that make, keep or unmake a room do to it.
LEMMA RoomMade ==
  ASSUME TypeOK, NEW s \in Sockets, JoinNew(s)
  PROVE  \E r \in RoomIds :
           /\ Unreferenced(r) /\ rooms[ChannelOf(s)] = None
           /\ \A c \in Channels : rooms'[c] = IF c = ChannelOf(s) THEN r ELSE rooms[c]
           /\ room'[r] = [channel |-> ChannelOf(s), sockets |-> {}, sub |-> "pending"]
           /\ \A q \in RoomIds \ {r} : room'[q] = room[q]
           /\ conn'[s].room = r
<1> PICK r \in RoomIds : /\ Unreferenced(r)
                         /\ rooms' = [rooms EXCEPT ![ChannelOf(s)] = r]
                         /\ room' = [room EXCEPT ![r] = [channel |-> ChannelOf(s), sockets |-> {},
                                                         sub |-> "pending"]]
                         /\ conn' = [conn EXCEPT ![s].phase = "subscribe", ![s].room = r]
  BY DEF JoinNew
<1>1. conn'[s].room = r BY DEF TypeOK, Conn
<1>2. rooms[ChannelOf(s)] = None BY DEF JoinNew
<1>3. QED BY <1>1, <1>2 DEF TypeOK

LEMMA RoomSubscribed ==
  ASSUME TypeOK, NEW s \in Sockets, Subscribed(s), conn[s].room \in RoomIds
  PROVE  LET r == conn[s].room IN
         /\ rooms' = rooms
         /\ room'[r].channel = room[r].channel /\ room'[r].sub = "on"
         /\ room'[r].sockets = room[r].sockets \union {s}
         /\ \A q \in RoomIds \ {r} : room'[q] = room[q]
BY DEF Subscribed, TypeOK, Room

LEMMA RoomDropped ==
  ASSUME TypeOK, NEW s \in Sockets, NEW r \in RoomIds,
         \/ SubscribeFailed(s) /\ r = conn[s].room
         \/ LeaveUnsubscribed(s) /\ r = leaving[s].room
  PROVE  /\ \A c \in Channels : rooms'[c] = IF c = ChannelOf(s) THEN None ELSE rooms[c]
         /\ room'[r].channel = room[r].channel /\ room'[r].sub = "off"
         /\ room'[r].sockets = room[r].sockets
         /\ \A q \in RoomIds \ {r} : room'[q] = room[q]
<1>1. rooms' = [rooms EXCEPT ![ChannelOf(s)] = None] /\ room' = [room EXCEPT ![r].sub = "off"]
  BY DEF SubscribeFailed, LeaveUnsubscribed, DeleteRoom
<1>2. QED BY <1>1 DEF TypeOK, Room

LEMMA OwnedStep ==
  ASSUME TypeOK, TypeOK', SocketPart, RoomsOwned, NEW s \in Sockets, Act(s)
  PROVE  RoomsOwned'
<1>0. /\ SocketSound(s) /\ ChannelOf(s) \in Channels /\ rooms \in [Channels -> RoomIds \union {None}]
      /\ \A t \in Sockets : /\ conn[t].room \in RoomIds \union {None}
                            /\ leaving[t].room \in RoomIds \union {None}
                            /\ conn[t].channel \in Channels
  BY DEF SocketPart, TypeOK, Conn, Leave, ChannelOf
<1>a. \A t \in Sockets \ {s} : conn'[t] = conn[t] /\ leaving'[t] = leaving[t] BY OthersStay
<1>1. CASE ~ JoinNew(s) /\ ~ Subscribed(s) /\ ~ SubscribeFailed(s) /\ ~ LeaveUnsubscribed(s)
  <2>1. /\ rooms' = rooms
        /\ \A q \in RoomIds : room'[q].channel = room[q].channel /\ room'[q].sub = room[q].sub
    BY <1>1, RoomsKept
  <2>2. /\ conn'[s].phase = "subscribe" <=> conn'[s].room # None
        /\ conn'[s].room # None => conn'[s].room = conn[s].room
        /\ conn'[s].channel = conn[s].channel \/ (conn'[s].room = None /\ leaving'[s] = NoLeave)
    BY <1>0, <1>1, SocketRoom
  <2>3. /\ leaving'[s].phase # "none" <=> leaving'[s].room # None
        /\ leaving'[s].phase # "none" => room[leaving'[s].room].channel = conn[s].channel
        /\ leaving'[s].room \in RoomIds \union {None}
    <3>1. CASE leaving'[s] = leaving[s] BY <3>1, <1>0 DEF RoomsOwned, ChannelOf
    <3>2. CASE leaving'[s] = NoLeave BY <3>2 DEF NoLeave
    <3>3. CASE /\ leaving[s].phase = "decr"
               /\ leaving'[s] = [phase |-> "unsub", room |-> leaving[s].room]
      BY <3>3, <1>0 DEF RoomsOwned, ChannelOf
    <3>4. CASE /\ rooms[ChannelOf(s)] # None
               /\ leaving'[s] = [phase |-> "decr", room |-> rooms[ChannelOf(s)]]
      BY <3>4, <1>0 DEF RoomsOwned, ChannelOf
    <3>5. QED BY <1>1, <3>1, <3>2, <3>3, <3>4, LeavingStep
  <2>4. QED BY <1>0, <1>a, <2>1, <2>2, <2>3 DEF RoomsOwned, ChannelOf, NoLeave
<1>2. CASE JoinNew(s)
  <2> PICK r \in RoomIds :
        /\ Unreferenced(r) /\ rooms[ChannelOf(s)] = None
        /\ \A c \in Channels : rooms'[c] = IF c = ChannelOf(s) THEN r ELSE rooms[c]
        /\ room'[r] = [channel |-> ChannelOf(s), sockets |-> {}, sub |-> "pending"]
        /\ \A q \in RoomIds \ {r} : room'[q] = room[q]
        /\ conn'[s].room = r
    BY <1>2, RoomMade
  <2>1. conn'[s].phase = "subscribe" /\ conn'[s].channel = conn[s].channel BY <1>2, JoinFields
  <2>2. leaving' = leaving BY <1>2 DEF JoinNew
  <2>3. /\ leaving[s].phase # "none" <=> leaving[s].room # None
        /\ leaving[s].room # r /\ \A t \in Sockets : conn[t].room # r /\ leaving[t].room # r
    BY DEF RoomsOwned, Unreferenced
  <2>4. QED BY <1>0, <1>a, <2>1, <2>2, <2>3, NoneIsNoRoom DEF RoomsOwned, ChannelOf, Unreferenced
<1>3. CASE Subscribed(s)
  <2> DEFINE r == conn[s].room
  <2>1. /\ conn'[s].phase = "incr" /\ conn'[s].room = None /\ conn'[s].channel = conn[s].channel
        /\ r \in RoomIds /\ leaving' = leaving
    BY <1>3, <1>0, JoinFields DEF RoomsOwned, Subscribed
  <2>2. /\ rooms' = rooms
        /\ room'[r].channel = room[r].channel /\ room'[r].sub = "on"
        /\ \A q \in RoomIds \ {r} : room'[q] = room[q]
    BY <1>3, <2>1, RoomSubscribed
  <2>3. \A t \in Sockets \ {s} : conn[t].room # r BY <2>1, NoneIsNoRoom DEF RoomsOwned
  <2>4. QED BY <1>0, <1>a, <2>1, <2>2, <2>3 DEF RoomsOwned, ChannelOf
<1>4. CASE SubscribeFailed(s) \/ LeaveUnsubscribed(s)
  <2> DEFINE r == IF SubscribeFailed(s) THEN conn[s].room ELSE leaving[s].room
  <2>1. /\ r \in RoomIds /\ room[r].channel = ChannelOf(s)
        /\ \A t \in Sockets \ {s} : conn[t].room # r
    BY <1>4, <1>0, NoneIsNoRoom, JoinFields DEF RoomsOwned, LeaveUnsubscribed
  <2>2. /\ \A c \in Channels : rooms'[c] = IF c = ChannelOf(s) THEN None ELSE rooms[c]
        /\ room'[r].channel = room[r].channel
        /\ \A q \in RoomIds \ {r} : room'[q] = room[q]
    BY <1>4, <2>1, RoomDropped
  <2>3. /\ conn'[s].channel = conn[s].channel
        /\ conn'[s].phase = "subscribe" <=> conn'[s].room # None
        /\ conn'[s].room # None => conn'[s].room = conn[s].room /\ conn[s].room # r
        /\ leaving'[s] = leaving[s] \/ leaving'[s] = NoLeave
    <3>1. CASE SubscribeFailed(s) BY <3>1, JoinFields DEF SubscribeFailed
    <3>2. CASE LeaveUnsubscribed(s)
      <4>1. conn[s].phase = "done" BY <3>2, <1>0 DEF LeaveUnsubscribed, SocketSound
      <4>2. conn' = conn /\ leaving'[s] = NoLeave BY <3>2 DEF LeaveUnsubscribed, TypeOK
      <4>3. QED BY <4>1, <4>2 DEF RoomsOwned
    <3>3. QED BY <1>4, <3>1, <3>2
  <2> HIDE DEF r
  <2>4. QED BY <1>0, <1>a, <2>1, <2>2, <2>3 DEF RoomsOwned, ChannelOf, NoLeave
<1>5. QED BY <1>1, <1>2, <1>3, <1>4

LEMMA RacesStay ==
  ASSUME TypeOK, NEW s \in Sockets, Act(s)
  PROVE  raced \subseteq raced'
BY OtherSteps DEF Connect, Closed

\* A socket starts to join by joining a room, and stops when it leaves.
LEMMA JoinsStep ==
  ASSUME TypeOK, NEW s \in Sockets, Act(s), SocketSound(s)
  PROVE  Joins(s)' => /\ JoinExisting(s) \/ Subscribed(s) \/ Joins(s)
                      /\ conn'[s].channel = conn[s].channel
                      /\ JoinNew(s) \/ SubscribeFailed(s) \/ LeaveUnsubscribed(s) => FALSE
                      /\ Closed(s) => conn[s].phase = "incr"
<1> USE DEF Joins, Heard, Alive, SocketSound
<1>1. CASE Connect(s)
  <2>1. ~ Joins(s)' BY <1>1 DEF Connect, Opened, TypeOK
  <2>2. QED BY <2>1
<1>2. CASE JoinNew(s) \/ SubscribeFailed(s)
  <2>1. ~ Joins(s)' BY <1>2, JoinFields DEF JoinNew, SubscribeFailed
  <2>2. QED BY <2>1
<1>3. CASE LeaveUnsubscribed(s)
  <2>1. ~ Joins(s)' BY <1>3 DEF LeaveUnsubscribed
  <2>2. QED BY <2>1
<1>4. CASE Closed(s)
  <2>1. Joins(s)' => conn[s].phase = "incr" BY <1>4, ClosedFields
  <2>2. conn'[s].channel = conn[s].channel BY <1>4, ClosedFields
  <2>3. ~ JoinNew(s) /\ ~ SubscribeFailed(s) BY <1>4, ClosedFields, JoinFields
  <2>4. ~ LeaveUnsubscribed(s) BY <1>4, ClosedFields DEF LeaveUnsubscribed
  <2>5. QED BY <2>1, <2>2, <2>3, <2>4
<1>5. CASE ~ Connect(s) /\ ~ JoinNew(s) /\ ~ SubscribeFailed(s) /\ ~ LeaveUnsubscribed(s) /\ ~ Closed(s)
  <2>1. conn'[s].channel = conn[s].channel BY <1>5, OtherSteps
  <2>2. Joins(s)' => JoinExisting(s) \/ Subscribed(s) \/ Joins(s)
    <3> USE StepFields, RejectFields, BeatFields
    <3>1. CASE AuthFrame(s) BY <3>1 DEF AuthFrame
    <3>2. CASE Beat(s) \/ Vanish(s) BY <3>2 DEF Beat, Vanish
    <3>3. CASE AuthFailed(s) \/ Unverified(s) \/ ChannelMissing(s)
      BY <3>3 DEF AuthFailed, Unverified, ChannelMissing
    <3>4. CASE ChannelFound(s) BY <3>4, Heeded DEF ChannelFound
    <3>5. CASE VerifiedKnownRoom(s) BY <3>5, Heeded DEF VerifiedKnownRoom
    <3>6. CASE VerifiedNewRoom(s) BY <3>6, Heeded DEF VerifiedNewRoom
    <3>7. CASE Joined(s) BY <3>7 DEF Joined
    <3>8. CASE LeaveCounted(s) BY <3>8 DEF LeaveCounted
    <3>9. QED BY <1>5, <3>1, <3>2, <3>3, <3>4, <3>5, <3>6, <3>7, <3>8 DEF Act, Answer
  <2>3. QED BY <1>5, <2>1, <2>2
<1>6. QED BY <1>1, <1>2, <1>3, <1>4, <1>5

\* The races the history counts.
LEMMA RaceMarks ==
  ASSUME TypeOK, NEW s \in Sockets, ChannelOf(s) \notin raced'
  PROVE  /\ JoinExisting(s) => ~ InTeardown(rooms[ChannelOf(s)])
         /\ Subscribed(s) => ~ InTeardown(conn[s].room)
         /\ SubscribeFailed(s) => /\ rooms[ChannelOf(s)] \in {None, conn[s].room}
                                  /\ room[conn[s].room].sockets = {}
         /\ LeaveUnsubscribed(s) => rooms[ChannelOf(s)] \in {None, leaving[s].room}
         /\ Joined(s) => Alive(s)
BY DEF JoinExisting, Subscribed, SubscribeFailed, LeaveUnsubscribed, Joined, Alive

\* A room's socket set only loses a socket that leaves; a room in the map or in
\* teardown is never made anew.
LEMMA SocketsStep ==
  ASSUME TypeOK, RoomsOwned, NEW s \in Sockets, Act(s), NEW q \in RoomIds,
         \/ \E c \in Channels : rooms[c] = q
         \/ \E t \in Sockets : leaving[t].room = q
  PROVE  /\ room'[q].channel = room[q].channel
         /\ \A t \in room[q].sockets : (t = s /\ Closed(s)) \/ t \in room'[q].sockets
         /\ \/ room'[q].sockets \subseteq room[q].sockets
            \/ JoinExisting(s) /\ q = rooms[ChannelOf(s)]
            \/ Subscribed(s) /\ q = conn[s].room
<1>0. /\ ChannelOf(s) \in Channels /\ rooms[ChannelOf(s)] \in RoomIds \union {None}
      /\ conn[s].room \in RoomIds \union {None} /\ leaving[s].room \in RoomIds \union {None}
  BY DEF TypeOK, Conn, Leave, ChannelOf
<1>1. CASE JoinExisting(s)
  <2>1. room' = [room EXCEPT ![rooms[ChannelOf(s)]].sockets = @ \union {s}]
    BY <1>1 DEF JoinExisting
  <2>2. CASE q = rooms[ChannelOf(s)]
    <3>1. room'[q].sockets = room[q].sockets \union {s} /\ room'[q].channel = room[q].channel
      BY <2>1, <2>2 DEF TypeOK, Room
    <3>2. QED BY <1>1, <2>2, <3>1
  <2>3. CASE q # rooms[ChannelOf(s)]
    <3>1. room'[q] = room[q] BY <2>1, <2>3 DEF TypeOK
    <3>2. QED BY <3>1
  <2>4. QED BY <2>2, <2>3
<1>2. CASE Closed(s)
  <2>1. CASE room' = room BY <2>1
  <2>2. CASE room' # room
    <3>1. room' = [room EXCEPT ![rooms[ChannelOf(s)]].sockets = @ \ {s}]
      BY <1>2, <2>2 DEF Closed, BeginLeave
    <3>2. CASE q = rooms[ChannelOf(s)]
      <4>1. room'[q].sockets = room[q].sockets \ {s} /\ room'[q].channel = room[q].channel
        BY <3>1, <3>2 DEF TypeOK, Room
      <4>2. QED BY <1>2, <4>1
    <3>3. CASE q # rooms[ChannelOf(s)]
      <4>1. room'[q] = room[q] BY <3>1, <3>3 DEF TypeOK
      <4>2. QED BY <4>1
    <3>4. QED BY <3>2, <3>3
  <2>3. QED BY <2>1, <2>2
<1>3. CASE JoinNew(s)
  <2>1. PICK r \in RoomIds : Unreferenced(r) /\ \A p \in RoomIds \ {r} : room'[p] = room[p]
    BY <1>3, RoomMade
  <2>2. q # r BY <2>1 DEF Unreferenced
  <2>3. QED BY <2>1, <2>2
<1>4. CASE Subscribed(s)
  <2>1. conn[s].room \in RoomIds BY <1>0, <1>4, JoinFields DEF RoomsOwned
  <2>2. QED BY <1>4, <2>1, RoomSubscribed
<1>5. CASE SubscribeFailed(s) \/ LeaveUnsubscribed(s)
  <2> DEFINE r == IF SubscribeFailed(s) THEN conn[s].room ELSE leaving[s].room
  <2>1. r \in RoomIds BY <1>0, <1>5, JoinFields DEF RoomsOwned, LeaveUnsubscribed
  <2>2. /\ room'[r].channel = room[r].channel /\ room'[r].sockets = room[r].sockets
        /\ \A p \in RoomIds \ {r} : room'[p] = room[p]
    BY <1>5, <2>1, RoomDropped
  <2> HIDE DEF r
  <2>3. QED BY <2>2
<1>6. CASE ~ JoinExisting(s) /\ ~ Closed(s) /\ ~ JoinNew(s) /\ ~ Subscribed(s)
           /\ ~ SubscribeFailed(s) /\ ~ LeaveUnsubscribed(s)
  BY <1>6, RoomsKept
<1>7. QED BY <1>1, <1>2, <1>3, <1>4, <1>5, <1>6

\* On a channel nothing disturbs, a socket that joins has its room and is in it.
LEMMA JoinedStep ==
  ASSUME TypeOK, SocketPart, RoomPart, NEW s \in Sockets, Act(s), NEW t \in Sockets,
         Joins(t)', ChannelOf(t)' \notin raced'
  PROVE  rooms'[ChannelOf(t)'] # None /\ t \in room'[rooms'[ChannelOf(t)']].sockets
<1> DEFINE c == ChannelOf(t)
<1>0. /\ SocketSound(s) /\ c \in Channels /\ ChannelOf(s) \in Channels
      /\ rooms[c] \in RoomIds \union {None} /\ conn[s].room \in RoomIds \union {None}
      /\ leaving[s].room \in RoomIds \union {None}
  BY DEF SocketPart, TypeOK, Conn, Leave, ChannelOf
<1>1. ChannelOf(t)' = c /\ c \notin raced /\ c \notin raced'
  <2>1. ChannelOf(t)' = c BY <1>0, JoinsStep, OthersStay DEF ChannelOf
  <2>2. QED BY <2>1, RacesStay
<1>2. CASE t = s /\ Subscribed(s)
  <2>1. conn[s].room \in RoomIds /\ room[conn[s].room].channel = c /\ room[conn[s].room].sub = "pending"
    BY <1>0, <1>2, JoinFields DEF RoomPart, RoomsOwned
  <2>2. rooms[c] = conn[s].room BY <1>1, <2>1 DEF RoomPart, SubscriptionsOwned
  <2>3. QED BY <1>1, <1>2, <2>1, <2>2, RoomSubscribed, NoneIsNoRoom
<1>3. CASE t = s /\ JoinExisting(s)
  <2>1. rooms[c] \in RoomIds /\ rooms' = rooms BY <1>0, <1>3 DEF JoinExisting
  <2>2. room' = [room EXCEPT ![rooms[c]].sockets = @ \union {s}] BY <1>3 DEF JoinExisting
  <2>3. room'[rooms[c]].sockets = room[rooms[c]].sockets \union {s} BY <2>1, <2>2 DEF TypeOK, Room
  <2>4. QED BY <1>1, <1>3, <2>1, <2>3, NoneIsNoRoom
<1>4. CASE ~ (t = s /\ (Subscribed(s) \/ JoinExisting(s)))
  <2>1. Joins(t)
    <3>1. CASE t = s BY <1>0, <1>4, <3>1, JoinsStep
    <3>2. CASE t # s BY <3>2, OthersStay DEF Joins, Heard, Alive
    <3>3. QED BY <3>1, <3>2
  <2>2. rooms[c] \in RoomIds /\ t \in room[rooms[c]].sockets
    BY <1>0, <1>1, <2>1 DEF RoomPart, Undisturbed
  <2>3. t \in room'[rooms[c]].sockets
    <3>1. CASE t = s /\ Closed(s)
      <4>1. room' = room BY <1>0, <3>1, JoinsStep DEF Closed, BeginLeave, SocketSound
      <4>2. QED BY <2>2, <4>1
    <3>2. CASE ~ (t = s /\ Closed(s)) BY <1>0, <2>2, <3>2, SocketsStep DEF RoomPart
    <3>3. QED BY <3>1, <3>2
  <2>4. rooms'[c] = rooms[c]
    <3>1. CASE JoinNew(s) BY <1>0, <2>2, <3>1, RoomMade, NoneIsNoRoom
    <3>2. CASE SubscribeFailed(s) /\ c = ChannelOf(s)
      BY <1>1, <2>2, <3>2, RaceMarks, NoneIsNoRoom
    <3>3. CASE LeaveUnsubscribed(s) /\ c = ChannelOf(s)
      <4>1. rooms[c] = leaving[s].room BY <1>1, <2>2, <3>3, RaceMarks, NoneIsNoRoom
      <4>2. leaving[s] = [phase |-> "unsub", room |-> rooms[c]]
        BY <3>3, <4>1 DEF LeaveUnsubscribed, TypeOK, Leave
      <4>3. InTeardown(rooms[c]) /\ room[rooms[c]].channel = c
        BY <1>0, <2>2, <4>2, NoneIsNoRoom DEF InTeardown, RoomPart, RoomsOwned
      <4>4. QED BY <1>1, <2>2, <4>3 DEF RoomPart, Undisturbed
    <3>4. CASE (SubscribeFailed(s) \/ LeaveUnsubscribed(s)) /\ c # ChannelOf(s)
      <4>1. SubscribeFailed(s) => conn[s].room \in RoomIds
        BY <1>0, JoinFields DEF RoomPart, RoomsOwned
      <4>2. LeaveUnsubscribed(s) => leaving[s].room \in RoomIds
        BY <1>0 DEF RoomPart, RoomsOwned, LeaveUnsubscribed
      <4>3. QED BY <1>0, <3>4, <4>1, <4>2, RoomDropped
    <3>5. CASE Subscribed(s) BY <3>5 DEF Subscribed
    <3>6. CASE ~ JoinNew(s) /\ ~ Subscribed(s) /\ ~ SubscribeFailed(s) /\ ~ LeaveUnsubscribed(s)
      BY <3>6, RoomsKept
    <3>7. QED BY <3>1, <3>2, <3>3, <3>4, <3>5, <3>6
  <2>5. QED BY <1>1, <2>2, <2>3, <2>4, NoneIsNoRoom
<1>5. QED BY <1>2, <1>3, <1>4

\* A teardown starts on an empty room and nobody joins it unseen.
LEMMA TeardownStep ==
  ASSUME TypeOK, SocketPart, RoomPart, NEW s \in Sockets, Act(s), NEW r \in RoomIds,
         InTeardown(r)', room'[r].channel \notin raced'
  PROVE  room'[r].sockets = {}
<1>0. raced \subseteq raced' /\ SocketSound(s) /\ ChannelOf(s) \in Channels
  BY RacesStay DEF SocketPart, TypeOK, Conn, ChannelOf
<1>1. PICK t \in Sockets : leaving'[t] = [phase |-> "unsub", room |-> r] BY DEF InTeardown
<1>2. CASE InTeardown(r)
  <2>1. \E u \in Sockets : leaving[u].phase # "none" /\ leaving[u].room = r BY <1>2 DEF InTeardown
  <2>2. /\ room'[r].channel = room[r].channel
        /\ \/ room'[r].sockets \subseteq room[r].sockets
           \/ JoinExisting(s) /\ r = rooms[ChannelOf(s)]
           \/ Subscribed(s) /\ r = conn[s].room
    BY <2>1, SocketsStep DEF RoomPart
  <2>3. room[r].sockets = {} BY <1>0, <1>2, <2>2 DEF RoomPart, Undisturbed
  <2>4. CASE (JoinExisting(s) /\ r = rooms[ChannelOf(s)]) \/ (Subscribed(s) /\ r = conn[s].room)
    <3>1. room[r].channel = ChannelOf(s)
      BY <2>4, <1>0, JoinFields, NoneIsNoRoom DEF RoomPart, RoomsOwned, JoinExisting
    <3>2. QED BY <1>2, <2>2, <2>4, <3>1, RaceMarks
  <2>5. QED BY <2>2, <2>3, <2>4
<1>3. CASE ~ InTeardown(r)
  <2>1. t = s /\ leaving[s] # [phase |-> "unsub", room |-> r]
    BY <1>1, <1>3, OthersStay DEF InTeardown
  <2>2. /\ LeaveCounted(s) /\ leaving'[s] = [phase |-> "unsub", room |-> leaving[s].room]
        /\ room[leaving[s].room].sockets = {}
    <3>1. leaving'[s].phase = "unsub" /\ leaving'[s] # leaving[s] BY <1>1, <2>1
    <3>2. leaving'[s] # NoLeave BY <3>1 DEF NoLeave
    <3>3. leaving'[s] # [phase |-> "decr", room |-> rooms[ChannelOf(s)]] BY <3>1
    <3>4. QED BY <3>1, <3>2, <3>3, LeavingStep
  <2>3. leaving[s].room = r /\ room' = room BY <1>1, <2>1, <2>2 DEF LeaveCounted, shared
  <2>4. QED BY <2>2, <2>3
<1>4. QED BY <1>2, <1>3

\* A subscription belongs to the channel's room until a race takes the room away.
LEMMA SubscriptionStep ==
  ASSUME TypeOK, SocketPart, RoomPart, NEW s \in Sockets, Act(s), NEW q \in RoomIds,
         room'[q].sub # "off", room'[q].channel \notin raced'
  PROVE  rooms'[room'[q].channel] = q
<1> DEFINE c == ChannelOf(s)
<1>0. /\ raced \subseteq raced' /\ c \in Channels
      /\ conn[s].room \in RoomIds \union {None} /\ leaving[s].room \in RoomIds \union {None}
      /\ room[q].channel \in Channels /\ room[q].sub \in {"pending", "on", "off"}
  BY RacesStay DEF TypeOK, Conn, Leave, ChannelOf, Room
<1>a. room[q].sub # "off" /\ room[q].channel \notin raced => rooms[room[q].channel] = q
  BY DEF RoomPart, SubscriptionsOwned
<1>1. CASE JoinNew(s)
  <2> PICK r \in RoomIds :
        /\ rooms[c] = None
        /\ \A d \in Channels : rooms'[d] = IF d = c THEN r ELSE rooms[d]
        /\ room'[r] = [channel |-> c, sockets |-> {}, sub |-> "pending"]
        /\ \A p \in RoomIds \ {r} : room'[p] = room[p]
    BY <1>1, RoomMade
  <2>1. CASE q = r BY <1>0, <2>1
  <2>2. CASE q # r BY <1>0, <1>a, <2>2, NoneIsNoRoom
  <2>3. QED BY <2>1, <2>2
<1>2. CASE Subscribed(s)
  <2>1. conn[s].room \in RoomIds /\ room[conn[s].room].sub = "pending"
    BY <1>0, <1>2, JoinFields DEF RoomPart, RoomsOwned
  <2>2. rooms' = rooms /\ room'[q].channel = room[q].channel /\ room[q].sub # "off"
    BY <1>2, <2>1, RoomSubscribed
  <2>3. QED BY <1>0, <1>a, <2>2
<1>3. CASE SubscribeFailed(s) \/ LeaveUnsubscribed(s)
  <2> DEFINE r == IF SubscribeFailed(s) THEN conn[s].room ELSE leaving[s].room
  <2>1. r \in RoomIds BY <1>0, <1>3, JoinFields DEF RoomPart, RoomsOwned, LeaveUnsubscribed
  <2>2. /\ \A d \in Channels : rooms'[d] = IF d = c THEN None ELSE rooms[d]
        /\ room'[r].sub = "off"
        /\ \A p \in RoomIds \ {r} : room'[p] = room[p]
    BY <1>3, <2>1, RoomDropped
  <2>3. c \notin raced' => rooms[c] \in {None, r} BY <1>3, RaceMarks
  <2> HIDE DEF r
  <2>4. q # r /\ room'[q] = room[q] BY <2>1, <2>2
  <2>5. QED BY <1>0, <1>a, <2>2, <2>3, <2>4, NoneIsNoRoom
<1>4. CASE ~ JoinNew(s) /\ ~ Subscribed(s) /\ ~ SubscribeFailed(s) /\ ~ LeaveUnsubscribed(s)
  BY <1>0, <1>a, <1>4, RoomsKept
<1>5. QED BY <1>1, <1>2, <1>3, <1>4
-----------------------------------------------------------------------------
(* The viewer count.                                                        *)

Viewing(c) ==
  {s \in Sockets : ChannelOf(s) = c /\ (Heard(s, "leave") \/ leaving[s].phase = "decr")}

\* Who is a viewer changes when a socket has joined and when it was subtracted; the
\* close event only hands it to its leaveRoom.
LEMMA ViewingStep ==
  ASSUME TypeOK, SocketPart, RoomPart, NEW s \in Sockets, Act(s), faults' = 0,
         NEW c \in Channels \ raced'
  PROVE  /\ faults = 0 /\ c \notin raced
         /\ \A t \in Sockets \ {s} : t \in Viewing(c) <=> t \in Viewing(c)'
         /\ \/ viewers'[c] = viewers[c] /\ (s \in Viewing(c) <=> s \in Viewing(c)')
            \/ viewers'[c] = viewers[c] + 1 /\ s \notin Viewing(c) /\ s \in Viewing(c)'
            \/ viewers'[c] = viewers[c] - 1 /\ s \in Viewing(c) /\ s \notin Viewing(c)'
<1>0. /\ SocketSound(s) /\ ChannelOf(s) \in Channels /\ c \notin raced /\ faults \in Nat
      /\ leaving[s] \in Leave
  BY RacesStay DEF SocketPart, TypeOK, Conn, ChannelOf
<1>1. \A t \in Sockets \ {s} : t \in Viewing(c) <=> t \in Viewing(c)'
  BY OthersStay DEF Viewing, ChannelOf, Heard, Alive
<1>2. /\ s \in Viewing(c) <=>
           ChannelOf(s) = c /\ (Heard(s, "leave") \/ leaving[s].phase = "decr")
      /\ s \in Viewing(c)' <=>
           ChannelOf(s)' = c /\ (Heard(s, "leave")' \/ leaving'[s].phase = "decr")
  BY DEF Viewing
<1> USE DEF ChannelOf, Heard, Alive
<1>3. CASE Joined(s)
  <2>1. /\ viewers' = [viewers EXCEPT ![ChannelOf(s)] = @ + 1] /\ faults = 0
        /\ conn[s].phase = "incr" /\ conn'[s].link = conn[s].link
        /\ conn'[s].channel = conn[s].channel /\ leaving' = leaving
    BY <1>3, <1>0, StepFields DEF Joined, Count
  <2>2. ChannelOf(s) = c => Alive(s) /\ "leave" \in on'[s] BY <1>3, RaceMarks, Heeded DEF Joined
  <2>3. "leave" \notin on[s] /\ leaving[s].phase = "none" BY <1>0, <2>1 DEF SocketSound
  <2>4. viewers'[c] = IF ChannelOf(s) = c THEN viewers[c] + 1 ELSE viewers[c]
    BY <2>1, <1>0 DEF TypeOK
  <2>5. QED BY <1>0, <1>1, <1>2, <2>1, <2>2, <2>3, <2>4
<1>4. CASE LeaveCounted(s)
  <2>1. /\ viewers' = [viewers EXCEPT ![ChannelOf(s)] = @ + (-1)] /\ faults = 0
        /\ leaving[s].phase = "decr" /\ conn' = conn /\ on' = on
    BY <1>4, <1>0 DEF LeaveCounted, Count
  <2>2. leaving'[s].phase # "decr"
    <3>1. leaving'[s] = IF room[leaving[s].room].sockets = {}
                        THEN [leaving[s] EXCEPT !.phase = "unsub"] ELSE NoLeave
      BY <1>4 DEF LeaveCounted, TypeOK
    <3>2. [leaving[s] EXCEPT !.phase = "unsub"].phase = "unsub" BY <1>0 DEF Leave
    <3>3. QED BY <3>1, <3>2 DEF NoLeave
  <2>3. ~ Alive(s) BY <1>0, <2>1 DEF SocketSound
  <2>4. viewers'[c] = IF ChannelOf(s) = c THEN viewers[c] - 1 ELSE viewers[c]
    BY <2>1, <1>0 DEF TypeOK
  <2>5. QED BY <1>0, <1>1, <1>2, <2>1, <2>2, <2>3, <2>4
<1>5. CASE Closed(s)
  <2>1. /\ viewers' = viewers /\ faults = 0 /\ conn'[s].channel = conn[s].channel
        /\ conn'[s].link = "closed" /\ Alive(s)
    BY <1>5, <1>0, ClosedFields DEF Closed
  <2>2. leaving[s].phase # "decr" BY <1>0, <2>1 DEF SocketSound
  <2>3. "leave" \in on[s] /\ ChannelOf(s) = c => leaving'[s].phase = "decr"
    <3> SUFFICES ASSUME "leave" \in on[s], ChannelOf(s) = c PROVE leaving'[s].phase = "decr"
      OBVIOUS
    <3>1. rooms[c] # None BY <1>0, <2>1 DEF Joins, RoomPart, Undisturbed
    <3>2. leaving'[s] = [phase |-> "decr", room |-> rooms[c]]
      BY <1>5, <3>1 DEF Closed, BeginLeave, TypeOK
    <3>3. QED BY <3>2
  <2>4. leaving'[s].phase = "decr" => "leave" \in on[s]
    BY <1>5, <2>2 DEF Closed, BeginLeave
  <2>5. QED BY <1>0, <1>1, <1>2, <2>1, <2>2, <2>3, <2>4
<1>6. CASE Connect(s)
  <2>1. viewers' = viewers /\ faults = 0 /\ ~ Alive(s) /\ leaving[s] = NoLeave /\ leaving' = leaving
    BY <1>6 DEF Connect, Reusable
  <2>2. "leave" \notin on'[s] BY <1>6 DEF Connect, TypeOK
  <2>3. QED BY <1>0, <1>1, <1>2, <2>1, <2>2 DEF NoLeave
<1>7. CASE ~ Joined(s) /\ ~ LeaveCounted(s) /\ ~ Closed(s) /\ ~ Connect(s)
  <2>1. viewers' = viewers /\ faults = 0
    <3>1. viewers' = viewers /\ (faults' = faults \/ faults' = faults + 1)
      BY <1>7 DEF Act, Answer, AuthFrame, AuthFailed, Unverified, ChannelMissing, ChannelFound,
         VerifiedKnownRoom, VerifiedNewRoom, JoinExisting, JoinNew, Subscribed, SubscribeFailed,
         LeaveUnsubscribed, Beat, Vanish
    <3>2. QED BY <1>0, <3>1
  <2>2. conn'[s].channel = conn[s].channel /\ (Alive(s)' <=> Alive(s)) BY <1>7, OtherSteps
  <2>3. leaving'[s].phase = "decr" <=> leaving[s].phase = "decr"
    <3>1. CASE LeaveUnsubscribed(s)
      BY <3>1, LeavingStep, <1>7 DEF LeaveUnsubscribed, NoLeave
    <3>2. CASE ~ LeaveUnsubscribed(s)
      <4>1. leaving'[s] = leaving[s] BY <1>7, <3>2, LeavingStep
      <4>2. QED BY <4>1
    <3>3. QED BY <3>1, <3>2
  <2>4. "leave" \in on'[s] <=> "leave" \in on[s]
    <3>1. CASE VerifiedKnownRoom(s) \/ VerifiedNewRoom(s) \/ ChannelFound(s)
      BY <3>1, Heeded DEF VerifiedKnownRoom, VerifiedNewRoom, ChannelFound
    <3>2. CASE ~ (VerifiedKnownRoom(s) \/ VerifiedNewRoom(s) \/ ChannelFound(s))
      BY <1>7, <3>2 DEF Act, Answer, AuthFrame, AuthFailed, Unverified, ChannelMissing,
         JoinExisting, JoinNew, Subscribed, SubscribeFailed, LeaveUnsubscribed, Beat, Vanish
    <3>3. QED BY <3>1, <3>2
  <2>5. QED BY <1>0, <1>1, <1>2, <2>1, <2>2, <2>3, <2>4
<1>8. QED BY <1>3, <1>4, <1>5, <1>6, <1>7

LEMMA ViewersStep ==
  ASSUME TypeOK, SocketPart, RoomPart, ViewersExact, NEW s \in Sockets, Act(s)
  PROVE  ViewersExact'
<1> SUFFICES ASSUME faults' = 0, NEW c \in Channels \ raced'
             PROVE  viewers'[c] = Cardinality(Viewing(c)')
  BY DEF ViewersExact, Viewing
<1> DEFINE V == Viewing(c)
           W == Viewing(c)'
<1>1. V \in SUBSET Sockets /\ W \in SUBSET Sockets BY DEF Viewing
<1>2. /\ faults = 0 /\ c \notin raced
      /\ \A t \in Sockets \ {s} : t \in V <=> t \in W
      /\ \/ viewers'[c] = viewers[c] /\ (s \in V <=> s \in W)
         \/ viewers'[c] = viewers[c] + 1 /\ s \notin V /\ s \in W
         \/ viewers'[c] = viewers[c] - 1 /\ s \in V /\ s \notin W
  BY ViewingStep
<1>3. viewers[c] = Cardinality(V) BY <1>2 DEF ViewersExact, Viewing
<1> HIDE DEF V, W
<1>4. viewers'[c] = Cardinality(W) BY <1>1, <1>2, <1>3, OneApart
<1>5. QED BY <1>4 DEF W
-----------------------------------------------------------------------------
(* The invariant and what follows from it.                                  *)

LEMMA InvariantStarts == Init => ChatInvariant
<1> SUFFICES ASSUME Init PROVE ChatInvariant OBVIOUS
<1>1. TypeOK BY InitTypes
<1>2. \A s \in Sockets : ~ Alive(s) /\ on[s] = {} BY DEF Init, Alive
<1>3. \A s \in Sockets : SocketSound(s) BY <1>2 DEF Init, SocketSound, Alive, NoLeave
<1>4. Living = {} /\ \A u \in Users : Held(u) = {} BY <1>2 DEF Living, Held, Heard
<1>5. PlacesCounted
  <2>1. /\ totalSockets = 0 /\ \A u \in Users : userSocketCounts[u] = 0
        /\ MaxTotal \in Nat /\ MaxPerUser \in Nat
    BY Caps DEF Init
  <2>2. Cardinality(Living) = 0 /\ \A u \in Users : Cardinality(Held(u)) = 0
    BY <1>4, FS_EmptySet
  <2>3. QED BY <2>1, <2>2 DEF PlacesCounted
<1>6. RoomsOwned BY DEF RoomsOwned, Init, NoLeave
<1>7. Undisturbed BY DEF Undisturbed, Joins, Heard, InTeardown, Init, NoLeave
<1>8. SubscriptionsOwned BY DEF SubscriptionsOwned, Init
<1>9. \A c \in Channels : Viewing(c) = {} BY <1>2 DEF Viewing, Heard, Init, NoLeave
<1>10. ViewersExact BY <1>9, FS_EmptySet DEF ViewersExact, Viewing, Init
<1>11. QED BY <1>1, <1>3, <1>5, <1>6, <1>7, <1>8, <1>10 DEF ChatInvariant, SocketPart, RoomPart

LEMMA InvariantStep == ChatInvariant /\ [Next]_vars => ChatInvariant'
<1> SUFFICES ASSUME ChatInvariant, [Next]_vars PROVE ChatInvariant' OBVIOUS
<1> USE DEF ChatInvariant, SocketPart, RoomPart
<1>1. CASE UNCHANGED vars
  BY <1>1 DEF vars, shared, TypeOK, SocketSound, Alive, PlacesCounted, Living, Held, Heard, UserOf,
     RoomsOwned, ChannelOf, Undisturbed, Joins, InTeardown, SubscriptionsOwned, ViewersExact
<1>2. CASE Next
  <2> PICK s \in Sockets : Act(s) BY <1>2 DEF Next, Act
  <2>1. TypeOK' BY TypeStep DEF PlacesCounted
  <2>2. \A t \in Sockets : SocketSound(t)'
    <3>1. SocketSound(s)' BY SocketStep
    <3>2. \A t \in Sockets \ {s} : SocketSound(t)' BY OthersStay DEF SocketSound, Alive
    <3>3. QED BY <3>1, <3>2
  <2>3. PlacesCounted' BY <2>1, PlacesStep
  <2>4. RoomsOwned' BY <2>1, OwnedStep
  <2>5. Undisturbed' BY JoinedStep, TeardownStep DEF Undisturbed
  <2>6. SubscriptionsOwned' BY SubscriptionStep DEF SubscriptionsOwned
  <2>7. ViewersExact' BY ViewersStep
  <2>8. QED BY <2>1, <2>2, <2>3, <2>4, <2>5, <2>6, <2>7
<1>3. QED BY <1>1, <1>2

LEMMA InvariantHolds == Spec => []ChatInvariant
BY InvariantStarts, InvariantStep, PTL DEF Spec

\* Every variable keeps its type; in particular no count of sockets goes below
\* zero, whatever the order of closes and rejections.
THEOREM ChatTyped == Spec => []TypeOK
<1>1. ChatInvariant => TypeOK BY DEF ChatInvariant
<1>2. QED BY <1>1, InvariantHolds, PTL

\* No interleaving of admissions, rejections and closes leaks a place or gives one
\* back twice: the instance's count is its open sockets and at most its ceiling,
\* and no user holds more sockets than allowed (chat.ts:240-267).
THEOREM PlacesBounded == Spec => []CeilingsHold
<1>1. ChatInvariant => CeilingsHold
  <2> SUFFICES ASSUME ChatInvariant PROVE CeilingsHold OBVIOUS
  <2>1. \A u \in Users :
          /\ Cardinality(Held(u)) \in Nat /\ userSocketCounts[u] \in Nat /\ MaxPerUser \in Nat
          /\ Cardinality(Held(u)) <= userSocketCounts[u] /\ userSocketCounts[u] <= MaxPerUser
          /\ u \notin raced => userSocketCounts[u] = Cardinality(Held(u))
    BY LivingCounted, FS_CardinalityType, Caps
       DEF ChatInvariant, SocketPart, PlacesCounted, TypeOK
  <2>2. \A u \in Users : Cardinality(Held(u)) <= MaxPerUser BY <2>1
  <2>3. QED BY <2>1, <2>2 DEF ChatInvariant, SocketPart, PlacesCounted, CeilingsHold, Living, Held
<1>2. QED BY <1>1, InvariantHolds, PTL

\* An open socket that joined is in its channel's room, and the room subscribed or
\* about to be, on every channel no race of rooms has touched (chat.ts:166-203).
THEOREM MembersServed == Spec => []JoinedAreServed
<1>1. ChatInvariant => JoinedAreServed
  BY DEF ChatInvariant, RoomPart, Undisturbed, RoomsOwned, JoinedAreServed, Joins, TypeOK,
     ChannelOf, Conn
<1>2. QED BY <1>1, InvariantHolds, PTL

\* No Redis subscription outlives its room on a channel no race has touched.
THEOREM NoStraySubscription == Spec => []SubscriptionsOwned
<1>1. ChatInvariant => SubscriptionsOwned BY DEF ChatInvariant, RoomPart
<1>2. QED BY <1>1, InvariantHolds, PTL

\* While Redis loses nothing, and on a channel no race has touched, the viewer
\* count is the sockets that joined and were not yet subtracted.
THEOREM ViewersCounted == Spec => []ViewersExact
<1>1. ChatInvariant => ViewersExact BY DEF ChatInvariant
<1>2. QED BY <1>1, InvariantHolds, PTL
=============================================================================
