---------------------------- MODULE ChatDelivery ----------------------------
(***************************************************************************)
(* A chat message from the sender's browser to every tab of the channel:    *)
(* the web client's Chat component (apps/web/components/chat.tsx), the      *)
(* send window, micro-batches and fan-out of the BFF                        *)
(* (apps/bff/src/ws/chat.ts), ban, slow mode and publication in svc-chat    *)
(* (apps/svc-chat/src/chat.service.ts).                                     *)
(*                                                                          *)
(* One channel on one BFF instance; other instances are Elsewhere.          *)
(* Admission and the awaits inside joinRoom and leaveRoom are ChatRooms'    *)
(* subject: here a socket is admitted in one step, and the last one's       *)
(* teardown takes two (UNSUBSCRIBE is awaited), so that a socket can still  *)
(* join the dying room.  A message is its place in the order of             *)
(* publication.  Each tab is a user.                                        *)
(***************************************************************************)
EXTENDS Integers, Sequences, FiniteSets, SequencesExt

CONSTANTS Tabs, Sockets, Requests,
          None,
          SendBurst,      \* SEND_BURST
          BufferLimit,    \* BUFFERED_LIMIT, in frames
          MaxSaid,        \* bound on messages published
          MaxEvents       \* bound on token changes, unmounts, moderations and failures

ASSUME Bounds == {SendBurst, BufferLimit, MaxSaid, MaxEvents} \subseteq Nat
ASSUME Populated == Tabs # {} /\ IsFiniteSet(Sockets)
ASSUME NoneIsNobody == None \notin Tabs \union Sockets

VARIABLES
  said,      \* messages published so far; they are 1..said
  wire,      \* publications on their way to the room's subscriber
  room,      \* the channel's Room
  sock,      \* each connection, seen from both ends
  tab,       \* each mounted Chat component
  shown,     \* the messages each tab has appended to its list
  req,       \* svc-chat's send calls
  banned,    \* ban:{channel}:{user}
  slowmode,  \* slowmode:{channel} is set
  slot,      \* sm:{channel}:{user}; "paid" once a message was published for it
  events,    \* token changes, unmounts, moderations and failures so far
  failed     \* history: there was a failure among them

vars == <<said, wire, room, sock, tab, shown, req, banned, slowmode, slot, events, failed>>
chat == <<req, banned, slowmode, slot>>

Places == 1..(MaxSaid + 1)
Ready  == <<>>      \* the frame {type: "ready"}; other frames carry messages

Room == [up : {"none", "up", "dying"},         \* in the map; being unsubscribed
         sub : BOOLEAN,                        \* Redis has the subscription
         sockets : SUBSET Sockets,
         queue : Seq(Places),
         timer : {"null", "armed", "cleared"},
         drops : Nat]
Sock == [tab : Tabs \union {None},
         ws : {"connecting", "open", "closing", "closed"},   \* the browser's readyState
         srv : {"none", "auth", "joined", "closed"},         \* the handler's state
         out : Seq(Seq(Places)),                             \* frames not yet read by the tab
         up : 0..1,                                          \* send frames not yet read
         recent : 0..SendBurst,                              \* sendTimes inside the window
         told : BOOLEAN]                                     \* history: the tab read "ready"
Tab == [mounted : BOOLEAN, wsRef : Sockets \union {None}, connected : BOOLEAN,
        retry : BOOLEAN, renewed : BOOLEAN]
Req == [user : Tabs, phase : {"idle", "ban", "slow", "slot", "publish"}, took : BOOLEAN]

TypeOK ==
  /\ said \in 0..(MaxSaid + 1)
  /\ wire \in Seq(Places)
  /\ room \in Room
  /\ sock \in [Sockets -> Sock]
  /\ tab \in [Tabs -> Tab]
  /\ shown \in [Tabs -> Seq(Places)]
  /\ req \in [Requests -> Req]
  /\ banned \in [Tabs -> BOOLEAN]
  /\ slowmode \in BOOLEAN
  /\ slot \in [Tabs -> {"free", "taken", "paid"}]
  /\ events \in 0..MaxEvents /\ failed \in BOOLEAN

NoRoom  == [up |-> "none", sub |-> FALSE, sockets |-> {}, queue |-> <<>>,
            timer |-> "null", drops |-> 0]
NewRoom == [NoRoom EXCEPT !.up = "up", !.sub = TRUE]
Free    == [tab |-> None, ws |-> "closed", srv |-> "closed", out |-> <<>>, up |-> 0,
            recent |-> 0, told |-> FALSE]

\* The component has mounted and connect() is about to run.
Init ==
  /\ said = 0 /\ wire = <<>> /\ room = NoRoom
  /\ sock = [s \in Sockets |-> Free]
  /\ tab = [t \in Tabs |-> [mounted |-> TRUE, wsRef |-> None, connected |-> FALSE,
                            retry |-> TRUE, renewed |-> FALSE]]
  /\ shown = [t \in Tabs |-> <<>>]
  /\ req = [r \in Requests |-> [user |-> CHOOSE t \in Tabs : TRUE, phase |-> "idle",
                                took |-> FALSE]]
  /\ banned = [t \in Tabs |-> FALSE] /\ slowmode \in BOOLEAN
  /\ slot = [t \in Tabs |-> "free"]
  /\ events = 0 /\ failed = FALSE
-----------------------------------------------------------------------------
\* What a step leaves alone, and whether it is something out of the ordinary, of
\* which a run has MaxEvents.
Usual   == UNCHANGED <<events, failed>>
Event   == events < MaxEvents /\ events' = events + 1
Planned == Event /\ UNCHANGED failed
Failure == Event /\ failed' = TRUE
SameServer == UNCHANGED <<said, wire, room, chat>>
SameEnds   == UNCHANGED <<wire, room, sock, tab, shown>>

Open(s) == sock[s].ws = "open"
-----------------------------------------------------------------------------
(* The Chat component.                                                      *)

\* connect(): each attempt has a socket of its own.
Dial(t, s, others) ==
  /\ sock[s] = Free
  /\ sock' = [others EXCEPT ![s] = [Free EXCEPT !.tab = t, !.ws = "connecting", !.srv = "none"]]

\* The effect, or the retry timer.
Connect(t) ==
  /\ tab[t].mounted /\ tab[t].retry
  /\ \E s \in Sockets : /\ Dial(t, s, sock)
                        /\ tab' = [tab EXCEPT ![t].wsRef = s, ![t].retry = FALSE]
  /\ UNCHANGED shown /\ SameServer /\ Usual

\* Slip: the cleanup forgets the socket.
NotClosed(t) == sock
\* The cleanup's ws.close(): nothing to a socket already closing or closed.
CloseRef(t) ==
  [s \in Sockets |-> IF s = tab[t].wsRef /\ sock[s].ws \in {"connecting", "open"}
                     THEN [sock[s] EXCEPT !.ws = "closing"] ELSE sock[s]]

\* The token changed: cleanup, then the effect again.  `connected' is not touched.
NewToken(t) ==
  /\ tab[t].mounted
  /\ \E s \in Sockets :
       /\ Dial(t, s, CloseRef(t))
       /\ tab' = [tab EXCEPT ![t].wsRef = s, ![t].retry = FALSE, ![t].renewed = TRUE]
  /\ UNCHANGED shown /\ SameServer /\ Planned

\* The user leaves the page: cleanup only.
Unmount(t) ==
  /\ tab[t].mounted
  /\ sock' = CloseRef(t)
  /\ tab' = [tab EXCEPT ![t].mounted = FALSE, ![t].retry = FALSE, ![t].connected = FALSE]
  /\ UNCHANGED shown /\ SameServer /\ Planned

\* onopen: the first frame carries the token.
Opened(s) ==
  /\ sock[s].ws = "connecting"
  /\ sock' = [sock EXCEPT ![s].ws = "open", ![s].srv = "auth"]
  /\ UNCHANGED <<tab, shown>> /\ SameServer /\ Usual

\* Slip: a closed socket leaves the input enabled.
StillConnected(t) == tab[t].connected
AfterClose(t) == FALSE

\* onclose, of the effect's own socket (which schedules a retry) or of an
\* earlier effect's: both say "not connected".
Closed(s) ==
  LET t == sock[s].tab IN
  /\ sock[s].ws # "closed"
  /\ IF sock[s].ws = "closing" \/ sock[s].srv = "closed" THEN Usual ELSE Failure
  /\ sock' = [sock EXCEPT ![s] = IF @.srv \in {"none", "closed"} THEN Free
                                 ELSE [@ EXCEPT !.ws = "closed", !.out = <<>>]]
  /\ tab' = IF ~ tab[t].mounted THEN tab
            ELSE [tab EXCEPT ![t].connected = AfterClose(t),
                             ![t].retry = @ \/ tab[t].wsRef = s,
                             ![t].wsRef = IF @ = s THEN None ELSE @]
  /\ UNCHANGED shown /\ SameServer

\* onmessage, which a socket that is no longer OPEN does not fire: "ready", or
\* messages appended to the list (of which the last 200 are kept).
Read(s) ==
  LET t == sock[s].tab  frame == Head(sock[s].out) IN
  /\ Open(s) /\ sock[s].out # <<>>
  /\ sock' = [sock EXCEPT ![s].out = Tail(@), ![s].told = @ \/ frame = Ready]
  /\ tab' = [tab EXCEPT ![t].connected = @ \/ frame = Ready]
  /\ shown' = [shown EXCEPT ![t] = @ \o frame]
  /\ SameServer /\ Usual

\* send(): enabled by `connected'; the frame goes to wsRef if that is OPEN.
Send(t) ==
  LET s == tab[t].wsRef IN
  /\ tab[t].mounted /\ tab[t].connected
  /\ s # None /\ Open(s) /\ sock[s].up = 0
  /\ sock' = [sock EXCEPT ![s].up = 1]
  /\ UNCHANGED <<tab, shown>> /\ SameServer /\ Usual
-----------------------------------------------------------------------------
(* The BFF: rooms, batches, the send window.                                *)

\* The handler admits the socket: joinRoom, and "ready" if it is still open.
Admit(s) ==
  /\ sock[s].srv = "auth"
  /\ room' = [IF room.up = "none" THEN NewRoom ELSE room EXCEPT !.sockets = @ \union {s}]
  /\ sock' = [sock EXCEPT ![s].srv = "joined",
                          ![s].out = IF Open(s) THEN Append(@, Ready) ELSE @]
  /\ UNCHANGED <<said, wire, tab, shown, chat>> /\ Usual

\* The server's end closes: the peer has, or the socket is rejected or lost.
\* leaveRoom, up to UNSUBSCRIBE if this was the last socket; clearTimeout does
\* not make the timer null.
ServerClosed(s) ==
  LET left == [room EXCEPT !.sockets = @ \ {s}] IN
  /\ sock[s].srv \in {"auth", "joined"}
  /\ IF Open(s) THEN Failure ELSE Usual
  /\ sock' = [sock EXCEPT ![s] = IF @.ws = "closed" THEN Free
                                 ELSE [@ EXCEPT !.srv = "closed", !.up = 0, !.recent = 0]]
  /\ room' = IF s \in room.sockets /\ left.sockets = {} /\ room.up = "up"
             THEN [left EXCEPT !.up = "dying", !.timer = IF @ = "armed" THEN "cleared" ELSE @]
             ELSE left
  /\ UNCHANGED <<said, wire, tab, shown, chat>>

\* Redis handles UNSUBSCRIBE; when the answer comes, after what was published
\* before, the room is deleted, whoever has joined it since.
Unsubscribed ==
  /\ room.up = "dying"
  /\ IF room.sub THEN room' = [room EXCEPT !.sub = FALSE]
     ELSE wire = <<>> /\ room' = NoRoom
  /\ UNCHANGED <<said, wire, sock, tab, shown, chat>> /\ Usual

\* fanout: to every socket of the room that is not backed up; the others are
\* counted.  What is sent to a browser that has gone is lost.
Takes(s) == s \in room.sockets /\ Len(sock[s].out) <= BufferLimit
Fanout(frame) ==
  sock' = [s \in Sockets |-> IF Takes(s) /\ sock[s].ws # "closed"
                             THEN [sock[s] EXCEPT !.out = Append(@, frame)] ELSE sock[s]]
Dropped == room.drops + Cardinality({s \in room.sockets : ~ Takes(s)})

\* Slip: the window's timer is never set.
NoWindow == "cleared"
Window   == "armed"

\* enqueue, of the subscriber's next message: an isolated one goes out at once
\* and opens the window; what arrives in the window waits for its end.
Receive ==
  /\ wire # <<>> /\ wire' = Tail(wire)
  /\ IF room.queue = <<>> /\ room.timer = "null"
     THEN /\ Fanout(<<Head(wire)>>)
          /\ room' = [room EXCEPT !.timer = Window, !.drops = Dropped]
     ELSE room' = [room EXCEPT !.queue = Append(@, Head(wire))] /\ UNCHANGED sock
  /\ UNCHANGED <<said, tab, shown, chat>> /\ Usual

\* The window's timer: flush.
WindowEnds ==
  /\ room.timer = "armed"
  /\ IF room.queue = <<>>
     THEN room' = [room EXCEPT !.timer = "null"] /\ UNCHANGED sock
     ELSE /\ Fanout(room.queue)
          /\ room' = [room EXCEPT !.timer = "null", !.queue = <<>>, !.drops = Dropped]
  /\ UNCHANGED <<said, wire, tab, shown, chat>> /\ Usual

\* The reporter's interval.
ReportDrops ==
  /\ room.drops > 0 /\ room' = [room EXCEPT !.drops = 0]
  /\ UNCHANGED <<said, wire, sock, tab, shown, chat>> /\ Usual

WithinBurst(s) == sock[s].recent < SendBurst

\* The "message" listener: within the burst the message goes to svc-chat, above
\* it the client is told, which it ignores.  Before the listener is registered
\* nobody hears the frame.
HandleSend(s) ==
  /\ sock[s].up = 1 /\ sock[s].srv \in {"auth", "joined"}
  /\ IF sock[s].srv = "joined" /\ WithinBurst(s)
     THEN \E r \in Requests :
            /\ req[r].phase = "idle"
            /\ sock' = [sock EXCEPT ![s].up = 0, ![s].recent = @ + 1]
            /\ req' = [req EXCEPT ![r] = [user |-> sock[s].tab, phase |-> "ban", took |-> FALSE]]
     ELSE sock' = [sock EXCEPT ![s].up = 0] /\ UNCHANGED req
  /\ UNCHANGED <<said, wire, room, tab, shown, banned, slowmode, slot>> /\ Usual

\* The oldest of sendTimes leaves the window.
Ages(s) ==
  /\ sock[s].recent > 0 /\ sock' = [sock EXCEPT ![s].recent = @ - 1]
  /\ UNCHANGED <<tab, shown>> /\ SameServer /\ Usual
-----------------------------------------------------------------------------
(* svc-chat: send, one step per Redis command, and moderate.                *)

To(r, phase) == req' = [req EXCEPT ![r].phase = phase]

IsBanned(u)     == banned[u]

\* EXISTS ban, then GET slowmode.
CheckBan(r) ==
  /\ req[r].phase = "ban" /\ To(r, IF IsBanned(req[r].user) THEN "idle" ELSE "slow")
  /\ SameEnds /\ UNCHANGED <<said, banned, slowmode, slot>> /\ Usual
ReadSlow(r) ==
  /\ req[r].phase = "slow" /\ To(r, IF slowmode THEN "slot" ELSE "publish")
  /\ SameEnds /\ UNCHANGED <<said, banned, slowmode, slot>> /\ Usual

\* Slip: a refused message starts the period anew.
Restarted(u) == "taken"
Unaffected(u) == slot[u]

\* SET sm NX EX: the user's one message of this period.
TakeSlot(r) ==
  LET u == req[r].user IN
  /\ req[r].phase = "slot"
  /\ IF slot[u] = "free"
     THEN /\ slot' = [slot EXCEPT ![u] = "taken"]
          /\ req' = [req EXCEPT ![r].phase = "publish", ![r].took = TRUE]
     ELSE slot' = [slot EXCEPT ![u] = Unaffected(u)] /\ To(r, "idle")
  /\ SameEnds /\ UNCHANGED <<said, banned, slowmode>> /\ Usual

\* Redis gives n publications to the subscribers.
Publish(n) ==
  /\ said' = said + n
  /\ wire' = IF room.sub THEN wire \o [i \in 1..n |-> said + i] ELSE wire

\* PUBLISH; ioredis sends it again if the connection breaks before the answer.
PublishSend(r) ==
  LET u == req[r].user IN
  /\ req[r].phase = "publish" /\ said < MaxSaid
  /\ (Publish(1) /\ Usual) \/ (Publish(2) /\ Failure)
  /\ slot' = IF req[r].took /\ slot[u] = "taken" THEN [slot EXCEPT ![u] = "paid"] ELSE slot
  /\ To(r, "idle")
  /\ UNCHANGED <<room, sock, tab, shown, banned, slowmode>>

\* A command fails and the call with it; a SET that was carried out, or is
\* resent and then finds its own key, leaves the slot taken.
SendFails(r) ==
  LET u == req[r].user IN
  /\ req[r].phase # "idle" /\ Failure /\ To(r, "idle")
  /\ \/ UNCHANGED slot
     \/ req[r].phase = "slot" /\ slot[u] = "free" /\ slot' = [slot EXCEPT ![u] = "taken"]
  /\ SameEnds /\ UNCHANGED <<said, banned, slowmode>>

\* moderate: BAN, for a while or for ever; UNBAN or the end of a ban; SLOWMODE.
Ban(u) ==
  /\ ~ banned[u] /\ banned' = [banned EXCEPT ![u] = TRUE]
  /\ SameEnds /\ UNCHANGED <<said, req, slowmode, slot>> /\ Planned
Unban(u) ==
  /\ banned[u] /\ banned' = [banned EXCEPT ![u] = FALSE]
  /\ SameEnds /\ UNCHANGED <<said, req, slowmode, slot>> /\ Usual
SetSlowmode ==
  /\ slowmode' = ~ slowmode
  /\ SameEnds /\ UNCHANGED <<said, req, banned, slot>> /\ Planned
SlotExpires(u) ==
  /\ slot[u] # "free" /\ slot' = [slot EXCEPT ![u] = "free"]
  /\ SameEnds /\ UNCHANGED <<said, req, banned, slowmode>> /\ Usual

\* A user of another instance publishes.
Elsewhere ==
  /\ said < MaxSaid /\ Publish(1)
  /\ UNCHANGED <<room, sock, tab, shown, chat>> /\ Usual

\* The subscriber's connection breaks; what was on the way is lost, and ioredis
\* subscribes again.
SubscriberDrops ==
  /\ room.sub /\ wire # <<>> /\ wire' = <<>>
  /\ UNCHANGED <<said, room, sock, tab, shown, chat>> /\ Failure
-----------------------------------------------------------------------------
Next ==
  \/ \E t \in Tabs : Connect(t) \/ NewToken(t) \/ Unmount(t) \/ Send(t)
  \/ \E s \in Sockets :
       \/ Opened(s) \/ Closed(s) \/ Read(s)
       \/ Admit(s) \/ ServerClosed(s) \/ HandleSend(s) \/ Ages(s)
  \/ \E r \in Requests :
       CheckBan(r) \/ ReadSlow(r) \/ TakeSlot(r) \/ PublishSend(r) \/ SendFails(r)
  \/ \E u \in Tabs : Ban(u) \/ Unban(u) \/ SlotExpires(u)
  \/ Receive \/ WindowEnds \/ ReportDrops \/ Unsubscribed
  \/ SetSlowmode \/ Elsewhere \/ SubscriberDrops

Spec == Init /\ [][Next]_vars

\* Timers fire, sockets carry what was sent, Redis answers.
Fairness ==
  /\ WF_vars(Receive) /\ WF_vars(WindowEnds) /\ WF_vars(Unsubscribed)
  /\ \A s \in Sockets : WF_vars(Read(s))

FairSpec == Spec /\ Fairness
-----------------------------------------------------------------------------
\* However sockets, tokens, windows and rooms come and go, what a tab shows is
\* in publication order and nothing twice (chat.ts:67-69, 145-147).
IsBroadcast == INSTANCE Broadcast WITH Readers <- Tabs, heard <- shown
IsBroadcastSpec == IsBroadcast!BSpec

\* Until its token changes, a tab's input is enabled exactly while its socket is
\* open and "ready" has come, and nothing it sends arrives before the listener
\* (chat.ts:310, chat.tsx:31-37, 102).
InputTruthful ==
  /\ \A t \in Tabs : (tab[t].mounted /\ ~ tab[t].renewed) =>
       (tab[t].connected <=> tab[t].wsRef # None /\ sock[tab[t].wsRef].told)
  /\ \A s \in Sockets : sock[s].up = 1 /\ sock[s].srv = "auth" => tab[sock[s].tab].renewed

\* Without a failure nobody waits out a slow mode's period for a message that
\* was not published and is not about to be (chat.service.ts:54-69).
SlotEarned ==
  ~ failed => \A u \in Tabs : slot[u] = "taken" =>
    \E r \in Requests : req[r].user = u /\ req[r].took /\ req[r].phase = "publish"

\* A message that reaches the room is shown by every tab that stays in it and keeps
\* up, through windows, reconnections and rooms being torn down.  Any failure voids
\* the promise: Redis publishes to whoever listens at the moment and keeps nothing.
Follows(t) ==
  LET s == tab[t].wsRef IN s # None /\ Open(s) /\ s \in room.sockets /\ room.up = "up"
Pending(m) == m \in ToSet(room.queue) \union ToSet(wire)
MessagesArrive ==
  \A t \in Tabs, m \in Places :
    (Follows(t) /\ Pending(m))
      ~> (m \in ToSet(shown[t]) \/ ~ Follows(t) \/ room.drops > 0 \/ failed)
=============================================================================
