------------------------- MODULE ChatDeliveryProofs -------------------------
(***************************************************************************)
(* Proofs about the delivery of chat messages, for any number of tabs,      *)
(* sockets, messages, token changes and failures: it implements Broadcast,  *)
(* the input tells the truth, and slow mode is paid for.                    *)
(***************************************************************************)
EXTENDS ChatDelivery, TLAPS, FiniteSetTheorems, SequenceTheorems

Live(s) == sock[s].ws \in {"connecting", "open"}

\* A connection from both ends: while the browser has it open or opening, its
\* tab is mounted and knows it by wsRef; frames come with admission.
SocketKept(s) ==
  /\ sock[s].tab = None => sock[s] = Free
  /\ Live(s) => tab[sock[s].tab].mounted /\ tab[sock[s].tab].wsRef = s
  /\ sock[s].ws = "connecting" => sock[s].srv = "none"
  /\ sock[s].srv = "none" => sock[s].ws # "open" /\ sock[s].up = 0
  /\ sock[s].srv \in {"none", "auth"} => sock[s].out = <<>> /\ ~ sock[s].told
  /\ s \in room.sockets => sock[s].srv = "joined"
  /\ sock[s].up = 1 /\ sock[s].srv = "auth" => tab[sock[s].tab].renewed

\* A component: its wsRef is a socket of its own that has not closed, its only
\* one before the first token change, and then `connected' is what it was told.
TabKept(t) ==
  LET s == tab[t].wsRef IN
  tab[t].mounted =>
    /\ s # None => sock[s].tab = t /\ sock[s].ws # "closed"
    /\ tab[t].retry => s = None
    /\ ~ tab[t].renewed =>
         /\ tab[t].connected <=> s # None /\ sock[s].told
         /\ \A x \in Sockets : sock[x].tab = t /\ sock[x].ws # "closed" => s = x

Rising(q)    == \A i, j \in 1..Len(q) : i < j => q[i] < q[j]
Before(p, q) == \A i \in 1..Len(p), j \in 1..Len(q) : p[i] < q[j]
Upto(q, n)   == \A i \in 1..Len(q) : q[i] <= n

\* Everything between publication and the list is in order, and nothing twice:
\* what a tab shows, the frames on their way to it, the window's queue, the wire.
LineKept ==
  /\ Rising(room.queue) /\ Rising(wire) /\ Before(room.queue, wire)
  /\ Upto(room.queue, said) /\ Upto(wire, said)
ShownKept(t) ==
  /\ Rising(shown[t]) /\ Upto(shown[t], said)
  /\ Before(shown[t], room.queue) /\ Before(shown[t], wire)
FrameKept(t, f) ==
  /\ Rising(f) /\ Upto(f, said)
  /\ Before(shown[t], f) /\ Before(f, room.queue) /\ Before(f, wire)
FramesKept(s) ==
  LET out == sock[s].out IN
  Live(s) => /\ \A i \in 1..Len(out) : FrameKept(sock[s].tab, out[i])
             /\ \A i, j \in 1..Len(out) : i < j => Before(out[i], out[j])

EndsKept  == (\A s \in Sockets : SocketKept(s)) /\ \A t \in Tabs : TabKept(t)
OrderKept == /\ LineKept
             /\ \A t \in Tabs : ShownKept(t)
             /\ \A s \in Sockets : FramesKept(s)

DeliveryInvariant == TypeOK /\ EndsKept /\ OrderKept /\ SlotEarned
-----------------------------------------------------------------------------
(* Sequences of places in order.                                            *)

LEMMA JoinOrder ==
  ASSUME NEW p \in Seq(Nat), NEW q \in Seq(Nat), Rising(p), Rising(q), Before(p, q)
  PROVE  /\ p \o q \in Seq(Nat) /\ Rising(p \o q)
         /\ \A n \in Nat : Upto(p, n) /\ Upto(q, n) => Upto(p \o q, n)
         /\ \A r \in Seq(Nat) : Before(p, r) /\ Before(q, r) => Before(p \o q, r)
         /\ \A r \in Seq(Nat) : Before(r, p) /\ Before(r, q) => Before(r, p \o q)
<1>1. /\ p \o q \in Seq(Nat) /\ Len(p \o q) = Len(p) + Len(q)
      /\ \A i \in 1..(Len(p) + Len(q)) :
           (p \o q)[i] = IF i <= Len(p) THEN p[i] ELSE q[i - Len(p)]
      /\ Len(p) \in Nat /\ Len(q) \in Nat
  BY ConcatProperties, LenProperties
<1> DEFINE w == p \o q
<1> HIDE DEF w
<1>2. \A i \in 1..Len(w) : \/ i \in 1..Len(p) /\ w[i] = p[i]
                           \/ i - Len(p) \in 1..Len(q) /\ w[i] = q[i - Len(p)]
  BY <1>1 DEF w
<1>3. Rising(w)
  <2>1. SUFFICES ASSUME NEW i \in 1..Len(w), NEW j \in 1..Len(w), i < j PROVE w[i] < w[j]
    BY DEF Rising
  <2>2. Len(w) = Len(p) + Len(q) BY <1>1 DEF w
  <2>3. CASE j <= Len(p) BY <1>1, <2>1, <2>2, <2>3 DEF w, Rising
  <2>4. CASE i <= Len(p) /\ ~ (j <= Len(p))
    <3>1. j - Len(p) \in 1..Len(q) /\ i \in 1..Len(p) BY <1>1, <2>1, <2>2, <2>4
    <3>2. w[i] = p[i] /\ w[j] = q[j - Len(p)] BY <1>1, <2>1, <2>2, <2>4 DEF w
    <3>3. QED BY <3>1, <3>2 DEF Before
  <2>5. CASE ~ (i <= Len(p))
    <3>1. j - Len(p) \in 1..Len(q) /\ i - Len(p) \in 1..Len(q) /\ i - Len(p) < j - Len(p)
      BY <1>1, <2>1, <2>2, <2>5
    <3>2. w[i] = q[i - Len(p)] /\ w[j] = q[j - Len(p)] BY <1>1, <2>1, <2>2, <2>5 DEF w
    <3>3. QED BY <3>1, <3>2 DEF Rising
  <2>6. QED BY <1>1, <2>3, <2>4, <2>5
<1>4. \A n \in Nat : Upto(p, n) /\ Upto(q, n) => Upto(w, n) BY <1>2 DEF Upto
<1>5. \A r \in Seq(Nat) : Before(p, r) /\ Before(q, r) => Before(w, r) BY <1>2 DEF Before
<1>6. \A r \in Seq(Nat) : Before(r, p) /\ Before(r, q) => Before(r, w) BY <1>2 DEF Before
<1>7. QED BY <1>1, <1>3, <1>4, <1>5, <1>6 DEF w

LEMMA CutOrder ==
  ASSUME NEW q \in Seq(Nat), q # <<>>, Rising(q)
  PROVE  /\ Tail(q) \in Seq(Nat) /\ Rising(Tail(q))
         /\ <<Head(q)>> \in Seq(Nat) /\ Rising(<<Head(q)>>) /\ Before(<<Head(q)>>, Tail(q))
         /\ \A n \in Nat : Upto(q, n) => Upto(Tail(q), n) /\ Upto(<<Head(q)>>, n)
         /\ \A r \in Seq(Nat) : Before(q, r) => Before(Tail(q), r) /\ Before(<<Head(q)>>, r)
         /\ \A r \in Seq(Nat) : Before(r, q) => Before(r, Tail(q)) /\ Before(r, <<Head(q)>>)
<1>1. /\ Tail(q) \in Seq(Nat) /\ Head(q) \in Nat /\ Len(Tail(q)) = Len(q) - 1
      /\ \A i \in 1..Len(Tail(q)) : Tail(q)[i] = q[i + 1]
      /\ Len(q) \in Nat \ {0} /\ Head(q) = q[1]
  BY HeadTailProperties, EmptySeq
<1> DEFINE z == Tail(q)
           h == <<Head(q)>>
<1>2. h \in Seq(Nat) /\ Len(h) = 1 /\ h[1] = q[1] BY <1>1
<1> HIDE DEF z, h
<1>3. 1 \in 1..Len(q) /\ \A i \in 1..Len(z) : i + 1 \in 1..Len(q) /\ z[i] = q[i + 1] /\ 1 < i + 1
  BY <1>1 DEF z
<1>4. \A i \in 1..Len(h) : h[i] = q[1] BY <1>2
<1>5. Rising(z)
  <2>1. ASSUME NEW i \in 1..Len(z), NEW j \in 1..Len(z), i < j PROVE z[i] < z[j]
    <3>1. i + 1 < j + 1 BY <2>1, <1>1 DEF z
    <3>2. q[i + 1] < q[j + 1] BY <1>3, <3>1 DEF Rising
    <3>3. QED BY <1>3, <3>2
  <2>2. QED BY <2>1 DEF Rising
<1>6. Before(h, z) BY <1>3, <1>4 DEF Before, Rising
<1>7. Rising(h) BY <1>2 DEF Rising
<1>8. \A n \in Nat : Upto(q, n) => Upto(z, n) /\ Upto(h, n) BY <1>3, <1>4 DEF Upto
<1>9. \A r \in Seq(Nat) : Before(q, r) => Before(z, r) /\ Before(h, r) BY <1>3, <1>4 DEF Before
<1>10. \A r \in Seq(Nat) : Before(r, q) => Before(r, z) /\ Before(r, h) BY <1>3, <1>4 DEF Before
<1>11. QED BY <1>1, <1>2, <1>5, <1>6, <1>7, <1>8, <1>9, <1>10 DEF z, h

LEMMA NothingOrder ==
  /\ <<>> \in Seq(Nat) /\ Rising(<<>>) /\ \A n \in Nat : Upto(<<>>, n)
  /\ \A q \in Seq(Nat) : Before(q, <<>>) /\ Before(<<>>, q)
BY DEF Rising, Upto, Before

\* n publications after the last.
LEMMA NewOrder ==
  ASSUME NEW m \in Nat, NEW n \in Nat
  PROVE  LET q == [i \in 1..n |-> m + i] IN
         /\ q \in Seq(Nat) /\ Rising(q) /\ Upto(q, m + n)
         /\ \A r \in Seq(Nat) : Upto(r, m) => Before(r, q)
<1> DEFINE q == [i \in 1..n |-> m + i]
<1>1. q \in Seq(Nat) /\ Len(q) = n /\ \A i \in 1..n : q[i] = m + i OBVIOUS
<1> HIDE DEF q
<1>2. \A i \in 1..Len(q) : q[i] = m + i /\ i \in Nat /\ 0 < i /\ i <= n BY <1>1
<1>3. Rising(q) BY <1>2 DEF Rising
<1>4. Upto(q, m + n) BY <1>2 DEF Upto
<1>5. ASSUME NEW r \in Seq(Nat), Upto(r, m) PROVE Before(r, q)
  <2>1. \A i \in 1..Len(r) : r[i] \in Nat /\ r[i] <= m BY <1>5, ElementOfSeq DEF Upto
  <2>2. QED BY <1>2, <2>1 DEF Before
<1>6. QED BY <1>1, <1>3, <1>4, <1>5 DEF q

LEMMA LaterOrder == \A q \in Seq(Nat) : \A m, n \in Nat : m <= n /\ Upto(q, m) => Upto(q, n)
<1>1. ASSUME NEW q \in Seq(Nat), NEW m \in Nat, NEW n \in Nat, m <= n, Upto(q, m) PROVE Upto(q, n)
  <2>1. \A i \in 1..Len(q) : q[i] \in Nat BY ElementOfSeq
  <2>2. QED BY <1>1, <2>1 DEF Upto
<1>2. QED BY <1>1
-----------------------------------------------------------------------------
(* What each step does to the connections.                                  *)

LEMMA Sequences ==
  /\ \A q \in Seq(Places) : q \in Seq(Nat)
  /\ \A qs \in Seq(Seq(Places)) : \A i \in 1..Len(qs) : qs[i] \in Seq(Places) /\ qs[i] \in Seq(Nat)
<1>1. Places \subseteq Nat BY DEF Places
<1>2. \A q \in Seq(Places) : q \in Seq(Nat) BY <1>1, SeqMonotonic
<1>3. QED BY <1>2, ElementOfSeq

LEMMA SockFields ==
  ASSUME NEW x \in Sock
  PROVE  /\ x.tab \in Tabs \union {None} /\ x.ws \in {"connecting", "open", "closing", "closed"}
         /\ x.srv \in {"none", "auth", "joined", "closed"} /\ x.out \in Seq(Seq(Places))
         /\ x.up \in 0..1 /\ x.recent \in 0..SendBurst /\ x.told \in BOOLEAN
BY DEF Sock

LEMMA UpValues == 0 \in 0..1 /\ 1 \in 0..1
OBVIOUS

LEMMA FreeSock ==
  /\ Free \in Sock /\ Free.tab = None /\ Free.ws = "closed" /\ Free.srv = "closed"
  /\ Free.out = <<>> /\ Free.up = 0 /\ Free.told = FALSE
<1>1. 0 \in 0..SendBurst BY Bounds
<1>2. <<>> \in Seq(Seq(Places)) OBVIOUS
<1>3. QED BY <1>1, <1>2 DEF Free, Sock

\* Every step replaces the record of one socket, of two or, fanning out, of many.
LEMMA OneSock ==
  ASSUME TypeOK, NEW s \in Sockets, NEW x \in Sock, sock' = [sock EXCEPT ![s] = x]
  PROVE  /\ sock' \in [Sockets -> Sock] /\ sock'[s] = x
         /\ \A y \in Sockets \ {s} : sock'[y] = sock[y]
BY DEF TypeOK

\* The step of s alone: what a property looks at, field by field.
Becomes(s, t, ws, srv, out, up, told) ==
  /\ sock' \in [Sockets -> Sock] /\ \A y \in Sockets \ {s} : sock'[y] = sock[y]
  /\ sock'[s].tab = t /\ sock'[s].ws = ws /\ sock'[s].srv = srv /\ sock'[s].out = out
  /\ sock'[s].up = up /\ sock'[s].told = told
Freed(s) == Becomes(s, None, "closed", "closed", <<>>, 0, FALSE) /\ sock'[s] = Free

LEMMA FreedSock == ASSUME TypeOK, NEW s \in Sockets, sock' = [sock EXCEPT ![s] = Free]
                   PROVE  Freed(s)
BY FreeSock, OneSock DEF Freed, Becomes

LEMMA DialStep ==
  ASSUME NEW t \in Tabs, NEW s \in Sockets, NEW others \in [Sockets -> Sock], Dial(t, s, others)
  PROVE  /\ sock[s] = Free /\ sock' \in [Sockets -> Sock]
         /\ sock'[s].tab = t /\ sock'[s].ws = "connecting" /\ sock'[s].srv = "none"
         /\ sock'[s].out = <<>> /\ sock'[s].up = 0 /\ ~ sock'[s].told
         /\ \A y \in Sockets \ {s} : sock'[y] = others[y]
<1> DEFINE x == [Free EXCEPT !.tab = t, !.ws = "connecting", !.srv = "none"]
<1>1. x \in Sock BY FreeSock DEF Sock
<1>2. /\ x.tab = t /\ x.ws = "connecting" /\ x.srv = "none" /\ x.out = <<>> /\ x.up = 0 /\ ~ x.told
  BY FreeSock DEF Free
<1>3. sock' = [others EXCEPT ![s] = x] /\ sock[s] = Free BY DEF Dial
<1> HIDE DEF x
<1>4. QED BY <1>1, <1>2, <1>3

\* The cleanup's close: wsRef's socket is no longer live, and no other changes.
LEMMA CloseRefIs ==
  ASSUME TypeOK, NEW t \in Tabs
  PROVE  /\ CloseRef(t) \in [Sockets -> Sock]
         /\ \A x \in Sockets :
              \/ CloseRef(t)[x] = sock[x] /\ (x = tab[t].wsRef => ~ Live(x))
              \/ /\ x = tab[t].wsRef /\ Live(x) /\ CloseRef(t)[x].ws = "closing"
                 /\ CloseRef(t)[x].tab = sock[x].tab /\ CloseRef(t)[x].srv = sock[x].srv
                 /\ CloseRef(t)[x].out = sock[x].out /\ CloseRef(t)[x].up = sock[x].up
                 /\ CloseRef(t)[x].told = sock[x].told
<1>1. ASSUME NEW x \in Sockets
      PROVE  /\ CloseRef(t)[x] \in Sock
             /\ \/ CloseRef(t)[x] = sock[x] /\ (x = tab[t].wsRef => ~ Live(x))
                \/ /\ x = tab[t].wsRef /\ Live(x) /\ CloseRef(t)[x].ws = "closing"
                   /\ CloseRef(t)[x].tab = sock[x].tab /\ CloseRef(t)[x].srv = sock[x].srv
                   /\ CloseRef(t)[x].out = sock[x].out /\ CloseRef(t)[x].up = sock[x].up
                   /\ CloseRef(t)[x].told = sock[x].told
  <2> DEFINE c == [sock[x] EXCEPT !.ws = "closing"]
  <2>1. sock[x] \in Sock BY DEF TypeOK
  <2>2. /\ c \in Sock /\ c.ws = "closing" /\ c.tab = sock[x].tab /\ c.srv = sock[x].srv
        /\ c.out = sock[x].out /\ c.up = sock[x].up /\ c.told = sock[x].told
    BY <2>1 DEF Sock
  <2>3. CloseRef(t)[x] = IF x = tab[t].wsRef /\ Live(x) THEN c ELSE sock[x] BY DEF CloseRef, Live
  <2> HIDE DEF c
  <2>4. QED BY <2>1, <2>2, <2>3
<1>2. CloseRef(t) \in [Sockets -> Sock] BY <1>1 DEF CloseRef
<1>3. QED BY <1>1, <1>2

LEMMA OpenedStep ==
  ASSUME TypeOK, NEW s \in Sockets, Opened(s)
  PROVE  /\ sock[s].ws = "connecting"
         /\ Becomes(s, sock[s].tab, "open", "auth", sock[s].out, sock[s].up, sock[s].told)
<1> DEFINE x == [sock[s] EXCEPT !.ws = "open", !.srv = "auth"]
<1>1. sock[s] \in Sock BY DEF TypeOK
<1>2. /\ x \in Sock /\ x.tab = sock[s].tab /\ x.ws = "open" /\ x.srv = "auth"
      /\ x.out = sock[s].out /\ x.up = sock[s].up /\ x.told = sock[s].told
  BY <1>1 DEF Sock
<1>3. sock' = [sock EXCEPT ![s] = x] BY DEF Opened
<1> HIDE DEF x
<1>4. QED BY <1>2, <1>3, OneSock DEF Opened, Becomes

LEMMA ClosedStep ==
  ASSUME TypeOK, NEW s \in Sockets, Closed(s)
  PROVE  \/ sock[s].srv \in {"none", "closed"} /\ Freed(s)
         \/ /\ sock[s].srv \notin {"none", "closed"}
            /\ Becomes(s, sock[s].tab, "closed", sock[s].srv, <<>>, sock[s].up, sock[s].told)
<1>1. CASE sock[s].srv \in {"none", "closed"} BY <1>1, FreedSock DEF Closed
<1>2. CASE sock[s].srv \notin {"none", "closed"}
  <2> DEFINE x == [sock[s] EXCEPT !.ws = "closed", !.out = <<>>]
  <2>1. sock[s] \in Sock /\ <<>> \in Seq(Seq(Places)) BY DEF TypeOK
  <2>2. /\ x \in Sock /\ x.tab = sock[s].tab /\ x.ws = "closed" /\ x.srv = sock[s].srv
        /\ x.out = <<>> /\ x.up = sock[s].up /\ x.told = sock[s].told
    BY <2>1 DEF Sock
  <2>3. sock' = [sock EXCEPT ![s] = x] BY <1>2 DEF Closed
  <2> HIDE DEF x
  <2>4. QED BY <1>2, <2>2, <2>3, OneSock DEF Becomes
<1>3. QED BY <1>1, <1>2

LEMMA ReadStep ==
  ASSUME TypeOK, NEW s \in Sockets, Read(s)
  PROVE  LET frame == Head(sock[s].out) IN
         /\ sock[s].ws = "open" /\ sock[s].out # <<>> /\ frame \in Seq(Places)
         /\ Becomes(s, sock[s].tab, "open", sock[s].srv, Tail(sock[s].out), sock[s].up,
                    sock[s].told \/ frame = Ready)
<1> DEFINE x == [sock[s] EXCEPT !.out = Tail(@), !.told = @ \/ Head(sock[s].out) = Ready]
<1>1. sock[s] \in Sock BY DEF TypeOK
<1>2. sock[s].out \in Seq(Seq(Places)) /\ sock[s].told \in BOOLEAN BY <1>1, SockFields
<1>3. sock[s].out # <<>> /\ sock[s].ws = "open" BY DEF Read, Open
<1>4. Tail(sock[s].out) \in Seq(Seq(Places)) /\ Head(sock[s].out) \in Seq(Places)
  BY <1>2, <1>3, HeadTailProperties
<1>5. /\ x \in Sock /\ x.tab = sock[s].tab /\ x.ws = sock[s].ws /\ x.srv = sock[s].srv
      /\ x.out = Tail(sock[s].out) /\ x.up = sock[s].up
      /\ x.told = (sock[s].told \/ Head(sock[s].out) = Ready)
  BY <1>1, <1>2, <1>4 DEF Sock
<1>6. sock' = [sock EXCEPT ![s] = x] BY DEF Read
<1> HIDE DEF x
<1>7. QED BY <1>3, <1>4, <1>5, <1>6, OneSock DEF Becomes

LEMMA SendStep ==
  ASSUME TypeOK, NEW t \in Tabs, Send(t)
  PROVE  LET s == tab[t].wsRef IN
         /\ s \in Sockets /\ sock[s].ws = "open"
         /\ Becomes(s, sock[s].tab, "open", sock[s].srv, sock[s].out, 1, sock[s].told)
<1> DEFINE s == tab[t].wsRef
           x == [sock[s] EXCEPT !.up = 1]
<1>1. s \in Sockets BY DEF TypeOK, Tab, Send
<1>2. sock[s] \in Sock BY <1>1 DEF TypeOK
<1>3. /\ x \in Sock /\ x.tab = sock[s].tab /\ x.ws = sock[s].ws /\ x.srv = sock[s].srv
      /\ x.out = sock[s].out /\ x.up = 1 /\ x.told = sock[s].told
  BY <1>2, UpValues DEF Sock
<1>4. sock' = [sock EXCEPT ![s] = x] /\ sock[s].ws = "open" BY DEF Send, Open
<1> HIDE DEF x
<1>5. QED BY <1>1, <1>3, <1>4, OneSock DEF Becomes

LEMMA AdmitStep ==
  ASSUME TypeOK, NEW s \in Sockets, Admit(s)
  PROVE  /\ sock[s].srv = "auth"
         /\ Becomes(s, sock[s].tab, sock[s].ws, "joined",
                    IF Open(s) THEN Append(sock[s].out, Ready) ELSE sock[s].out,
                    sock[s].up, sock[s].told)
<1> DEFINE o == IF Open(s) THEN Append(sock[s].out, Ready) ELSE sock[s].out
           x == [sock[s] EXCEPT !.srv = "joined", !.out = o]
<1>1. sock[s] \in Sock BY DEF TypeOK
<1>2. o \in Seq(Seq(Places))
  <2>1. sock[s].out \in Seq(Seq(Places)) /\ Ready \in Seq(Places) BY <1>1, SockFields DEF Ready
  <2>2. QED BY <2>1, AppendProperties
<1>3. sock' = [sock EXCEPT ![s] = x] BY DEF Admit
<1> HIDE DEF o
<1>4. /\ x \in Sock /\ x.tab = sock[s].tab /\ x.ws = sock[s].ws /\ x.srv = "joined"
      /\ x.out = o /\ x.up = sock[s].up /\ x.told = sock[s].told
  BY <1>1, <1>2 DEF Sock
<1> HIDE DEF x
<1>5. QED BY <1>3, <1>4, OneSock DEF Admit, Becomes, o

LEMMA ServerClosedStep ==
  ASSUME TypeOK, NEW s \in Sockets, ServerClosed(s)
  PROVE  /\ sock[s].srv \in {"auth", "joined"}
         /\ \/ sock[s].ws = "closed" /\ Freed(s)
            \/ /\ sock[s].ws # "closed"
               /\ Becomes(s, sock[s].tab, sock[s].ws, "closed", sock[s].out, 0, sock[s].told)
<1>0. sock[s].srv \in {"auth", "joined"} BY DEF ServerClosed
<1>1. CASE sock[s].ws = "closed" BY <1>0, <1>1, FreedSock DEF ServerClosed
<1>2. CASE sock[s].ws # "closed"
  <2> DEFINE x == [sock[s] EXCEPT !.srv = "closed", !.up = 0, !.recent = 0]
  <2>1. sock[s] \in Sock /\ 0 \in 0..SendBurst BY Bounds DEF TypeOK
  <2>2. /\ x \in Sock /\ x.tab = sock[s].tab /\ x.ws = sock[s].ws /\ x.srv = "closed"
        /\ x.out = sock[s].out /\ x.up = 0 /\ x.told = sock[s].told
    BY <2>1, UpValues DEF Sock
  <2>3. sock' = [sock EXCEPT ![s] = x] BY <1>2 DEF ServerClosed
  <2> HIDE DEF x
  <2>4. QED BY <1>0, <1>2, <2>2, <2>3, OneSock DEF Becomes
<1>3. QED BY <1>1, <1>2

\* HandleSend and Ages.
LEMMA HandleStep ==
  ASSUME TypeOK, NEW s \in Sockets, HandleSend(s)
  PROVE  /\ sock[s].srv \in {"auth", "joined"}
         /\ Becomes(s, sock[s].tab, sock[s].ws, sock[s].srv, sock[s].out, 0, sock[s].told)
<1> DEFINE x == [sock[s] EXCEPT !.up = 0, !.recent = @ + 1]
           y == [sock[s] EXCEPT !.up = 0]
<1>1. sock[s] \in Sock /\ sock[s].recent \in 0..SendBurst BY SockFields DEF TypeOK
<1>2. /\ y \in Sock /\ y.tab = sock[s].tab /\ y.ws = sock[s].ws /\ y.srv = sock[s].srv
      /\ y.out = sock[s].out /\ y.up = 0 /\ y.told = sock[s].told
  BY <1>1, UpValues DEF Sock
<1>3. /\ x.tab = sock[s].tab /\ x.ws = sock[s].ws /\ x.srv = sock[s].srv
      /\ x.out = sock[s].out /\ x.up = 0 /\ x.told = sock[s].told
  BY <1>1 DEF Sock
<1>4. WithinBurst(s) => x \in Sock
  <2>1. SUFFICES ASSUME WithinBurst(s) PROVE x \in Sock OBVIOUS
  <2>2. sock[s].recent + 1 \in 0..SendBurst BY <1>1, <2>1, Bounds DEF WithinBurst
  <2>3. QED BY <1>1, <2>2, UpValues DEF Sock
<1>5. \/ WithinBurst(s) /\ sock' = [sock EXCEPT ![s] = x]
      \/ sock' = [sock EXCEPT ![s] = y]
  BY DEF HandleSend
<1> HIDE DEF x, y
<1>6. sock[s].srv \in {"auth", "joined"} BY DEF HandleSend
<1>7. QED BY <1>2, <1>3, <1>4, <1>5, <1>6, OneSock DEF Becomes

LEMMA AgesStep ==
  ASSUME TypeOK, NEW s \in Sockets, Ages(s)
  PROVE  Becomes(s, sock[s].tab, sock[s].ws, sock[s].srv, sock[s].out, sock[s].up, sock[s].told)
<1> DEFINE x == [sock[s] EXCEPT !.recent = @ - 1]
<1>1. sock[s] \in Sock /\ sock[s].recent \in 0..SendBurst BY SockFields DEF TypeOK
<1>2. sock[s].recent - 1 \in 0..SendBurst BY <1>1, Bounds DEF Ages
<1>3. /\ x \in Sock /\ x.tab = sock[s].tab /\ x.ws = sock[s].ws /\ x.srv = sock[s].srv
      /\ x.out = sock[s].out /\ x.up = sock[s].up /\ x.told = sock[s].told
  BY <1>1, <1>2 DEF Sock
<1>4. sock' = [sock EXCEPT ![s] = x] BY DEF Ages
<1> HIDE DEF x
<1>5. QED BY <1>3, <1>4, OneSock DEF Becomes

\* A frame goes to sockets of the room, at the end of what is under way.
LEMMA FanoutStep ==
  ASSUME TypeOK, NEW frame \in Seq(Places), Fanout(frame)
  PROVE  /\ sock' \in [Sockets -> Sock]
         /\ \A s \in Sockets :
              /\ sock'[s].tab = sock[s].tab /\ sock'[s].ws = sock[s].ws
              /\ sock'[s].srv = sock[s].srv /\ sock'[s].up = sock[s].up
              /\ sock'[s].told = sock[s].told
              /\ \/ sock'[s] = sock[s]
                 \/ s \in room.sockets /\ sock'[s].out = Append(sock[s].out, frame)
<1>1. ASSUME NEW s \in Sockets
      PROVE  /\ sock'[s] \in Sock
             /\ sock'[s].tab = sock[s].tab /\ sock'[s].ws = sock[s].ws
             /\ sock'[s].srv = sock[s].srv /\ sock'[s].up = sock[s].up
             /\ sock'[s].told = sock[s].told
             /\ \/ sock'[s] = sock[s]
                \/ s \in room.sockets /\ sock'[s].out = Append(sock[s].out, frame)
  <2> DEFINE o == Append(sock[s].out, frame)
             x == [sock[s] EXCEPT !.out = o]
  <2>1. sock[s] \in Sock BY DEF TypeOK
  <2>2. o \in Seq(Seq(Places)) BY <2>1, SockFields, AppendProperties
  <2>3. sock'[s] = sock[s] \/ (s \in room.sockets /\ sock'[s] = x) BY DEF Fanout, Takes
  <2> HIDE DEF o
  <2>4. /\ x \in Sock /\ x.tab = sock[s].tab /\ x.ws = sock[s].ws /\ x.srv = sock[s].srv
        /\ x.out = o /\ x.up = sock[s].up /\ x.told = sock[s].told
    BY <2>1, <2>2 DEF Sock
  <2> HIDE DEF x
  <2>5. QED BY <2>1, <2>3, <2>4 DEF o
<1>2. sock' \in [Sockets -> Sock] BY <1>1 DEF Fanout
<1>3. QED BY <1>1, <1>2
-----------------------------------------------------------------------------
(* The room, the components and svc-chat.                                   *)

LEMMA RoomFields ==
  ASSUME NEW x \in Room
  PROVE  /\ x.up \in {"none", "up", "dying"} /\ x.sub \in BOOLEAN /\ x.sockets \in SUBSET Sockets
         /\ x.queue \in Seq(Places) /\ x.timer \in {"null", "armed", "cleared"} /\ x.drops \in Nat
BY DEF Room

LEMMA NewRooms ==
  /\ NoRoom \in Room /\ NoRoom.sockets = {} /\ NoRoom.queue = <<>>
  /\ NewRoom \in Room /\ NewRoom.sockets = {} /\ NewRoom.queue = <<>>
<1>1. NoRoom \in Room /\ NoRoom.sockets = {} /\ NoRoom.queue = <<>> BY DEF NoRoom, Room
<1>2. NewRoom \in Room /\ NewRoom.sockets = {} /\ NewRoom.queue = <<>>
  BY <1>1 DEF NewRoom, NoRoom, Room
<1>3. QED BY <1>1, <1>2

LEMMA DropsCount == ASSUME TypeOK PROVE Dropped \in Nat
<1>1. room.sockets \subseteq Sockets /\ room.drops \in Nat BY RoomFields DEF TypeOK
<1> DEFINE S == {s \in room.sockets : ~ Takes(s)}
<1>2. S \subseteq Sockets BY <1>1
<1> HIDE DEF S
<1>3. Cardinality(S) \in Nat BY <1>2, Populated, FS_Subset, FS_CardinalityType
<1>4. Dropped = room.drops + Cardinality(S) BY DEF Dropped, S
<1>5. QED BY <1>1, <1>3, <1>4

LEMMA AdmitRoom ==
  ASSUME TypeOK, NEW s \in Sockets, Admit(s)
  PROVE  /\ room' \in Room /\ room'.sockets \subseteq room.sockets \union {s}
         /\ room'.queue \in {room.queue, <<>>}
<1> DEFINE r == IF room.up = "none" THEN NewRoom ELSE room
           x == [r EXCEPT !.sockets = @ \union {s}]
<1>1. room \in Room BY DEF TypeOK
<1>2. r \in Room /\ r.sockets \subseteq room.sockets /\ r.queue \in {room.queue, <<>>}
  BY <1>1, NewRooms
<1>3. room' = x BY DEF Admit
<1> HIDE DEF r
<1>4. x \in Room /\ x.sockets = r.sockets \union {s} /\ x.queue = r.queue BY <1>2 DEF Room
<1> HIDE DEF x
<1>5. QED BY <1>2, <1>3, <1>4

LEMMA ServerClosedRoom ==
  ASSUME TypeOK, NEW s \in Sockets, ServerClosed(s)
  PROVE  room' \in Room /\ room'.sockets = room.sockets \ {s} /\ room'.queue = room.queue
<1> DEFINE l == [room EXCEPT !.sockets = @ \ {s}]
           x == [l EXCEPT !.up = "dying", !.timer = IF @ = "armed" THEN "cleared" ELSE @]
<1>1. room \in Room BY DEF TypeOK
<1>2. l \in Room /\ l.sockets = room.sockets \ {s} /\ l.queue = room.queue BY <1>1 DEF Room
<1>3. room' = x \/ room' = l BY DEF ServerClosed
<1> HIDE DEF l
<1>4. l.timer \in {"null", "armed", "cleared"} BY <1>2, RoomFields
<1>5. x \in Room /\ x.sockets = l.sockets /\ x.queue = l.queue BY <1>2, <1>4 DEF Room
<1> HIDE DEF x
<1>6. QED BY <1>2, <1>3, <1>5

LEMMA UnsubscribedRoom ==
  ASSUME TypeOK, Unsubscribed
  PROVE  /\ room' \in Room /\ room'.sockets \subseteq room.sockets
         /\ room'.queue \in {room.queue, <<>>}
<1> DEFINE x == [room EXCEPT !.sub = FALSE]
<1>1. room \in Room BY DEF TypeOK
<1>2. x \in Room /\ x.sockets = room.sockets /\ x.queue = room.queue BY <1>1 DEF Room
<1>3. room' = x \/ room' = NoRoom BY DEF Unsubscribed
<1> HIDE DEF x
<1>4. QED BY <1>2, <1>3, NewRooms

LEMMA ReceiveRoom ==
  ASSUME TypeOK, Receive
  PROVE  /\ room' \in Room /\ room'.sockets = room.sockets
         /\ wire # <<>> /\ wire \in Seq(Places) /\ wire' = Tail(wire)
         /\ Head(wire) \in Places /\ Tail(wire) \in Seq(Places)
         /\ \/ room.queue = <<>> /\ room'.queue = <<>> /\ Fanout(<<Head(wire)>>)
            \/ room'.queue = Append(room.queue, Head(wire)) /\ sock' = sock
<1> DEFINE h == Head(wire)
           q == Append(room.queue, h)
           x == [room EXCEPT !.timer = Window, !.drops = Dropped]
           y == [room EXCEPT !.queue = q]
<1>1. room \in Room /\ wire \in Seq(Places) /\ wire # <<>> /\ wire' = Tail(wire)
  BY DEF TypeOK, Receive
<1>2. h \in Places /\ Tail(wire) \in Seq(Places) BY <1>1, HeadTailProperties
<1>3. \/ room.queue = <<>> /\ Fanout(<<h>>) /\ room' = x
      \/ room' = y /\ sock' = sock
  BY DEF Receive
<1>4. q \in Seq(Places) BY <1>1, <1>2, RoomFields, AppendProperties
<1>5. x \in Room /\ x.sockets = room.sockets /\ x.queue = room.queue
  <2>1. Window \in {"null", "armed", "cleared"} BY DEF Window
  <2>2. QED BY <1>1, <2>1, DropsCount DEF Room
<1> HIDE DEF q
<1>6. y \in Room /\ y.sockets = room.sockets /\ y.queue = q BY <1>1, <1>4 DEF Room
<1> HIDE DEF x, y
<1>7. QED BY <1>1, <1>2, <1>3, <1>5, <1>6 DEF q

LEMMA WindowRoom ==
  ASSUME TypeOK, WindowEnds
  PROVE  /\ room' \in Room /\ room'.sockets = room.sockets /\ room'.queue = <<>>
         /\ room.queue \in Seq(Places)
         /\ sock' = sock \/ Fanout(room.queue)
<1> DEFINE x == [room EXCEPT !.timer = "null"]
           y == [room EXCEPT !.timer = "null", !.queue = <<>>, !.drops = Dropped]
<1>1. room \in Room BY DEF TypeOK
<1>2. x \in Room /\ x.sockets = room.sockets /\ x.queue = room.queue BY <1>1 DEF Room
<1>3. y \in Room /\ y.sockets = room.sockets /\ y.queue = <<>>
  <2> DEFINE d == Dropped
  <2>1. d \in Nat /\ <<>> \in Seq(Places) BY DropsCount
  <2> HIDE DEF d
  <2>2. [room EXCEPT !.timer = "null", !.queue = <<>>, !.drops = d] \in Room BY <1>1, <2>1 DEF Room
  <2>3. /\ [room EXCEPT !.timer = "null", !.queue = <<>>, !.drops = d].sockets = room.sockets
        /\ [room EXCEPT !.timer = "null", !.queue = <<>>, !.drops = d].queue = <<>>
    BY <1>1 DEF Room
  <2>4. QED BY <2>2, <2>3 DEF d
<1>4. \/ room.queue = <<>> /\ room' = x /\ sock' = sock
      \/ room' = y /\ Fanout(room.queue)
  BY DEF WindowEnds
<1> HIDE DEF x, y
<1>5. QED BY <1>1, <1>2, <1>3, <1>4, RoomFields

LEMMA ReportRoom ==
  ASSUME TypeOK, ReportDrops
  PROVE  room' \in Room /\ room'.sockets = room.sockets /\ room'.queue = room.queue
<1> DEFINE x == [room EXCEPT !.drops = 0]
<1>1. room \in Room BY DEF TypeOK
<1>2. x \in Room /\ x.sockets = room.sockets /\ x.queue = room.queue BY <1>1 DEF Room
<1>3. room' = x BY DEF ReportDrops
<1> HIDE DEF x
<1>4. QED BY <1>2, <1>3

\* What the steps of one component make of it.
TabBecomes(t, mounted, wsRef, connected, retry, renewed) ==
  /\ tab' \in [Tabs -> Tab] /\ \A u \in Tabs \ {t} : tab'[u] = tab[u]
  /\ tab'[t].mounted = mounted /\ tab'[t].wsRef = wsRef /\ tab'[t].connected = connected
  /\ tab'[t].retry = retry /\ tab'[t].renewed = renewed

LEMMA TabFields ==
  ASSUME TypeOK, NEW t \in Tabs
  PROVE  /\ tab[t] \in Tab /\ tab[t].mounted \in BOOLEAN /\ tab[t].wsRef \in Sockets \union {None}
         /\ tab[t].connected \in BOOLEAN /\ tab[t].retry \in BOOLEAN /\ tab[t].renewed \in BOOLEAN
BY DEF TypeOK, Tab

LEMMA TabEdits ==
  ASSUME TypeOK, NEW t \in Tabs
  PROVE  /\ \A s \in Sockets : Connect(t) /\ tab' = [tab EXCEPT ![t].wsRef = s, ![t].retry = FALSE]
              => TabBecomes(t, tab[t].mounted, s, tab[t].connected, FALSE, tab[t].renewed)
         /\ \A s \in Sockets :
              tab' = [tab EXCEPT ![t].wsRef = s, ![t].retry = FALSE, ![t].renewed = TRUE]
              => TabBecomes(t, tab[t].mounted, s, tab[t].connected, FALSE, TRUE)
         /\ Unmount(t) => TabBecomes(t, FALSE, tab[t].wsRef, FALSE, FALSE, tab[t].renewed)
<1>1. tab[t] \in Tab /\ tab \in [Tabs -> Tab] BY DEF TypeOK
<1>2. ASSUME NEW s \in Sockets, tab' = [tab EXCEPT ![t].wsRef = s, ![t].retry = FALSE]
      PROVE  TabBecomes(t, tab[t].mounted, s, tab[t].connected, FALSE, tab[t].renewed)
  <2> DEFINE x == [tab[t] EXCEPT !.wsRef = s, !.retry = FALSE]
  <2>1. /\ x \in Tab /\ x.mounted = tab[t].mounted /\ x.wsRef = s
        /\ x.connected = tab[t].connected /\ x.retry = FALSE /\ x.renewed = tab[t].renewed
    BY <1>1 DEF Tab
  <2>2. tab' = [tab EXCEPT ![t] = x] BY <1>2
  <2> HIDE DEF x
  <2>3. QED BY <1>1, <2>1, <2>2 DEF TabBecomes
<1>3. ASSUME NEW s \in Sockets,
             tab' = [tab EXCEPT ![t].wsRef = s, ![t].retry = FALSE, ![t].renewed = TRUE]
      PROVE  TabBecomes(t, tab[t].mounted, s, tab[t].connected, FALSE, TRUE)
  <2> DEFINE x == [tab[t] EXCEPT !.wsRef = s, !.retry = FALSE, !.renewed = TRUE]
  <2>1. /\ x \in Tab /\ x.mounted = tab[t].mounted /\ x.wsRef = s
        /\ x.connected = tab[t].connected /\ x.retry = FALSE /\ x.renewed = TRUE
    BY <1>1 DEF Tab
  <2>2. tab' = [tab EXCEPT ![t] = x] BY <1>3
  <2> HIDE DEF x
  <2>3. QED BY <1>1, <2>1, <2>2 DEF TabBecomes
<1>4. ASSUME Unmount(t) PROVE TabBecomes(t, FALSE, tab[t].wsRef, FALSE, FALSE, tab[t].renewed)
  <2> DEFINE x == [tab[t] EXCEPT !.mounted = FALSE, !.retry = FALSE, !.connected = FALSE]
  <2>1. /\ x \in Tab /\ x.mounted = FALSE /\ x.wsRef = tab[t].wsRef
        /\ x.connected = FALSE /\ x.retry = FALSE /\ x.renewed = tab[t].renewed
    BY <1>1 DEF Tab
  <2>2. tab' = [tab EXCEPT ![t] = x] BY <1>4 DEF Unmount
  <2> HIDE DEF x
  <2>3. QED BY <1>1, <2>1, <2>2 DEF TabBecomes
<1>5. QED BY <1>2, <1>3, <1>4

LEMMA ClosedTab ==
  ASSUME TypeOK, NEW s \in Sockets, Closed(s), sock[s].tab \in Tabs
  PROVE  LET t == sock[s].tab IN
         \/ ~ tab[t].mounted /\ tab' = tab
         \/ /\ tab[t].mounted
            /\ TabBecomes(t, TRUE, IF tab[t].wsRef = s THEN None ELSE tab[t].wsRef, FALSE,
                          tab[t].retry \/ tab[t].wsRef = s, tab[t].renewed)
<1> DEFINE t == sock[s].tab
<1>1. tab[t] \in Tab /\ tab \in [Tabs -> Tab] /\ t \in Tabs BY DEF TypeOK
<1>2. CASE ~ tab[t].mounted BY <1>2 DEF Closed
<1>3. CASE tab[t].mounted
  <2> DEFINE w == IF tab[t].wsRef = s THEN None ELSE tab[t].wsRef
             x == [tab[t] EXCEPT !.connected = FALSE, !.retry = @ \/ tab[t].wsRef = s, !.wsRef = w]
  <2>1. w \in Sockets \union {None} BY TabFields
  <2>2. tab' = [tab EXCEPT ![t] = x] BY <1>1, <1>3 DEF Closed, AfterClose
  <2> HIDE DEF w
  <2>3. /\ x \in Tab /\ x.mounted = tab[t].mounted /\ x.wsRef = w
        /\ x.connected = FALSE /\ x.retry = (tab[t].retry \/ tab[t].wsRef = s)
        /\ x.renewed = tab[t].renewed
    BY <1>1, <2>1 DEF Tab
  <2> HIDE DEF x, t
  <2>4. tab[t].mounted = TRUE BY <1>1, <1>3, TabFields
  <2>5. QED BY <1>1, <1>3, <2>2, <2>3, <2>4 DEF TabBecomes, w, t
<1>4. QED BY <1>2, <1>3

LEMMA ReadTab ==
  ASSUME TypeOK, NEW s \in Sockets, Read(s), sock[s].tab \in Tabs
  PROVE  LET t == sock[s].tab IN
         TabBecomes(t, tab[t].mounted, tab[t].wsRef,
                    tab[t].connected \/ Head(sock[s].out) = Ready, tab[t].retry, tab[t].renewed)
<1> DEFINE t == sock[s].tab
           x == [tab[t] EXCEPT !.connected = @ \/ Head(sock[s].out) = Ready]
<1>1. tab[t] \in Tab /\ tab \in [Tabs -> Tab] /\ t \in Tabs BY DEF TypeOK
<1>2. /\ x \in Tab /\ x.mounted = tab[t].mounted /\ x.wsRef = tab[t].wsRef
      /\ x.connected = (tab[t].connected \/ Head(sock[s].out) = Ready)
      /\ x.retry = tab[t].retry /\ x.renewed = tab[t].renewed
  BY <1>1 DEF Tab
<1>3. tab' = [tab EXCEPT ![t] = x] BY DEF Read
<1> HIDE DEF x
<1>4. QED BY <1>1, <1>2, <1>3 DEF TabBecomes

LEMMA EventsTyped ==
  ASSUME TypeOK, Usual \/ Planned \/ Failure
  PROVE  events' \in 0..MaxEvents /\ failed' \in BOOLEAN
<1>1. events \in 0..MaxEvents /\ MaxEvents \in Nat /\ failed \in BOOLEAN BY Bounds DEF TypeOK
<1>2. events' = events \/ (events < MaxEvents /\ events' = events + 1)
  BY DEF Usual, Planned, Failure, Event
<1>3. failed' = failed \/ failed' = TRUE BY DEF Usual, Planned, Failure
<1>4. events' \in 0..MaxEvents BY <1>1, <1>2
<1>5. failed' \in BOOLEAN BY <1>1, <1>3
<1>6. QED BY <1>4, <1>5

\* A call of send in its next phase.
LEMMA ToStep ==
  ASSUME TypeOK, NEW r \in Requests,
         NEW phase \in {"idle", "ban", "slow", "slot", "publish"}, To(r, phase)
  PROVE  /\ req' \in [Requests -> Req] /\ \A x \in Requests \ {r} : req'[x] = req[x]
         /\ req'[r].phase = phase /\ req'[r].user = req[r].user /\ req'[r].took = req[r].took
<1> DEFINE x == [req[r] EXCEPT !.phase = phase]
<1>1. req \in [Requests -> Req] /\ req[r] \in Req BY DEF TypeOK
<1>2. /\ x \in Req /\ x.phase = phase /\ x.user = req[r].user /\ x.took = req[r].took
  BY <1>1 DEF Req
<1>3. req' = [req EXCEPT ![r] = x] BY DEF To
<1> HIDE DEF x
<1>4. QED BY <1>1, <1>2, <1>3

LEMMA TakeSlotStep ==
  ASSUME TypeOK, NEW r \in Requests, TakeSlot(r)
  PROVE  LET u == req[r].user IN
         /\ req[r].phase = "slot" /\ u \in Tabs
         /\ req' \in [Requests -> Req] /\ \A x \in Requests \ {r} : req'[x] = req[x]
         /\ slot' \in [Tabs -> {"free", "taken", "paid"}]
         /\ \A v \in Tabs \ {u} : slot'[v] = slot[v]
         /\ \/ slot' = slot
            \/ req'[r].phase = "publish" /\ req'[r].took /\ req'[r].user = u
<1> DEFINE u == req[r].user
           x == [req[r] EXCEPT !.phase = "publish", !.took = TRUE]
<1>1. req \in [Requests -> Req] /\ req[r] \in Req BY DEF TypeOK
<1>2. u \in Tabs /\ slot \in [Tabs -> {"free", "taken", "paid"}] BY <1>1 DEF TypeOK, Req
<1>3. x \in Req /\ x.phase = "publish" /\ x.took /\ x.user = u BY <1>1 DEF Req
<1>4. \/ slot' = [slot EXCEPT ![u] = "taken"] /\ req' = [req EXCEPT ![r] = x]
      \/ slot' = [slot EXCEPT ![u] = slot[u]] /\ To(r, "idle")
  BY DEF TakeSlot, Unaffected
<1>5. req[r].phase = "slot" BY DEF TakeSlot
<1> HIDE DEF x, u
<1>6. CASE slot' = [slot EXCEPT ![u] = "taken"] /\ req' = [req EXCEPT ![r] = x]
  BY <1>1, <1>2, <1>3, <1>5, <1>6 DEF u
<1>7. CASE slot' = [slot EXCEPT ![u] = slot[u]] /\ To(r, "idle")
  <2>1. slot' = slot BY <1>2, <1>7
  <2>2. req' \in [Requests -> Req] /\ \A y \in Requests \ {r} : req'[y] = req[y]
    BY <1>7, ToStep
  <2>3. QED BY <1>2, <1>5, <2>1, <2>2 DEF u
<1>8. QED BY <1>4, <1>6, <1>7

\* Publications go on the wire, if the room's subscriber is there.
LEMMA PublishStep ==
  ASSUME TypeOK, said < MaxSaid, NEW n \in 1..2, Publish(n)
  PROVE  /\ said' = said + n /\ said \in Nat
         /\ said' \in 0..(MaxSaid + 1)
         /\ wire' \in Seq(Places)
         /\ wire' = wire \/ wire' = wire \o [i \in 1..n |-> said + i]
<1> DEFINE q == [i \in 1..n |-> said + i]
<1>1. said \in Nat /\ MaxSaid \in Nat /\ said + 2 <= MaxSaid + 1 BY Bounds DEF TypeOK
<1>2. \A i \in 1..n : said + i \in Places BY <1>1 DEF Places
<1>3. q \in Seq(Places) BY <1>2
<1>4. wire \in Seq(Places) BY DEF TypeOK
<1>5. said' = said + n /\ (wire' = wire \/ wire' = wire \o q) BY DEF Publish
<1> HIDE DEF q
<1>6. wire' \in Seq(Places) BY <1>3, <1>4, <1>5, ConcatProperties
<1>7. QED BY <1>1, <1>5, <1>6 DEF q
-----------------------------------------------------------------------------
(* Types.                                                                   *)

LEMMA Owned ==
  ASSUME TypeOK, NEW s \in Sockets, SocketKept(s),
         sock[s].ws # "closed" \/ sock[s].srv # "closed"
  PROVE  sock[s].tab \in Tabs
<1>1. sock[s] \in Sock BY DEF TypeOK
<1>2. sock[s].tab \in Tabs \union {None} BY <1>1, SockFields
<1>3. sock[s] # Free BY FreeSock
<1>4. QED BY <1>2, <1>3 DEF SocketKept

LEMMA ComponentTypes ==
  ASSUME TypeOK, NEW t \in Tabs, Connect(t) \/ NewToken(t) \/ Unmount(t) \/ Send(t)
  PROVE  TypeOK'
<1>1. Usual \/ Planned \/ Failure BY DEF Connect, NewToken, Unmount, Send
<1>2. events' \in 0..MaxEvents /\ failed' \in BOOLEAN BY <1>1, EventsTyped
<1>3. UNCHANGED <<said, wire, room, shown, req, banned, slowmode, slot>>
  BY DEF Connect, NewToken, Unmount, Send, SameServer, chat
<1>4. sock \in [Sockets -> Sock] /\ CloseRef(t) \in [Sockets -> Sock] BY CloseRefIs DEF TypeOK
<1>5. sock' \in [Sockets -> Sock]
  <2>1. CASE Connect(t) BY <1>4, <2>1, DialStep DEF Connect
  <2>2. CASE NewToken(t) BY <1>4, <2>2, DialStep DEF NewToken
  <2>3. CASE Unmount(t) BY <1>4, <2>3 DEF Unmount
  <2>4. CASE Send(t) BY <2>4, SendStep DEF Becomes
  <2>5. QED BY <2>1, <2>2, <2>3, <2>4
<1>6. tab' \in [Tabs -> Tab]
  <2>1. CASE Connect(t) BY <2>1, TabEdits DEF Connect, TabBecomes
  <2>2. CASE NewToken(t) BY <2>2, TabEdits DEF NewToken, TabBecomes
  <2>3. CASE Unmount(t) BY <2>3, TabEdits DEF TabBecomes
  <2>4. CASE Send(t) BY <2>4 DEF Send, TypeOK
  <2>5. QED BY <2>1, <2>2, <2>3, <2>4
<1>7. QED BY <1>2, <1>3, <1>5, <1>6 DEF TypeOK

LEMMA SocketTypes ==
  ASSUME TypeOK, NEW s \in Sockets, SocketKept(s),
         Opened(s) \/ Closed(s) \/ Read(s) \/ Admit(s) \/ ServerClosed(s) \/ HandleSend(s) \/ Ages(s)
  PROVE  TypeOK'
<1>1. Usual \/ Planned \/ Failure
  BY DEF Opened, Closed, Read, Admit, ServerClosed, HandleSend, Ages
<1>2. events' \in 0..MaxEvents /\ failed' \in BOOLEAN BY <1>1, EventsTyped
<1>3. UNCHANGED <<said, wire, banned, slowmode, slot>>
  BY DEF Opened, Closed, Read, Admit, ServerClosed, HandleSend, Ages, SameServer, chat
<1>4. sock' \in [Sockets -> Sock]
  BY OpenedStep, ClosedStep, ReadStep, AdmitStep, ServerClosedStep, HandleStep, AgesStep
     DEF Becomes, Freed
<1>5. room' \in Room
  <2>1. CASE Admit(s) BY <2>1, AdmitRoom
  <2>2. CASE ServerClosed(s) BY <2>2, ServerClosedRoom
  <2>3. CASE room' = room BY <2>3 DEF TypeOK
  <2>4. QED BY <2>1, <2>2, <2>3 DEF Opened, Closed, Read, HandleSend, Ages, SameServer
<1>6. tab' \in [Tabs -> Tab]
  <2>1. CASE Closed(s)
    <3>1. sock[s].tab \in Tabs BY <2>1, Owned DEF Closed
    <3>2. QED BY <2>1, <3>1, ClosedTab DEF TabBecomes, TypeOK
  <2>2. CASE Read(s)
    <3>1. sock[s].tab \in Tabs BY <2>2, Owned DEF Read, Open
    <3>2. QED BY <2>2, <3>1, ReadTab DEF TabBecomes
  <2>3. CASE tab' = tab BY <2>3 DEF TypeOK
  <2>4. QED BY <2>1, <2>2, <2>3 DEF Opened, Admit, ServerClosed, HandleSend, Ages
<1>7. shown' \in [Tabs -> Seq(Places)]
  <2>1. CASE Read(s)
    <3> DEFINE t == sock[s].tab
               q == shown[t] \o Head(sock[s].out)
    <3>1. t \in Tabs BY <2>1, Owned DEF Read, Open
    <3>2. shown \in [Tabs -> Seq(Places)] /\ Head(sock[s].out) \in Seq(Places)
      BY <2>1, ReadStep DEF TypeOK
    <3>3. q \in Seq(Places) BY <3>1, <3>2, ConcatProperties
    <3>4. shown' = [shown EXCEPT ![t] = q] BY <2>1 DEF Read
    <3> HIDE DEF t, q
    <3>5. QED BY <3>1, <3>2, <3>3, <3>4
  <2>2. CASE shown' = shown BY <2>2 DEF TypeOK
  <2>3. QED BY <2>1, <2>2 DEF Opened, Closed, Admit, ServerClosed, HandleSend, Ages
<1>8. req' \in [Requests -> Req]
  <2>1. CASE HandleSend(s)
    <3> DEFINE x == [user |-> sock[s].tab, phase |-> "ban", took |-> FALSE]
    <3>1. req \in [Requests -> Req] BY DEF TypeOK
    <3>2. sock[s].tab \in Tabs BY <2>1, Owned DEF HandleSend
    <3>3. x \in Req BY <3>2 DEF Req
    <3>4. req' = req \/ \E r \in Requests : req' = [req EXCEPT ![r] = x] BY <2>1 DEF HandleSend
    <3> HIDE DEF x
    <3>5. QED BY <3>1, <3>3, <3>4
  <2>2. CASE req' = req BY <2>2 DEF TypeOK
  <2>3. QED BY <2>1, <2>2 DEF Opened, Closed, Read, Admit, ServerClosed, Ages, SameServer, chat
<1>9. QED BY <1>2, <1>3, <1>4, <1>5, <1>6, <1>7, <1>8 DEF TypeOK

LEMMA RequestTypes ==
  ASSUME TypeOK, NEW r \in Requests,
         CheckBan(r) \/ ReadSlow(r) \/ TakeSlot(r) \/ PublishSend(r) \/ SendFails(r)
  PROVE  TypeOK'
<1>1. Usual \/ Planned \/ Failure BY DEF CheckBan, ReadSlow, TakeSlot, PublishSend, SendFails
<1>2. events' \in 0..MaxEvents /\ failed' \in BOOLEAN BY <1>1, EventsTyped
<1>3. UNCHANGED <<room, sock, tab, shown, banned, slowmode>>
  BY DEF CheckBan, ReadSlow, TakeSlot, PublishSend, SendFails, SameEnds
<1>4. said' \in 0..(MaxSaid + 1) /\ wire' \in Seq(Places)
  <2>1. CASE PublishSend(r)
    <3>1. (Publish(1) \/ Publish(2)) /\ said < MaxSaid BY <2>1 DEF PublishSend
    <3>2. 1 \in 1..2 /\ 2 \in 1..2 OBVIOUS
    <3>3. QED BY <3>1, <3>2, PublishStep
  <2>2. CASE UNCHANGED <<said, wire>> BY <2>2 DEF TypeOK
  <2>3. QED BY <2>1, <2>2 DEF CheckBan, ReadSlow, TakeSlot, SendFails, SameEnds
<1>5. req' \in [Requests -> Req]
  <2>1. CASE TakeSlot(r) BY <2>1, TakeSlotStep
  <2>2. CASE \E phase \in {"idle", "ban", "slow", "slot", "publish"} : To(r, phase)
    BY <2>2, ToStep
  <2>3. QED BY <2>1, <2>2 DEF CheckBan, ReadSlow, PublishSend, SendFails
<1>6. slot' \in [Tabs -> {"free", "taken", "paid"}]
  <2>1. CASE TakeSlot(r) BY <2>1, TakeSlotStep
  <2>2. CASE slot' = slot \/ (\E v \in {"taken", "paid"} : slot' = [slot EXCEPT ![req[r].user] = v])
    BY <2>2 DEF TypeOK
  <2>3. QED BY <2>1, <2>2 DEF CheckBan, ReadSlow, PublishSend, SendFails
<1>7. QED BY <1>2, <1>3, <1>4, <1>5, <1>6 DEF TypeOK

LEMMA OtherTypes ==
  ASSUME TypeOK,
         \/ \E u \in Tabs : Ban(u) \/ Unban(u) \/ SlotExpires(u)
         \/ Receive \/ WindowEnds \/ ReportDrops \/ Unsubscribed
         \/ SetSlowmode \/ Elsewhere \/ SubscriberDrops
  PROVE  TypeOK'
<1> USE DEF SameEnds
<1>1. Usual \/ Planned \/ Failure
  BY DEF Ban, Unban, SlotExpires, Receive, WindowEnds, ReportDrops, Unsubscribed, SetSlowmode,
         Elsewhere, SubscriberDrops
<1>2. events' \in 0..MaxEvents /\ failed' \in BOOLEAN BY <1>1, EventsTyped
<1>3. UNCHANGED <<tab, shown, req>>
  BY DEF Ban, Unban, SlotExpires, Receive, WindowEnds, ReportDrops, Unsubscribed, SetSlowmode,
         Elsewhere, SubscriberDrops, chat
<1>4. CASE Receive
  <2>1. Head(wire) \in Places /\ <<Head(wire)>> \in Seq(Places) BY <1>4, ReceiveRoom
  <2>2. sock' \in [Sockets -> Sock] /\ room' \in Room /\ wire' \in Seq(Places)
    BY <1>4, <2>1, ReceiveRoom, FanoutStep DEF TypeOK
  <2>3. UNCHANGED <<said, banned, slowmode, slot>> BY <1>4 DEF Receive, chat
  <2>4. QED BY <1>2, <1>3, <2>2, <2>3 DEF TypeOK
<1>5. CASE WindowEnds
  <2>1. sock' \in [Sockets -> Sock] /\ room' \in Room BY <1>5, WindowRoom, FanoutStep DEF TypeOK
  <2>2. UNCHANGED <<said, wire, banned, slowmode, slot>> BY <1>5 DEF WindowEnds, chat
  <2>3. QED BY <1>2, <1>3, <2>1, <2>2 DEF TypeOK
<1>6. CASE ReportDrops \/ Unsubscribed
  <2>1. room' \in Room BY <1>6, ReportRoom, UnsubscribedRoom
  <2>2. UNCHANGED <<said, wire, sock, banned, slowmode, slot>>
    BY <1>6 DEF ReportDrops, Unsubscribed, chat
  <2>3. QED BY <1>2, <1>3, <2>1, <2>2 DEF TypeOK
<1>7. CASE Elsewhere \/ SubscriberDrops
  <2>1. said' \in 0..(MaxSaid + 1) /\ wire' \in Seq(Places)
    <3>1. CASE Elsewhere
      <4>1. 1 \in 1..2 OBVIOUS
      <4>2. QED BY <3>1, <4>1, PublishStep DEF Elsewhere
    <3>2. CASE SubscriberDrops BY <3>2 DEF SubscriberDrops, TypeOK
    <3>3. QED BY <1>7, <3>1, <3>2
  <2>2. UNCHANGED <<room, sock, banned, slowmode, slot>>
    BY <1>7 DEF Elsewhere, SubscriberDrops, chat
  <2>3. QED BY <1>2, <1>3, <2>1, <2>2 DEF TypeOK
<1>8. CASE SetSlowmode \/ \E u \in Tabs : Ban(u) \/ Unban(u) \/ SlotExpires(u)
  <2>1. UNCHANGED <<said, wire, room, sock>>
    BY <1>8 DEF SetSlowmode, Ban, Unban, SlotExpires
  <2>2. banned' \in [Tabs -> BOOLEAN]
    BY <1>8 DEF SetSlowmode, Ban, Unban, SlotExpires, TypeOK
  <2>3. slot' \in [Tabs -> {"free", "taken", "paid"}]
    BY <1>8 DEF SetSlowmode, Ban, Unban, SlotExpires, TypeOK
  <2>4. slowmode' \in BOOLEAN
    BY <1>8 DEF SetSlowmode, Ban, Unban, SlotExpires, TypeOK
  <2>5. QED BY <1>2, <1>3, <2>1, <2>2, <2>3, <2>4 DEF TypeOK
<1>9. QED BY <1>4, <1>5, <1>6, <1>7, <1>8

LEMMA TypeStep ==
  ASSUME TypeOK, \A s \in Sockets : SocketKept(s), [Next]_vars
  PROVE  TypeOK'
<1>1. CASE UNCHANGED vars BY <1>1 DEF vars, TypeOK
<1>2. CASE Next
  <2>1. CASE \E t \in Tabs : Connect(t) \/ NewToken(t) \/ Unmount(t) \/ Send(t)
    BY <2>1, ComponentTypes
  <2>2. CASE \E s \in Sockets : \/ Opened(s) \/ Closed(s) \/ Read(s)
                                \/ Admit(s) \/ ServerClosed(s) \/ HandleSend(s) \/ Ages(s)
    BY <2>2, SocketTypes
  <2>3. CASE \E r \in Requests :
               CheckBan(r) \/ ReadSlow(r) \/ TakeSlot(r) \/ PublishSend(r) \/ SendFails(r)
    BY <2>3, RequestTypes
  <2>4. QED BY <1>2, <2>1, <2>2, <2>3, OtherTypes DEF Next
<1>3. QED BY <1>1, <1>2
-----------------------------------------------------------------------------
(* Slow mode.                                                               *)

\* A taken slot whose message is about to be published.
Paying(u, r) == req[r].user = u /\ req[r].took /\ req[r].phase = "publish"

LEMMA SlotStep ==
  ASSUME TypeOK, SlotEarned, [Next]_vars
  PROVE  SlotEarned'
<1>1. SUFFICES ASSUME ~ failed', NEW u \in Tabs, slot'[u] = "taken"
               PROVE  \E r \in Requests : Paying(u, r)'
  BY DEF SlotEarned, Paying
<1> DEFINE Kept(r) == req'[r] = req[r]
<1>2. ASSUME NEW r \in Requests, Paying(u, r), Kept(r) PROVE Paying(u, r)'
  BY <1>2 DEF Paying
<1>3. ~ Failure BY <1>1 DEF Failure
<1>4. ASSUME ~ failed, slot[u] = "taken" PROVE \E r \in Requests : Paying(u, r)
  BY <1>4 DEF SlotEarned, Paying
<1>5. CASE UNCHANGED <<req, slot, failed>> BY <1>1, <1>2, <1>4, <1>5
<1>6. ASSUME NEW t \in Tabs, Connect(t) \/ NewToken(t) \/ Unmount(t) \/ Send(t)
      PROVE  UNCHANGED <<req, slot, failed>>
  BY <1>6 DEF Connect, NewToken, Unmount, Send, SameServer, chat, Usual, Planned
<1>7. ASSUME NEW s \in Sockets, \/ Opened(s) \/ Closed(s) \/ Read(s)
                                \/ Admit(s) \/ ServerClosed(s) \/ Ages(s)
      PROVE  UNCHANGED <<req, slot, failed>>
  BY <1>3, <1>7 DEF Opened, Closed, Read, Admit, ServerClosed, Ages, SameServer, chat, Usual
<1>8. ASSUME NEW s \in Sockets, HandleSend(s) PROVE \E r \in Requests : Paying(u, r)'
  <2>1. ~ failed /\ slot' = slot BY <1>1, <1>8 DEF HandleSend, Usual
  <2>2. PICK r \in Requests : Paying(u, r) BY <1>1, <1>4, <2>1
  <2>3. Kept(r)
    <3>1. req \in [Requests -> Req] BY DEF TypeOK
    <3>2. CASE req' = req BY <3>2
    <3>3. CASE req' # req
      <4> DEFINE x == [user |-> sock[s].tab, phase |-> "ban", took |-> FALSE]
      <4>1. PICK q \in Requests : req[q].phase = "idle" /\ req' = [req EXCEPT ![q] = x]
        BY <1>8, <3>3 DEF HandleSend
      <4> HIDE DEF x
      <4>2. q # r BY <2>2, <4>1 DEF Paying
      <4>3. QED BY <3>1, <4>1, <4>2
    <3>4. QED BY <3>2, <3>3
  <2>4. QED BY <1>2, <2>2, <2>3
<1>9. ASSUME NEW q \in Requests, CheckBan(q) \/ ReadSlow(q)
      PROVE  \E r \in Requests : Paying(u, r)'
  <2>1. ~ failed /\ slot' = slot /\ req[q].phase # "publish"
    BY <1>1, <1>9 DEF CheckBan, ReadSlow, Usual
  <2>2. PICK r \in Requests : Paying(u, r) BY <1>1, <1>4, <2>1
  <2>3. r # q BY <2>1, <2>2 DEF Paying
  <2>4. \E phase \in {"idle", "ban", "slow", "slot", "publish"} : To(q, phase)
    BY <1>9 DEF CheckBan, ReadSlow
  <2>5. QED BY <1>2, <2>2, <2>3, <2>4, ToStep
<1>10. ASSUME NEW q \in Requests, TakeSlot(q) PROVE \E r \in Requests : Paying(u, r)'
  <2>1. ~ failed /\ req[q].phase = "slot" BY <1>1, <1>10, TakeSlotStep DEF TakeSlot, Usual
  <2>2. CASE slot'[u] = slot[u]
    <3>1. PICK r \in Requests : Paying(u, r) BY <1>1, <1>4, <2>1, <2>2
    <3>2. r # q BY <2>1, <3>1 DEF Paying
    <3>3. QED BY <1>2, <1>10, <3>1, <3>2, TakeSlotStep
  <2>3. CASE slot'[u] # slot[u]
    <3>1. u = req[q].user /\ slot' # slot BY <1>10, <2>3, TakeSlotStep
    <3>2. QED BY <1>10, <3>1, TakeSlotStep DEF Paying
  <2>4. QED BY <2>2, <2>3
<1>11. ASSUME NEW q \in Requests, PublishSend(q) PROVE \E r \in Requests : Paying(u, r)'
  <2> DEFINE v == req[q].user
  <2>1. ~ failed BY <1>1, <1>3, <1>11 DEF PublishSend, Usual
  <2>2. slot' = IF req[q].took /\ slot[v] = "taken" THEN [slot EXCEPT ![v] = "paid"] ELSE slot
    BY <1>11 DEF PublishSend
  <2>3. slot \in [Tabs -> {"free", "taken", "paid"}] BY DEF TypeOK
  <2>4. slot[u] = "taken" /\ ~ (u = v /\ req[q].took) BY <1>1, <2>2, <2>3
  <2>5. PICK r \in Requests : Paying(u, r) BY <1>4, <2>1, <2>4
  <2>6. r # q BY <2>4, <2>5 DEF Paying
  <2>7. To(q, "idle") BY <1>11 DEF PublishSend
  <2>8. QED BY <1>2, <2>5, <2>6, <2>7, ToStep
<1>12. ASSUME NEW v \in Tabs, SlotExpires(v) PROVE \E r \in Requests : Paying(u, r)'
  <2>1. ~ failed /\ req' = req /\ slot' = [slot EXCEPT ![v] = "free"]
    BY <1>1, <1>12 DEF SlotExpires, Usual
  <2>2. slot \in [Tabs -> {"free", "taken", "paid"}] BY DEF TypeOK
  <2>3. slot[u] = "taken" BY <1>1, <2>1, <2>2
  <2>4. QED BY <1>2, <1>4, <2>1, <2>3
<1>13. ASSUME \/ \E v \in Tabs : Ban(v) \/ Unban(v)
              \/ Receive \/ WindowEnds \/ ReportDrops \/ Unsubscribed \/ SetSlowmode \/ Elsewhere
       PROVE  UNCHANGED <<req, slot, failed>>
  BY <1>13 DEF Ban, Unban, Receive, WindowEnds, ReportDrops, Unsubscribed, SetSlowmode, Elsewhere,
               chat, Usual, Planned
<1>14. CASE UNCHANGED vars BY <1>5, <1>14 DEF vars
<1>15. ~ SubscriberDrops /\ \A q \in Requests : ~ SendFails(q)
  BY <1>3 DEF SubscriberDrops, SendFails
<1>16. QED
  BY <1>5, <1>6, <1>7, <1>8, <1>9, <1>10, <1>11, <1>12, <1>13, <1>14, <1>15 DEF Next
-----------------------------------------------------------------------------
(* Both ends of the connections.                                            *)

\* A socket, and a component, that a step leaves alone.
LEMMA OtherSocket ==
  ASSUME TypeOK, NEW y \in Sockets, SocketKept(y), sock'[y] = sock[y],
         y \in room'.sockets => y \in room.sockets,
         Live(y) => tab'[sock[y].tab].mounted /\ tab'[sock[y].tab].wsRef = y,
         \A u \in Tabs : tab[u].renewed => tab'[u].renewed
  PROVE  SocketKept(y)'
<1>1. sock[y].tab = None => sock[y] = Free BY DEF SocketKept
<1>2. sock[y].up = 1 => sock[y].tab \in Tabs
  <2>1. sock[y] \in Sock BY DEF TypeOK
  <2>2. QED BY <1>1, <2>1, FreeSock, SockFields
<1>3. QED BY <1>1, <1>2 DEF SocketKept, Live

LEMMA OtherTab ==
  ASSUME NEW u \in Tabs, TabKept(u), tab'[u] = tab[u],
         tab[u].wsRef \in Sockets \union {None},
         \A x \in Sockets : sock[x].tab = u /\ sock[x].ws # "closed"
           => sock'[x].tab = u /\ sock'[x].ws # "closed" /\ sock'[x].told = sock[x].told,
         \A x \in Sockets : sock'[x].tab = u /\ sock'[x].ws # "closed"
           => sock[x].tab = u /\ sock[x].ws # "closed"
  PROVE  TabKept(u)'
BY DEF TabKept

\* One socket changes, no component does: it stays with its tab, open or not,
\* and was told what it was told.
LEMMA OneEnd ==
  ASSUME TypeOK, EndsKept, NEW s \in Sockets, SocketKept(s)', tab' = tab,
         \A y \in Sockets \ {s} : sock'[y] = sock[y],
         \A y \in Sockets \ {s} : y \in room'.sockets => y \in room.sockets,
         \/ sock[s].ws = "closed" /\ sock'[s].ws = "closed"
         \/ /\ sock'[s].tab = sock[s].tab /\ sock'[s].told = sock[s].told
            /\ sock[s].ws # "closed" /\ sock'[s].ws # "closed"
  PROVE  EndsKept'
<1>1. ASSUME NEW y \in Sockets PROVE SocketKept(y)'
  <2>1. CASE y = s BY <2>1
  <2>2. CASE y # s
    <3>1. SocketKept(y) /\ (Live(y) => tab'[sock[y].tab].mounted /\ tab'[sock[y].tab].wsRef = y)
      BY DEF EndsKept, SocketKept
    <3>2. QED BY <2>2, <3>1, OtherSocket
  <2>3. QED BY <2>1, <2>2
<1>2. ASSUME NEW u \in Tabs PROVE TabKept(u)'
  <2>1. TabKept(u) /\ tab'[u] = tab[u] /\ tab[u].wsRef \in Sockets \union {None}
    BY TabFields DEF EndsKept
  <2>2. ASSUME NEW x \in Sockets
        PROVE  /\ sock[x].tab = u /\ sock[x].ws # "closed"
                  => sock'[x].tab = u /\ sock'[x].ws # "closed" /\ sock'[x].told = sock[x].told
               /\ sock'[x].tab = u /\ sock'[x].ws # "closed"
                  => sock[x].tab = u /\ sock[x].ws # "closed"
    <3>1. CASE x = s BY <3>1
    <3>2. CASE x # s BY <3>2
    <3>3. QED BY <3>1, <3>2
  <2>3. QED BY <2>1, <2>2, OtherTab
<1>3. QED BY <1>1, <1>2 DEF EndsKept

LEMMA OpenedEnds == ASSUME TypeOK, EndsKept, NEW s \in Sockets, Opened(s) PROVE EndsKept'
<1>1. SocketKept(s) /\ sock[s].ws = "connecting" BY OpenedStep DEF EndsKept
<1>2. Becomes(s, sock[s].tab, "open", "auth", sock[s].out, sock[s].up, sock[s].told)
  BY OpenedStep
<1>3. tab' = tab /\ room' = room BY DEF Opened, SameServer
<1>4. sock[s].tab \in Tabs BY <1>1, Owned
<1>5. SocketKept(s)'
  BY <1>1, <1>2, <1>3, <1>4, NoneIsNobody DEF Becomes, SocketKept, Live
<1>6. QED BY <1>1, <1>2, <1>3, <1>5, OneEnd DEF Becomes

LEMMA AdmitEnds == ASSUME TypeOK, EndsKept, NEW s \in Sockets, Admit(s) PROVE EndsKept'
<1> DEFINE o == IF Open(s) THEN Append(sock[s].out, Ready) ELSE sock[s].out
<1>1. SocketKept(s) /\ sock[s].srv = "auth" BY AdmitStep DEF EndsKept
<1>2. Becomes(s, sock[s].tab, sock[s].ws, "joined", o, sock[s].up, sock[s].told) BY AdmitStep
<1> HIDE DEF o
<1>3. tab' = tab /\ room'.sockets \subseteq room.sockets \union {s} BY AdmitRoom DEF Admit
<1>4. sock[s].tab \in Tabs BY <1>1, Owned
<1>5. SocketKept(s)'
  BY <1>1, <1>2, <1>3, <1>4, NoneIsNobody DEF Becomes, SocketKept, Live
<1>6. QED BY <1>1, <1>2, <1>3, <1>5, OneEnd DEF Becomes

LEMMA ServerClosedEnds ==
  ASSUME TypeOK, EndsKept, NEW s \in Sockets, ServerClosed(s) PROVE EndsKept'
<1>1. SocketKept(s) /\ sock[s].srv \in {"auth", "joined"} BY ServerClosedStep DEF EndsKept
<1>2. tab' = tab /\ room'.sockets = room.sockets \ {s} BY ServerClosedRoom DEF ServerClosed
<1>3. sock[s].tab \in Tabs BY <1>1, Owned
<1>4. CASE sock[s].ws = "closed" /\ Freed(s)
  <2>1. SocketKept(s)' BY <1>2, <1>4, FreeSock DEF Freed, Becomes, SocketKept, Live
  <2>2. QED BY <1>2, <1>4, <2>1, OneEnd DEF Freed, Becomes
<1>5. CASE /\ sock[s].ws # "closed"
           /\ Becomes(s, sock[s].tab, sock[s].ws, "closed", sock[s].out, 0, sock[s].told)
  <2>1. SocketKept(s)'
    BY <1>1, <1>2, <1>3, <1>5, NoneIsNobody DEF Becomes, SocketKept, Live
  <2>2. QED BY <1>2, <1>5, <2>1, OneEnd DEF Becomes
<1>6. QED BY <1>4, <1>5, ServerClosedStep

LEMMA HandleEnds ==
  ASSUME TypeOK, EndsKept, NEW s \in Sockets, HandleSend(s) \/ Ages(s) PROVE EndsKept'
<1>1. SocketKept(s) /\ sock[s] \in Sock BY DEF EndsKept, TypeOK
<1>2. tab' = tab /\ room' = room BY DEF HandleSend, Ages, SameServer
<1>3. sock[s].tab \in Tabs
  <2>1. CASE HandleSend(s) BY <1>1, <2>1, Owned, HandleStep
  <2>2. CASE Ages(s)
    <3>1. sock[s] # Free BY <2>2 DEF Ages, Free
    <3>2. QED BY <1>1, <3>1, SockFields DEF SocketKept
  <2>3. QED BY <2>1, <2>2
<1>4. PICK up \in {sock[s].up, 0} :
        Becomes(s, sock[s].tab, sock[s].ws, sock[s].srv, sock[s].out, up, sock[s].told)
  BY HandleStep, AgesStep
<1>5. SocketKept(s)'
  BY <1>1, <1>2, <1>3, <1>4, NoneIsNobody DEF Becomes, SocketKept, Live
<1>6. QED BY <1>2, <1>4, <1>5, OneEnd DEF Becomes

LEMMA SendEnds == ASSUME TypeOK, EndsKept, NEW t \in Tabs, Send(t) PROVE EndsKept'
<1>0. PICK s \in Sockets : s = tab[t].wsRef BY SendStep
<1>1. /\ sock[s].ws = "open"
      /\ Becomes(s, sock[s].tab, "open", sock[s].srv, sock[s].out, 1, sock[s].told)
  BY <1>0, SendStep
<1>2. SocketKept(s) /\ TabKept(t) BY <1>1 DEF EndsKept
<1>3. s = tab[t].wsRef /\ s # None /\ tab[t].mounted /\ tab[t].connected BY <1>0 DEF Send
<1>4. tab' = tab /\ room' = room BY DEF Send, SameServer
<1>5. sock[s].tab = t BY <1>2, <1>3 DEF TabKept
<1>6. sock[s].srv = "auth" => tab[t].renewed BY <1>2, <1>3 DEF SocketKept, TabKept
<1>7. SocketKept(s)'
  BY <1>1, <1>2, <1>4, <1>5, <1>6, NoneIsNobody DEF Becomes, SocketKept, Live
<1>8. QED BY <1>1, <1>4, <1>7, OneEnd DEF Becomes

\* The cleanup before a step of t: every other socket keeps its tab, and no
\* live one is t's.
LEMMA CloseRefEnds ==
  ASSUME TypeOK, EndsKept, NEW t \in Tabs, tab[t].mounted, NEW y \in Sockets
  PROVE  LET c == CloseRef(t)[y] IN
         /\ c.tab = sock[y].tab /\ c.told = sock[y].told /\ c.srv = sock[y].srv
         /\ c.out = sock[y].out /\ c.up = sock[y].up
         /\ c.ws = "closed" <=> sock[y].ws = "closed"
         /\ c.ws = "open" => sock[y].ws = "open"
         /\ c.ws = "connecting" => sock[y].ws = "connecting"
         /\ c.ws \in {"connecting", "open"} => sock[y].tab # t
         /\ c = sock[y] \/ sock[y].ws # "closed"
<1>1. SocketKept(y) BY DEF EndsKept
<1>2. Live(y) /\ sock[y].tab = t => y = tab[t].wsRef BY <1>1 DEF SocketKept
<1>3. CASE CloseRef(t)[y] = sock[y] /\ (y = tab[t].wsRef => ~ Live(y)) BY <1>2, <1>3 DEF Live
<1>4. CASE /\ y = tab[t].wsRef /\ Live(y) /\ CloseRef(t)[y].ws = "closing"
           /\ CloseRef(t)[y].tab = sock[y].tab /\ CloseRef(t)[y].srv = sock[y].srv
           /\ CloseRef(t)[y].out = sock[y].out /\ CloseRef(t)[y].up = sock[y].up
           /\ CloseRef(t)[y].told = sock[y].told
  BY <1>4 DEF Live
<1>5. QED BY <1>3, <1>4, CloseRefIs

\* A socket that is not the new one, after the cleanup or without it.
LEMMA DialledEnds ==
  ASSUME TypeOK, EndsKept, NEW t \in Tabs, NEW y \in Sockets, room' = room,
         /\ sock'[y].tab = sock[y].tab /\ sock'[y].told = sock[y].told
         /\ sock'[y].srv = sock[y].srv /\ sock'[y].out = sock[y].out /\ sock'[y].up = sock[y].up
         /\ sock'[y].ws = "closed" <=> sock[y].ws = "closed"
         /\ sock'[y].ws = "open" => sock[y].ws = "open"
         /\ sock'[y].ws = "connecting" => sock[y].ws = "connecting"
         /\ sock'[y].ws \in {"connecting", "open"} => sock[y].tab # t
         /\ sock'[y] = sock[y] \/ sock[y].ws # "closed",
         \A u \in Tabs \ {t} : tab'[u] = tab[u], tab[t].renewed => tab'[t].renewed
  PROVE  SocketKept(y)'
<1>1. SocketKept(y) /\ sock[y] \in Sock BY DEF EndsKept, TypeOK
<1>2. sock[y].tab \in Tabs \union {None} BY <1>1, SockFields
<1>3. sock[y].tab = None => sock'[y] = Free BY <1>1, FreeSock DEF SocketKept
<1>4. sock'[y].ws \in {"connecting", "open"} => sock[y].tab \in Tabs \ {t}
  BY <1>1, <1>2, FreeSock DEF SocketKept
<1>5. sock[y].tab \in Tabs /\ tab[sock[y].tab].renewed => tab'[sock[y].tab].renewed OBVIOUS
<1>6. sock'[y].up = 1 => sock[y].tab \in Tabs
  <2>1. sock[y].up = 1 => sock[y] # Free BY FreeSock
  <2>2. QED BY <1>1, <1>2, <2>1 DEF SocketKept
<1>7. QED BY <1>1, <1>3, <1>4, <1>5, <1>6 DEF SocketKept, Live

\* Another component: its sockets are as open as they were.
LEMMA DialledTab ==
  ASSUME TypeOK, EndsKept, NEW t \in Tabs, NEW u \in Tabs \ {t}, tab'[u] = tab[u],
         \A x \in Sockets : sock[x].tab = u \/ sock'[x].tab = u =>
           /\ sock'[x].tab = sock[x].tab /\ sock'[x].told = sock[x].told
           /\ sock'[x].ws = "closed" <=> sock[x].ws = "closed"
  PROVE  TabKept(u)'
<1>1. TabKept(u) /\ tab[u].wsRef \in Sockets \union {None} BY TabFields DEF EndsKept
<1>2. QED BY <1>1, OtherTab

LEMMA ConnectEnds == ASSUME TypeOK, EndsKept, NEW t \in Tabs, Connect(t) PROVE EndsKept'
<1>1. tab[t].mounted /\ tab[t].retry /\ room' = room BY DEF Connect, SameServer
<1>2. PICK n \in Sockets : /\ Dial(t, n, sock)
                           /\ tab' = [tab EXCEPT ![t].wsRef = n, ![t].retry = FALSE]
  BY DEF Connect
<1>3. /\ sock[n] = Free /\ sock' \in [Sockets -> Sock]
      /\ sock'[n].tab = t /\ sock'[n].ws = "connecting" /\ sock'[n].srv = "none"
      /\ sock'[n].out = <<>> /\ sock'[n].up = 0 /\ ~ sock'[n].told
      /\ \A y \in Sockets \ {n} : sock'[y] = sock[y]
  BY <1>2, DialStep DEF TypeOK
<1>4. TabBecomes(t, tab[t].mounted, n, tab[t].connected, FALSE, tab[t].renewed)
  BY <1>2, TabEdits
<1>5. TabKept(t) /\ tab[t].wsRef = None BY <1>1 DEF EndsKept, TabKept
<1>6. ASSUME NEW x \in Sockets, sock[x].tab = t PROVE ~ Live(x)
  BY <1>1, <1>5, <1>6, NoneIsNobody DEF EndsKept, SocketKept
<1>7. SocketKept(n)'
  <2>1. n \notin room.sockets BY <1>3, FreeSock DEF EndsKept, SocketKept
  <2>2. tab'[t].mounted /\ tab'[t].wsRef = n BY <1>1, <1>4 DEF TabBecomes
  <2>3. QED BY <1>1, <1>3, <2>1, <2>2, NoneIsNobody DEF SocketKept, Live
<1>8. ASSUME NEW y \in Sockets \ {n} PROVE SocketKept(y)'
  <2>1. sock'[y] = sock[y] /\ (Live(y) => sock[y].tab # t) BY <1>3, <1>6
  <2>2. \A u \in Tabs \ {t} : tab'[u] = tab[u] BY <1>4 DEF TabBecomes
  <2>3. tab[t].renewed => tab'[t].renewed BY <1>4 DEF TabBecomes
  <2>4. QED BY <1>1, <2>1, <2>2, <2>3, DialledEnds DEF Live
<1>9. TabKept(t)'
  <2>1. /\ tab'[t].mounted /\ tab'[t].wsRef = n /\ tab'[t].connected = tab[t].connected
        /\ ~ tab'[t].retry /\ tab'[t].renewed = tab[t].renewed
    BY <1>1, <1>4 DEF TabBecomes
  <2>2. ~ tab[t].renewed =>
          ~ tab[t].connected /\ \A x \in Sockets : ~ (sock[x].tab = t /\ sock[x].ws # "closed")
    BY <1>1, <1>5, NoneIsNobody DEF TabKept
  <2>3. QED BY <1>3, <2>1, <2>2, NoneIsNobody DEF TabKept
<1>10. ASSUME NEW u \in Tabs \ {t} PROVE TabKept(u)'
  <2>1. tab'[u] = tab[u] BY <1>4 DEF TabBecomes
  <2>2. ASSUME NEW x \in Sockets, sock[x].tab = u \/ sock'[x].tab = u PROVE sock'[x] = sock[x]
    BY <1>3, <2>2, FreeSock, NoneIsNobody
  <2>3. QED BY <2>1, <2>2, DialledTab
<1>11. QED BY <1>7, <1>8, <1>9, <1>10 DEF EndsKept

LEMMA NewTokenEnds == ASSUME TypeOK, EndsKept, NEW t \in Tabs, NewToken(t) PROVE EndsKept'
<1>1. tab[t].mounted /\ room' = room BY DEF NewToken, SameServer
<1>2. PICK n \in Sockets :
        /\ Dial(t, n, CloseRef(t))
        /\ tab' = [tab EXCEPT ![t].wsRef = n, ![t].retry = FALSE, ![t].renewed = TRUE]
  BY DEF NewToken
<1>3. /\ sock[n] = Free /\ sock' \in [Sockets -> Sock]
      /\ sock'[n].tab = t /\ sock'[n].ws = "connecting" /\ sock'[n].srv = "none"
      /\ sock'[n].out = <<>> /\ sock'[n].up = 0 /\ ~ sock'[n].told
      /\ \A y \in Sockets \ {n} : sock'[y] = CloseRef(t)[y]
  BY <1>2, DialStep, CloseRefIs
<1>4. TabBecomes(t, tab[t].mounted, n, tab[t].connected, FALSE, TRUE) BY <1>2, TabEdits
<1>5. SocketKept(n)'
  <2>1. n \notin room.sockets BY <1>3, FreeSock DEF EndsKept, SocketKept
  <2>2. tab'[t].mounted /\ tab'[t].wsRef = n BY <1>1, <1>4 DEF TabBecomes
  <2>3. QED BY <1>1, <1>3, <2>1, <2>2, NoneIsNobody DEF SocketKept, Live
<1>6. ASSUME NEW y \in Sockets \ {n} PROVE SocketKept(y)'
  <2>1. sock'[y] = CloseRef(t)[y] BY <1>3
  <2>2. \A u \in Tabs \ {t} : tab'[u] = tab[u] BY <1>4 DEF TabBecomes
  <2>3. tab'[t].renewed BY <1>4 DEF TabBecomes
  <2>4. QED BY <1>1, <2>1, <2>2, <2>3, CloseRefEnds, DialledEnds
<1>7. TabKept(t)'
  <2>1. tab'[t].wsRef = n /\ ~ tab'[t].retry /\ tab'[t].renewed BY <1>4 DEF TabBecomes
  <2>2. QED BY <1>3, <2>1 DEF TabKept
<1>8. ASSUME NEW u \in Tabs \ {t} PROVE TabKept(u)'
  <2>1. tab'[u] = tab[u] BY <1>4 DEF TabBecomes
  <2>2. ASSUME NEW x \in Sockets, sock[x].tab = u \/ sock'[x].tab = u
        PROVE  sock'[x] = CloseRef(t)[x]
    BY <1>3, <2>2, FreeSock, NoneIsNobody
  <2>3. QED BY <1>1, <2>1, <2>2, CloseRefEnds, DialledTab
<1>9. QED BY <1>5, <1>6, <1>7, <1>8 DEF EndsKept

LEMMA UnmountEnds == ASSUME TypeOK, EndsKept, NEW t \in Tabs, Unmount(t) PROVE EndsKept'
<1>1. tab[t].mounted /\ room' = room /\ sock' = CloseRef(t) BY DEF Unmount, SameServer
<1>2. TabBecomes(t, FALSE, tab[t].wsRef, FALSE, FALSE, tab[t].renewed) BY TabEdits
<1>3. \A u \in Tabs \ {t} : tab'[u] = tab[u] BY <1>2 DEF TabBecomes
<1>4. tab[t].renewed => tab'[t].renewed BY <1>2 DEF TabBecomes
<1>5. ASSUME NEW y \in Sockets PROVE SocketKept(y)'
  BY <1>1, <1>3, <1>4, CloseRefEnds, DialledEnds
<1>6. TabKept(t)' BY <1>2 DEF TabBecomes, TabKept
<1>7. ASSUME NEW u \in Tabs \ {t} PROVE TabKept(u)'
  BY <1>1, <1>3, CloseRefEnds, DialledTab
<1>8. QED BY <1>5, <1>6, <1>7 DEF EndsKept

LEMMA ClosedEnds == ASSUME TypeOK, EndsKept, NEW s \in Sockets, Closed(s) PROVE EndsKept'
<1>1. PICK t \in Tabs : t = sock[s].tab BY Owned DEF Closed, EndsKept
<1>2. sock[s].ws # "closed" /\ room' = room /\ SocketKept(s)
  BY DEF Closed, SameServer, EndsKept
<1>3. /\ \A y \in Sockets \ {s} : sock'[y] = sock[y]
      /\ sock'[s].ws = "closed"
  BY ClosedStep DEF Freed, Becomes
<1>4. /\ \A u \in Tabs \ {t} : tab'[u] = tab[u]
      /\ tab'[t].renewed = tab[t].renewed /\ tab'[t].mounted = tab[t].mounted
      /\ tab[t].mounted => /\ tab'[t].wsRef = IF tab[t].wsRef = s THEN None ELSE tab[t].wsRef
                           /\ tab'[t].retry = (tab[t].retry \/ tab[t].wsRef = s)
                           /\ ~ tab'[t].connected
  BY <1>1, ClosedTab, TabFields DEF TabBecomes
<1>5. SocketKept(s)'
  <2>1. CASE sock[s].srv \in {"none", "closed"} /\ Freed(s)
    BY <1>2, <2>1, FreeSock DEF Freed, Becomes, SocketKept, Live
  <2>2. CASE /\ sock[s].srv \notin {"none", "closed"}
             /\ Becomes(s, sock[s].tab, "closed", sock[s].srv, <<>>, sock[s].up, sock[s].told)
    BY <1>1, <1>2, <1>4, <2>2, NoneIsNobody DEF Becomes, SocketKept, Live
  <2>3. QED BY <2>1, <2>2, ClosedStep
<1>6. ASSUME NEW y \in Sockets \ {s} PROVE SocketKept(y)'
  <2>1. SocketKept(y) /\ sock'[y] = sock[y] BY <1>3 DEF EndsKept
  <2>2. Live(y) => tab'[sock[y].tab].mounted /\ tab'[sock[y].tab].wsRef = y
    <3>1. SUFFICES ASSUME Live(y) PROVE tab'[sock[y].tab].mounted /\ tab'[sock[y].tab].wsRef = y
      OBVIOUS
    <3>2. sock[y].tab \in Tabs BY <2>1, <3>1, Owned DEF Live
    <3>3. tab[sock[y].tab].mounted /\ tab[sock[y].tab].wsRef = y BY <2>1, <3>1 DEF SocketKept
    <3>4. QED BY <1>4, <3>2, <3>3
  <2>3. QED BY <1>2, <1>4, <2>1, <2>2, OtherSocket
<1>7. TabKept(t)'
  <2>1. SUFFICES ASSUME tab[t].mounted PROVE TabKept(t)' BY <1>4 DEF TabKept
  <2>2. TabKept(t) BY DEF EndsKept
  <2>3. tab'[t].wsRef # s BY <1>4, <2>1, NoneIsNobody
  <2>4. tab'[t].wsRef # None =>
          tab'[t].wsRef = tab[t].wsRef /\ tab'[t].wsRef \in Sockets \ {s}
    BY <1>4, <2>1, TabFields, NoneIsNobody
  <2>5. tab'[t].wsRef # None =>
          sock'[tab'[t].wsRef].tab = t /\ sock'[tab'[t].wsRef].ws # "closed"
    BY <1>3, <2>1, <2>2, <2>4 DEF TabKept
  <2>6. tab'[t].retry => tab'[t].wsRef = None
    BY <1>4, <2>1, <2>2 DEF TabKept
  <2>7. ~ tab[t].renewed => tab[t].wsRef = s /\ tab'[t].wsRef = None
    BY <1>1, <1>2, <1>4, <2>1, <2>2 DEF TabKept
  <2>8. ~ tab[t].renewed => \A x \in Sockets : ~ (sock'[x].tab = t /\ sock'[x].ws # "closed")
    BY <1>3, <2>1, <2>2, <2>7 DEF TabKept
  <2>9. ~ tab'[t].connected BY <1>4, <2>1
  <2>10. QED BY <1>4, <2>5, <2>6, <2>7, <2>8, <2>9 DEF TabKept
<1>8. ASSUME NEW u \in Tabs \ {t} PROVE TabKept(u)'
  <2>1. TabKept(u) /\ tab'[u] = tab[u] /\ tab[u].wsRef \in Sockets \union {None}
    BY <1>4, TabFields DEF EndsKept
  <2>2. \A x \in Sockets : sock[x].tab = u => sock'[x] = sock[x] BY <1>1, <1>3
  <2>3. \A x \in Sockets : sock'[x].ws # "closed" => sock'[x] = sock[x] BY <1>3
  <2>4. QED BY <2>1, <2>2, <2>3, OtherTab
<1>9. QED BY <1>5, <1>6, <1>7, <1>8 DEF EndsKept

LEMMA ReadEnds == ASSUME TypeOK, EndsKept, NEW s \in Sockets, Read(s) PROVE EndsKept'
<1> DEFINE ready == Head(sock[s].out) = Ready
<1>1. PICK t \in Tabs : t = sock[s].tab BY Owned DEF Read, Open, EndsKept
<1>2. room' = room /\ SocketKept(s) /\ TabKept(t) BY DEF Read, SameServer, EndsKept
<1>3. /\ sock[s].ws = "open" /\ sock[s].out # <<>>
      /\ Becomes(s, t, "open", sock[s].srv, Tail(sock[s].out), sock[s].up, sock[s].told \/ ready)
  BY <1>1, ReadStep
<1>4. TabBecomes(t, tab[t].mounted, tab[t].wsRef, tab[t].connected \/ ready, tab[t].retry,
                 tab[t].renewed)
  BY <1>1, ReadTab
<1> HIDE DEF ready
<1>5. tab[t].mounted /\ tab[t].wsRef = s BY <1>1, <1>2, <1>3 DEF SocketKept, Live
<1>6. sock[s].srv \notin {"none", "auth"} BY <1>2, <1>3 DEF SocketKept
<1>7. SocketKept(s)'
  BY <1>1, <1>2, <1>3, <1>4, <1>5, <1>6, NoneIsNobody DEF Becomes, TabBecomes, SocketKept, Live
<1>8. ASSUME NEW y \in Sockets \ {s} PROVE SocketKept(y)'
  <2>1. SocketKept(y) /\ sock'[y] = sock[y] BY <1>3 DEF EndsKept, Becomes
  <2>2. ASSUME NEW u \in Tabs
        PROVE  /\ tab'[u].mounted = tab[u].mounted /\ tab'[u].wsRef = tab[u].wsRef
               /\ tab'[u].renewed = tab[u].renewed
    BY <1>4 DEF TabBecomes
  <2>3. Live(y) => tab'[sock[y].tab].mounted /\ tab'[sock[y].tab].wsRef = y
    BY <2>1, <2>2, Owned DEF SocketKept, Live
  <2>4. QED BY <1>2, <2>1, <2>2, <2>3, OtherSocket
<1>9. TabKept(t)'
  <2>1. /\ tab'[t].wsRef = s /\ tab'[t].retry = tab[t].retry /\ tab'[t].renewed = tab[t].renewed
        /\ tab'[t].connected = (tab[t].connected \/ ready)
    BY <1>4, <1>5 DEF TabBecomes
  <2>2. /\ sock'[s].tab = t /\ sock'[s].ws = "open" /\ sock'[s].told = (sock[s].told \/ ready)
        /\ \A y \in Sockets \ {s} : sock'[y] = sock[y]
    BY <1>3 DEF Becomes
  <2>3. s # None BY NoneIsNobody
  <2>4. ~ tab[t].retry BY <1>2, <1>5, <2>3 DEF TabKept
  <2>5. ~ tab[t].renewed => /\ tab[t].connected <=> sock[s].told
                            /\ \A x \in Sockets : sock[x].tab = t /\ sock[x].ws # "closed" => s = x
    BY <1>2, <1>5, <2>3 DEF TabKept
  <2>6. ~ tab'[t].renewed => (tab'[t].connected <=> sock'[s].told) BY <2>1, <2>2, <2>5
  <2>7. ~ tab'[t].renewed =>
          \A x \in Sockets : sock'[x].tab = t /\ sock'[x].ws # "closed" => s = x
    BY <2>1, <2>2, <2>5
  <2>8. QED BY <2>1, <2>2, <2>3, <2>4, <2>6, <2>7 DEF TabKept
<1>10. ASSUME NEW u \in Tabs \ {t} PROVE TabKept(u)'
  <2>1. tab'[u] = tab[u] BY <1>4 DEF TabBecomes
  <2>2. ASSUME NEW x \in Sockets, sock[x].tab = u \/ sock'[x].tab = u PROVE sock'[x] = sock[x]
    BY <1>1, <1>3, <2>2 DEF Becomes
  <2>3. QED BY <2>1, <2>2, DialledTab
<1>11. QED BY <1>7, <1>8, <1>9, <1>10 DEF EndsKept

\* Steps of the room and of svc-chat: at most frames reach sockets of the room.
LEMMA RoomEnds ==
  ASSUME TypeOK, EndsKept, tab' = tab, room'.sockets \subseteq room.sockets,
         sock' = sock \/ \E frame \in Seq(Places) : Fanout(frame)
  PROVE  EndsKept'
<1>1. ASSUME NEW s \in Sockets
      PROVE  /\ sock'[s].tab = sock[s].tab /\ sock'[s].ws = sock[s].ws
             /\ sock'[s].srv = sock[s].srv /\ sock'[s].up = sock[s].up
             /\ sock'[s].told = sock[s].told
             /\ sock'[s] = sock[s] \/ s \in room.sockets
  BY FanoutStep
<1>2. ASSUME NEW s \in Sockets PROVE SocketKept(s)'
  <2>1. SocketKept(s) BY DEF EndsKept
  <2>2. CASE sock'[s] = sock[s] BY <2>1, <2>2 DEF SocketKept, Live
  <2>3. CASE s \in room.sockets
    <3>1. sock[s].srv = "joined" BY <2>1, <2>3 DEF SocketKept
    <3>2. sock[s].tab # None BY <2>1, <3>1, FreeSock DEF SocketKept
    <3>3. QED BY <1>1, <2>1, <3>1, <3>2 DEF SocketKept, Live
  <2>4. QED BY <1>1, <2>2, <2>3
<1>3. ASSUME NEW u \in Tabs PROVE TabKept(u)'
  <2>1. TabKept(u) /\ tab[u].wsRef \in Sockets \union {None} BY TabFields DEF EndsKept
  <2>2. QED BY <1>1, <2>1, OtherTab
<1>4. QED BY <1>2, <1>3 DEF EndsKept

LEMMA EndsStep == ASSUME TypeOK, EndsKept, [Next]_vars PROVE EndsKept'
<1>1. CASE UNCHANGED <<sock, tab, room>> BY <1>1, RoomEnds
<1>2. ASSUME NEW t \in Tabs, Connect(t) \/ NewToken(t) \/ Unmount(t) \/ Send(t) PROVE EndsKept'
  BY <1>2, ConnectEnds, NewTokenEnds, UnmountEnds, SendEnds
<1>3. ASSUME NEW s \in Sockets, \/ Opened(s) \/ Closed(s) \/ Read(s)
                                \/ Admit(s) \/ ServerClosed(s) \/ HandleSend(s) \/ Ages(s)
      PROVE  EndsKept'
  BY <1>3, OpenedEnds, ClosedEnds, ReadEnds, AdmitEnds, ServerClosedEnds, HandleEnds
<1>4. CASE Receive
  <2>1. <<Head(wire)>> \in Seq(Places) BY <1>4, ReceiveRoom
  <2>2. QED BY <1>4, <2>1, ReceiveRoom, RoomEnds DEF Receive
<1>5. CASE WindowEnds BY <1>5, WindowRoom, RoomEnds DEF WindowEnds
<1>6. CASE ReportDrops \/ Unsubscribed
  BY <1>6, ReportRoom, UnsubscribedRoom, RoomEnds DEF ReportDrops, Unsubscribed
<1>7. ASSUME \/ \E r \in Requests :
                  CheckBan(r) \/ ReadSlow(r) \/ TakeSlot(r) \/ PublishSend(r) \/ SendFails(r)
             \/ \E u \in Tabs : Ban(u) \/ Unban(u) \/ SlotExpires(u)
             \/ SetSlowmode \/ Elsewhere \/ SubscriberDrops \/ UNCHANGED vars
      PROVE  UNCHANGED <<sock, tab, room>>
  BY <1>7 DEF CheckBan, ReadSlow, TakeSlot, PublishSend, SendFails, Ban, Unban, SlotExpires,
              SetSlowmode, Elsewhere, SubscriberDrops, SameEnds, vars
<1>8. QED BY <1>1, <1>2, <1>3, <1>4, <1>5, <1>6, <1>7 DEF Next
-----------------------------------------------------------------------------
(* The order of messages.                                                   *)

LEMMA Naturals ==
  ASSUME TypeOK
  PROVE  /\ said \in Nat /\ wire \in Seq(Nat) /\ room.queue \in Seq(Nat)
         /\ room.queue \in Seq(Places) /\ wire \in Seq(Places)
         /\ \A t \in Tabs : shown[t] \in Seq(Nat)
         /\ \A s \in Sockets : /\ sock[s].out \in Seq(Seq(Places)) /\ Len(sock[s].out) \in Nat
                               /\ \A i \in 1..Len(sock[s].out) :
                                    sock[s].out[i] \in Seq(Places) /\ sock[s].out[i] \in Seq(Nat)
<1>1. said \in Nat /\ wire \in Seq(Places) /\ room.queue \in Seq(Places)
  BY Bounds, RoomFields DEF TypeOK
<1>2. \A t \in Tabs : shown[t] \in Seq(Places) BY DEF TypeOK
<1>3. \A s \in Sockets : sock[s].out \in Seq(Seq(Places)) BY SockFields DEF TypeOK
<1>4. QED BY <1>1, <1>2, <1>3, Sequences, LenProperties

\* What was before the queue and the wire still is.
Ahead == /\ said <= said' /\ said' \in Nat /\ shown' = shown
         /\ \A r \in Seq(Nat) : Upto(r, said) /\ Before(r, room.queue) /\ Before(r, wire)
              => Before(r, room'.queue) /\ Before(r, wire')

LEMMA AheadKept ==
  ASSUME TypeOK, OrderKept, Ahead
  PROVE  /\ \A t \in Tabs : ShownKept(t)'
         /\ \A t \in Tabs, f \in Seq(Nat) : FrameKept(t, f) =>
              /\ Rising(f) /\ Upto(f, said')
              /\ Before(shown'[t], f) /\ Before(f, room'.queue) /\ Before(f, wire')
<1>1. said \in Nat /\ said' \in Nat /\ said <= said' BY Naturals DEF Ahead
<1>2. ASSUME NEW t \in Tabs PROVE ShownKept(t)'
  <2>1. ShownKept(t) /\ shown[t] \in Seq(Nat) /\ shown'[t] = shown[t]
    BY Naturals DEF OrderKept, Ahead
  <2>2. Upto(shown[t], said') BY <1>1, <2>1, LaterOrder DEF ShownKept
  <2>3. Before(shown[t], room'.queue) /\ Before(shown[t], wire') BY <2>1 DEF Ahead, ShownKept
  <2>4. QED BY <2>1, <2>2, <2>3 DEF ShownKept
<1>3. ASSUME NEW t \in Tabs, NEW f \in Seq(Nat), FrameKept(t, f)
      PROVE  /\ Rising(f) /\ Upto(f, said')
             /\ Before(shown'[t], f) /\ Before(f, room'.queue) /\ Before(f, wire')
  <2>1. Upto(f, said') BY <1>1, <1>3, LaterOrder DEF FrameKept
  <2>2. QED BY <1>3, <2>1 DEF Ahead, FrameKept
<1>4. QED BY <1>2, <1>3

\* A socket whose frames, if the browser can still read them, are those of before.
LEMMA FramesStay ==
  ASSUME TypeOK, EndsKept, OrderKept, Ahead, NEW s \in Sockets,
         Live(s)' => Live(s) /\ sock'[s].tab = sock[s].tab /\ sock'[s].out = sock[s].out
  PROVE  FramesKept(s)'
<1>1. SUFFICES ASSUME Live(s)' PROVE FramesKept(s)' BY DEF FramesKept
<1> DEFINE t == sock[s].tab
           o == sock[s].out
<1>2. Live(s) /\ sock'[s].tab = t /\ sock'[s].out = o BY <1>1
<1>3. t \in Tabs BY <1>2, Owned DEF Live, EndsKept
<1>4. \A i \in 1..Len(o) : FrameKept(t, o[i]) /\ o[i] \in Seq(Nat)
  BY <1>2, Naturals DEF OrderKept, FramesKept
<1>5. \A i, j \in 1..Len(o) : i < j => Before(o[i], o[j]) BY <1>2 DEF OrderKept, FramesKept
<1>6. \A i \in 1..Len(o) :
        /\ Rising(o[i]) /\ Upto(o[i], said') /\ Before(shown'[t], o[i])
        /\ Before(o[i], room'.queue) /\ Before(o[i], wire')
  BY <1>3, <1>4, AheadKept
<1> HIDE DEF t, o
<1>7. QED BY <1>2, <1>5, <1>6 DEF FramesKept, FrameKept

\* A socket that gets a frame that follows all it has and precedes what is to come.
LEMMA FrameAdded ==
  ASSUME TypeOK, EndsKept, OrderKept, Ahead, NEW s \in Sockets, NEW f \in Seq(Places),
         Rising(f), Upto(f, said'), Before(f, room'.queue), Before(f, wire'),
         \A r \in Seq(Nat) : Before(r, room.queue) /\ Before(r, wire) => Before(r, f),
         Live(s)' => Live(s), sock'[s].tab = sock[s].tab, sock'[s].out = Append(sock[s].out, f)
  PROVE  FramesKept(s)'
<1>1. SUFFICES ASSUME Live(s)' PROVE FramesKept(s)' BY DEF FramesKept
<1> DEFINE t == sock[s].tab
           o == sock[s].out
           w == Append(o, f)
<1>2. Live(s) /\ sock'[s].tab = t /\ sock'[s].out = w BY <1>1
<1>3. t \in Tabs BY <1>2, Owned DEF Live, EndsKept
<1>4. \A i \in 1..Len(o) : FrameKept(t, o[i]) /\ o[i] \in Seq(Nat)
  BY <1>2, Naturals DEF OrderKept, FramesKept
<1>5. \A i, j \in 1..Len(o) : i < j => Before(o[i], o[j]) BY <1>2 DEF OrderKept, FramesKept
<1>6. \A i \in 1..Len(o) :
        /\ Rising(o[i]) /\ Upto(o[i], said') /\ Before(shown'[t], o[i])
        /\ Before(o[i], room'.queue) /\ Before(o[i], wire')
  BY <1>3, <1>4, AheadKept
<1>7. ShownKept(t) /\ shown'[t] = shown[t] /\ shown[t] \in Seq(Nat)
  BY <1>3, Naturals DEF OrderKept, Ahead
<1>8. Before(shown'[t], f) BY <1>7 DEF ShownKept
<1>9. \A i \in 1..Len(o) : Before(o[i], f) BY <1>4 DEF FrameKept
<1>10. /\ Len(w) = Len(o) + 1 /\ Len(o) \in Nat /\ w[Len(o) + 1] = f
       /\ \A i \in 1..Len(o) : w[i] = o[i]
  BY Naturals, AppendProperties
<1> HIDE DEF t, o, w
<1>11. \A i \in 1..Len(w) : (i \in 1..Len(o) /\ w[i] = o[i]) \/ (i = Len(o) + 1 /\ w[i] = f)
  BY <1>10
<1>12. \A i \in 1..Len(w) :
         /\ Rising(w[i]) /\ Upto(w[i], said') /\ Before(shown'[t], w[i])
         /\ Before(w[i], room'.queue) /\ Before(w[i], wire')
  BY <1>6, <1>8, <1>11
<1>13. \A i, j \in 1..Len(w) : i < j => Before(w[i], w[j])
  <2>1. SUFFICES ASSUME NEW i \in 1..Len(w), NEW j \in 1..Len(w), i < j PROVE Before(w[i], w[j])
    OBVIOUS
  <2>2. i \in 1..Len(o) BY <1>10, <2>1
  <2>3. CASE j \in 1..Len(o) BY <1>5, <1>10, <2>1, <2>2, <2>3
  <2>4. CASE j = Len(o) + 1 BY <1>9, <1>10, <2>2, <2>4
  <2>5. QED BY <1>11, <2>3, <2>4
<1>14. QED BY <1>2, <1>12, <1>13 DEF FramesKept, FrameKept

LEMMA NewFrames ==
  ASSUME NEW s \in Sockets, sock'[s].out = <<>> \/ sock'[s].out = <<Ready>>
  PROVE  FramesKept(s)'
<1>1. CASE sock'[s].out = <<>> BY <1>1 DEF FramesKept
<1>2. CASE sock'[s].out = <<Ready>>
  <2>1. Len(<<Ready>>) = 1 /\ <<Ready>>[1] = <<>> BY DEF Ready
  <2>2. \A q : Before(q, <<>>) /\ Before(<<>>, q) BY DEF Before
  <2>3. Rising(<<>>) /\ Upto(<<>>, said') BY DEF Rising, Upto
  <2>4. \A i \in 1..Len(<<Ready>>) : <<Ready>>[i] = <<>> BY <2>1
  <2>5. QED BY <1>2, <2>2, <2>3, <2>4 DEF FramesKept, FrameKept
<1>3. QED BY <1>1, <1>2

\* Steps in which nothing moves along the line, though it may lose its end.
SameFrames(s) ==
  \/ Live(s)' => Live(s) /\ sock'[s].tab = sock[s].tab /\ sock'[s].out = sock[s].out
  \/ sock'[s].out = <<>> \/ sock'[s].out = <<Ready>>

LEMMA QuietOrder ==
  ASSUME TypeOK, EndsKept, OrderKept, said' = said, shown' = shown,
         room'.queue \in {room.queue, <<>>}, wire' \in {wire, <<>>},
         \A s \in Sockets : SameFrames(s)
  PROVE  OrderKept'
<1>1. said \in Nat /\ wire \in Seq(Nat) /\ room.queue \in Seq(Nat) BY Naturals
<1>2. Ahead
  <2>1. \A r \in Seq(Nat) : Before(r, <<>>) BY NothingOrder
  <2>2. QED BY <1>1, <2>1 DEF Ahead
<1>3. LineKept' BY <1>1, NothingOrder DEF OrderKept, LineKept
<1>4. \A t \in Tabs : ShownKept(t)' BY <1>2, AheadKept
<1>5. ASSUME NEW s \in Sockets PROVE FramesKept(s)'
  BY <1>2, FramesStay, NewFrames DEF SameFrames
<1>6. QED BY <1>3, <1>4, <1>5 DEF OrderKept

\* The steps of a component; a new socket has no frames, and Unmount and
\* NewToken only make sockets less live.
LEMMA ComponentOrder ==
  ASSUME TypeOK, EndsKept, OrderKept, NEW t \in Tabs,
         Connect(t) \/ NewToken(t) \/ Unmount(t) \/ Send(t)
  PROVE  OrderKept'
<1>1. UNCHANGED <<said, wire, room, shown>>
  BY DEF Connect, NewToken, Unmount, Send, SameServer
<1>2. ASSUME NEW n \in Sockets, Connect(t), Dial(t, n, sock), NEW s \in Sockets
      PROVE  SameFrames(s)
  <2>1. sock \in [Sockets -> Sock] BY DEF TypeOK
  <2>2. QED BY <1>2, <2>1, DialStep DEF SameFrames, Live
<1>3. ASSUME tab[t].mounted, NEW s \in Sockets, sock'[s] = CloseRef(t)[s] PROVE SameFrames(s)
  BY <1>3, CloseRefEnds DEF SameFrames, Live
<1>4. ASSUME NewToken(t), NEW s \in Sockets PROVE SameFrames(s)
  <2>1. tab[t].mounted BY <1>4 DEF NewToken
  <2>2. PICK n \in Sockets : Dial(t, n, CloseRef(t)) BY <1>4 DEF NewToken
  <2>3. sock'[n].out = <<>> /\ \A y \in Sockets \ {n} : sock'[y] = CloseRef(t)[y]
    BY <2>2, DialStep, CloseRefIs
  <2>4. QED BY <1>3, <2>1, <2>3 DEF SameFrames
<1>5. ASSUME Send(t), NEW s \in Sockets PROVE SameFrames(s)
  <2>1. PICK x \in Sockets : x = tab[t].wsRef BY <1>5, SendStep
  <2>2. Becomes(x, sock[x].tab, "open", sock[x].srv, sock[x].out, 1, sock[x].told)
        /\ sock[x].ws = "open"
    BY <1>5, <2>1, SendStep
  <2>3. QED BY <2>2 DEF Becomes, SameFrames, Live
<1>6. \A s \in Sockets : SameFrames(s)
  BY <1>2, <1>3, <1>4, <1>5 DEF Connect, Unmount
<1>7. QED BY <1>1, <1>6, QuietOrder

\* The steps of a socket but Read; it is admitted with nothing under way.
LEMMA SocketOrder ==
  ASSUME TypeOK, EndsKept, OrderKept, NEW s \in Sockets,
         \/ Opened(s) \/ Closed(s) \/ Admit(s) \/ ServerClosed(s) \/ HandleSend(s) \/ Ages(s)
  PROVE  OrderKept'
<1>1. UNCHANGED <<said, wire, shown>>
  BY DEF Opened, Closed, Admit, ServerClosed, HandleSend, Ages, SameServer
<1>2. room'.queue \in {room.queue, <<>>}
  BY AdmitRoom, ServerClosedRoom DEF Opened, Closed, HandleSend, Ages, SameServer
<1>3. \A y \in Sockets \ {s} : sock'[y] = sock[y]
  BY OpenedStep, ClosedStep, AdmitStep, ServerClosedStep, HandleStep, AgesStep DEF Becomes, Freed
<1>4. \A y \in Sockets \ {s} : SameFrames(y) BY <1>3 DEF SameFrames, Live
<1>5. SameFrames(s)
  <2>1. CASE Opened(s) BY <2>1, OpenedStep DEF Becomes, SameFrames, Live
  <2>2. CASE Closed(s) BY <2>2, ClosedStep DEF Becomes, Freed, SameFrames
  <2>3. CASE Admit(s)
    <3>1. sock[s].out = <<>> BY <2>3, AdmitStep DEF EndsKept, SocketKept
    <3>2. sock'[s].out \in {Append(<<>>, Ready), <<>>} BY <2>3, <3>1, AdmitStep DEF Becomes
    <3>3. Append(<<>>, Ready) = <<Ready>> OBVIOUS
    <3>4. QED BY <3>2, <3>3 DEF SameFrames
  <2>4. CASE ServerClosed(s) BY <2>4, ServerClosedStep DEF Becomes, Freed, SameFrames, Live
  <2>5. CASE HandleSend(s) BY <2>5, HandleStep DEF Becomes, SameFrames, Live
  <2>6. CASE Ages(s) BY <2>6, AgesStep DEF Becomes, SameFrames, Live
  <2>7. QED BY <2>1, <2>2, <2>3, <2>4, <2>5, <2>6
<1>6. QED BY <1>1, <1>2, <1>4, <1>5, QuietOrder

\* Publications are the latest.
LEMMA PublishOrder ==
  ASSUME TypeOK, EndsKept, OrderKept, said < MaxSaid, NEW n \in 1..2, Publish(n),
         UNCHANGED <<room, sock, shown>>
  PROVE  OrderKept'
<1> DEFINE q == [i \in 1..n |-> said + i]
<1>0. wire' = wire \/ wire' = wire \o q BY PublishStep
<1>1. /\ said \in Nat /\ n \in Nat /\ said' = said + n /\ said' \in Nat /\ said <= said'
      /\ wire \in Seq(Nat) /\ room.queue \in Seq(Nat)
  <2>1. said' = said + n BY PublishStep
  <2>2. QED BY <2>1, Naturals
<1>2. /\ q \in Seq(Nat) /\ Rising(q) /\ Upto(q, said')
      /\ \A r \in Seq(Nat) : Upto(r, said) => Before(r, q)
  BY <1>1, NewOrder
<1>3. LineKept BY DEF OrderKept
<1> HIDE DEF q
<1>4. Before(wire, q) BY <1>1, <1>2, <1>3 DEF LineKept
<1>5. Upto(wire, said') /\ Upto(room.queue, said') BY <1>1, <1>3, LaterOrder DEF LineKept
<1>6. CASE wire' = wire
  <2>1. LineKept' BY <1>3, <1>5, <1>6 DEF LineKept
  <2>2. Ahead BY <1>1, <1>6 DEF Ahead
  <2>3. QED BY <2>1, <2>2, AheadKept, FramesStay DEF OrderKept, Live
<1>7. CASE wire' = wire \o q
  <2>1. Rising(wire') /\ Upto(wire', said')
    BY <1>1, <1>2, <1>3, <1>4, <1>5, <1>7, JoinOrder DEF LineKept
  <2>2. \A r \in Seq(Nat) : Before(r, wire) /\ Before(r, q) => Before(r, wire')
    BY <1>1, <1>2, <1>3, <1>4, <1>7, JoinOrder DEF LineKept
  <2>3. \A r \in Seq(Nat) : Upto(r, said) /\ Before(r, wire) => Before(r, wire')
    BY <1>2, <2>2
  <2>4. LineKept' BY <1>1, <1>3, <1>5, <2>1, <2>3 DEF LineKept
  <2>5. Ahead BY <1>1, <2>3 DEF Ahead
  <2>6. QED BY <2>4, <2>5, AheadKept, FramesStay DEF OrderKept, Live
<1>8. QED BY <1>0, <1>6, <1>7

\* A frame taken from the head of the line.
LEMMA FanoutOrder ==
  ASSUME TypeOK, EndsKept, OrderKept, Ahead, LineKept',
         NEW f \in Seq(Places), Fanout(f), Rising(f), Upto(f, said'),
         Before(f, room'.queue), Before(f, wire'),
         \A r \in Seq(Nat) : Before(r, room.queue) /\ Before(r, wire) => Before(r, f)
  PROVE  OrderKept'
<1>1. ASSUME NEW s \in Sockets PROVE FramesKept(s)'
  <2>1. /\ sock'[s].tab = sock[s].tab /\ sock'[s].ws = sock[s].ws
        /\ sock'[s] = sock[s] \/ sock'[s].out = Append(sock[s].out, f)
    BY FanoutStep
  <2>2. CASE sock'[s] = sock[s] BY <2>2, FramesStay DEF Live
  <2>3. CASE sock'[s].out = Append(sock[s].out, f) BY <2>1, <2>3, FrameAdded DEF Live
  <2>4. QED BY <2>1, <2>2, <2>3
<1>2. QED BY <1>1, AheadKept DEF OrderKept

LEMMA ReceiveOrder == ASSUME TypeOK, EndsKept, OrderKept, Receive PROVE OrderKept'
<1> DEFINE h == <<Head(wire)>>
           z == Tail(wire)
<1>1. said' = said /\ shown' = shown /\ said \in Nat BY Naturals DEF Receive
<1>2. wire \in Seq(Nat) /\ room.queue \in Seq(Nat) BY Naturals
<1>3. h \in Seq(Places) /\ wire' = z /\ wire # <<>> BY ReceiveRoom
<1>4. LineKept BY DEF OrderKept
<1>5. /\ z \in Seq(Nat) /\ Rising(z) /\ h \in Seq(Nat) /\ Rising(h) /\ Before(h, z)
      /\ Upto(z, said) /\ Upto(h, said)
      /\ \A r \in Seq(Nat) : Before(r, wire) => Before(r, z) /\ Before(r, h)
  BY <1>1, <1>2, <1>3, <1>4, CutOrder DEF LineKept
<1>6. \/ room.queue = <<>> /\ room'.queue = <<>> /\ Fanout(h)
      \/ room'.queue = Append(room.queue, Head(wire)) /\ sock' = sock
  BY ReceiveRoom
<1>7. Append(room.queue, Head(wire)) = room.queue \o h
  BY ReceiveRoom, Naturals, AppendIsConcat
<1> HIDE DEF h, z
<1>8. CASE room.queue = <<>> /\ room'.queue = <<>> /\ Fanout(h)
  <2>1. Ahead BY <1>1, <1>3, <1>5, <1>8 DEF Ahead
  <2>2. LineKept' BY <1>1, <1>3, <1>5, <1>8, NothingOrder DEF LineKept
  <2>3. QED BY <1>1, <1>3, <1>5, <1>8, <2>1, <2>2, NothingOrder, FanoutOrder
<1>9. CASE room'.queue = room.queue \o h /\ sock' = sock
  <2>1. Before(room.queue, h) /\ Before(room.queue, z) BY <1>2, <1>4, <1>5 DEF LineKept
  <2>2. /\ Rising(room'.queue) /\ Upto(room'.queue, said)
        /\ \A r \in Seq(Nat) :
             /\ Before(r, room.queue) /\ Before(r, h) => Before(r, room'.queue)
             /\ Before(room.queue, r) /\ Before(h, r) => Before(room'.queue, r)
    BY <1>1, <1>2, <1>4, <1>5, <1>9, <2>1, JoinOrder DEF LineKept
  <2>3. Ahead BY <1>1, <1>3, <1>5, <2>2 DEF Ahead
  <2>4. LineKept' BY <1>1, <1>3, <1>5, <2>1, <2>2 DEF LineKept
  <2>5. QED BY <1>9, <2>3, <2>4, AheadKept, FramesStay DEF OrderKept, Live
<1>10. QED BY <1>6, <1>7, <1>8, <1>9

LEMMA WindowOrder == ASSUME TypeOK, EndsKept, OrderKept, WindowEnds PROVE OrderKept'
<1>1. UNCHANGED <<said, wire, shown>> /\ said \in Nat /\ room'.queue = <<>>
  BY Naturals, WindowRoom DEF WindowEnds
<1>2. CASE sock' = sock BY <1>1, <1>2, QuietOrder DEF SameFrames, Live
<1>3. CASE Fanout(room.queue)
  <2>1. room.queue \in Seq(Places) /\ room.queue \in Seq(Nat) /\ wire \in Seq(Nat) BY Naturals
  <2>2. LineKept BY DEF OrderKept
  <2>3. Ahead BY <1>1, NothingOrder DEF Ahead
  <2>4. LineKept' BY <1>1, <2>1, <2>2, NothingOrder DEF LineKept
  <2>5. PICK f \in Seq(Places) : f = room.queue BY <2>1
  <2>6. Rising(f) /\ Upto(f, said') /\ Before(f, room'.queue) /\ Before(f, wire')
    BY <1>1, <2>1, <2>2, <2>5, NothingOrder DEF LineKept
  <2>7. QED BY <1>3, <2>3, <2>4, <2>5, <2>6, FanoutOrder
<1>4. QED BY <1>2, <1>3, WindowRoom

\* The next frame joins what the tab shows; its other frames come after it, and
\* no other socket of the tab is live.
LEMMA ReadShows ==
  ASSUME TypeOK, EndsKept, OrderKept, NEW s \in Sockets, Read(s)
  PROVE  LET t == sock[s].tab  f == Head(sock[s].out) IN
         /\ t \in Tabs /\ f \in Seq(Nat) /\ FrameKept(t, f)
         /\ shown'[t] = shown[t] \o f /\ \A u \in Tabs \ {t} : shown'[u] = shown[u]
         /\ shown'[t] \in Seq(Nat) /\ Rising(shown'[t]) /\ Upto(shown'[t], said)
         /\ \A r \in Seq(Nat) : Before(shown[t], r) /\ Before(f, r) => Before(shown'[t], r)
<1> DEFINE t == sock[s].tab
           o == sock[s].out
           f == Head(o)
<1>1. Live(s) /\ o # <<>> BY ReadStep DEF Live
<1>2. t \in Tabs BY <1>1, Owned DEF EndsKept, Live
<1>3. o \in Seq(Seq(Places)) /\ Len(o) \in Nat \ {0} /\ f = o[1] /\ 1 \in 1..Len(o)
  BY <1>1, Naturals, HeadTailProperties, EmptySeq
<1>4. f \in Seq(Nat) /\ FrameKept(t, f)
  BY <1>1, <1>3, Naturals DEF OrderKept, FramesKept
<1>5. shown' = [shown EXCEPT ![t] = shown[t] \o f] /\ shown \in [Tabs -> Seq(Places)]
  BY DEF Read, TypeOK
<1>6. shown[t] \in Seq(Nat) /\ ShownKept(t) /\ said \in Nat BY <1>2, Naturals DEF OrderKept
<1> HIDE DEF t, o, f
<1>7. shown'[t] = shown[t] \o f /\ \A u \in Tabs \ {t} : shown'[u] = shown[u] BY <1>2, <1>5
<1>8. Rising(shown[t]) /\ Rising(f) /\ Before(shown[t], f) /\ Upto(shown[t], said) /\ Upto(f, said)
  BY <1>4, <1>6 DEF FrameKept, ShownKept
<1>9. /\ shown'[t] \in Seq(Nat) /\ Rising(shown'[t]) /\ Upto(shown'[t], said)
      /\ \A r \in Seq(Nat) : Before(shown[t], r) /\ Before(f, r) => Before(shown'[t], r)
  BY <1>4, <1>6, <1>7, <1>8, JoinOrder
<1>10. QED BY <1>2, <1>4, <1>7, <1>9 DEF t, o, f

LEMMA ReadOrder ==
  ASSUME TypeOK, EndsKept, OrderKept, NEW s \in Sockets, Read(s) PROVE OrderKept'
<1> DEFINE o == sock[s].out
<1>1. UNCHANGED <<said, wire, room>> BY DEF Read, SameServer
<1>2. PICK t \in Tabs : t = sock[s].tab BY ReadShows
<1>3. PICK f \in Seq(Nat) : f = Head(o) BY ReadShows
<1>4. /\ FrameKept(t, f)
      /\ shown'[t] = shown[t] \o f /\ \A u \in Tabs \ {t} : shown'[u] = shown[u]
      /\ shown'[t] \in Seq(Nat) /\ Rising(shown'[t]) /\ Upto(shown'[t], said)
      /\ \A r \in Seq(Nat) : Before(shown[t], r) /\ Before(f, r) => Before(shown'[t], r)
  BY <1>2, <1>3, ReadShows
<1>5. room.queue \in Seq(Nat) /\ wire \in Seq(Nat) BY Naturals
<1>6. LineKept' BY <1>1 DEF OrderKept, LineKept
<1>7. ASSUME NEW u \in Tabs PROVE ShownKept(u)'
  <2>1. ShownKept(u) BY DEF OrderKept
  <2>2. CASE u = t BY <1>1, <1>4, <1>5, <2>1, <2>2 DEF ShownKept, FrameKept
  <2>3. CASE u # t BY <1>1, <1>4, <2>1, <2>3 DEF ShownKept
  <2>4. QED BY <2>2, <2>3
<1>8. FramesKept(s)'
  <2> DEFINE z == Tail(o)
  <2>1. Live(s) /\ o # <<>> BY ReadStep DEF Live
  <2>2. o \in Seq(Seq(Places)) BY Naturals
  <2>3. /\ Len(z) = Len(o) - 1 /\ Len(o) \in Nat \ {0} /\ f = o[1]
        /\ \A i \in 1..Len(z) : z[i] = o[i + 1]
    BY <1>3, <2>1, <2>2, HeadTailProperties, EmptySeq
  <2>4. sock'[s].tab = t /\ sock'[s].out = z BY <1>2, ReadStep DEF Becomes
  <2>5. \A i \in 1..Len(o) : FrameKept(t, o[i]) /\ o[i] \in Seq(Nat)
    BY <1>2, <2>1, Naturals DEF OrderKept, FramesKept
  <2>6. \A i, j \in 1..Len(o) : i < j => Before(o[i], o[j]) BY <2>1 DEF OrderKept, FramesKept
  <2> HIDE DEF o, z
  <2>7. \A i \in 1..Len(z) : i + 1 \in 1..Len(o) /\ 1 \in 1..Len(o) /\ 1 < i + 1 BY <2>3
  <2>8. ASSUME NEW i \in 1..Len(z)
        PROVE  /\ Rising(z[i]) /\ Upto(z[i], said) /\ Before(shown'[t], z[i])
               /\ Before(z[i], room.queue) /\ Before(z[i], wire)
    <3>1. z[i] = o[i + 1] /\ i + 1 \in 1..Len(o) BY <2>3, <2>7
    <3>2. FrameKept(t, z[i]) /\ z[i] \in Seq(Nat) BY <2>5, <3>1
    <3>3. Before(f, z[i]) BY <2>3, <2>6, <2>7, <3>1
    <3>4. Before(shown'[t], z[i]) BY <1>4, <3>2, <3>3 DEF FrameKept
    <3>5. QED BY <3>2, <3>4 DEF FrameKept
  <2>9. ASSUME NEW i \in 1..Len(z), NEW j \in 1..Len(z), i < j PROVE Before(z[i], z[j])
    <3>1. i + 1 < j + 1 BY <2>3, <2>9
    <3>2. QED BY <2>3, <2>6, <2>7, <3>1
  <2>10. QED BY <1>1, <2>4, <2>8, <2>9 DEF FramesKept, FrameKept
<1>9. ASSUME NEW y \in Sockets \ {s} PROVE FramesKept(y)'
  <2>1. sock'[y] = sock[y] BY ReadStep DEF Becomes
  <2>2. SUFFICES ASSUME Live(y) PROVE FramesKept(y)' BY <2>1 DEF FramesKept, Live
  <2>3. Live(s) BY ReadStep DEF Live
  <2>4. sock[y].tab # t BY <1>2, <2>2, <2>3 DEF EndsKept, SocketKept
  <2>5. sock[y].tab \in Tabs BY <2>2, Owned DEF EndsKept, Live
  <2>6. shown'[sock[y].tab] = shown[sock[y].tab] BY <1>4, <2>4, <2>5
  <2>7. FramesKept(y) BY DEF OrderKept
  <2>8. QED BY <1>1, <2>1, <2>2, <2>6, <2>7 DEF FramesKept, FrameKept
<1>10. QED BY <1>6, <1>7, <1>8, <1>9 DEF OrderKept

LEMMA OrderStep == ASSUME TypeOK, EndsKept, OrderKept, [Next]_vars PROVE OrderKept'
<1>1. ASSUME NEW t \in Tabs, Connect(t) \/ NewToken(t) \/ Unmount(t) \/ Send(t) PROVE OrderKept'
  BY <1>1, ComponentOrder
<1>2. ASSUME NEW s \in Sockets, \/ Opened(s) \/ Closed(s) \/ Read(s)
                                \/ Admit(s) \/ ServerClosed(s) \/ HandleSend(s) \/ Ages(s)
      PROVE  OrderKept'
  BY <1>2, SocketOrder, ReadOrder
<1>3. 1 \in 1..2 /\ 2 \in 1..2 OBVIOUS
<1>4. ASSUME NEW r \in Requests, PublishSend(r) PROVE OrderKept'
  BY <1>3, <1>4, PublishOrder DEF PublishSend
<1>5. CASE Elsewhere BY <1>3, <1>5, PublishOrder DEF Elsewhere
<1>6. CASE ReportDrops \/ Unsubscribed \/ SubscriberDrops
  <2>1. room'.queue \in {room.queue, <<>>} BY <1>6, ReportRoom, UnsubscribedRoom DEF SubscriberDrops
  <2>2. UNCHANGED <<said, shown, sock>> /\ wire' \in {wire, <<>>}
    BY <1>6 DEF ReportDrops, Unsubscribed, SubscriberDrops
  <2>3. QED BY <2>1, <2>2, QuietOrder DEF SameFrames, Live
<1>7. CASE UNCHANGED <<said, wire, room, sock, shown>>
  BY <1>7, QuietOrder DEF SameFrames, Live
<1>8. ASSUME \/ \E r \in Requests : CheckBan(r) \/ ReadSlow(r) \/ TakeSlot(r) \/ SendFails(r)
             \/ \E u \in Tabs : Ban(u) \/ Unban(u) \/ SlotExpires(u)
             \/ SetSlowmode \/ UNCHANGED vars
      PROVE  UNCHANGED <<said, wire, room, sock, shown>>
  BY <1>8 DEF CheckBan, ReadSlow, TakeSlot, SendFails, Ban, Unban, SlotExpires, SetSlowmode,
              SameEnds, vars
<1>9. QED
  BY <1>1, <1>2, <1>4, <1>5, <1>6, <1>7, <1>8, ReceiveOrder, WindowOrder DEF Next
-----------------------------------------------------------------------------
(* The invariant, and what follows.                                         *)

LEMMA InvariantStarts == Init => DeliveryInvariant
<1> SUFFICES ASSUME Init PROVE DeliveryInvariant OBVIOUS
<1>2. /\ said = 0 /\ wire = <<>> /\ room = NoRoom /\ slot = [t \in Tabs |-> "free"]
      /\ sock = [s \in Sockets |-> Free] /\ shown = [t \in Tabs |-> <<>>]
      /\ \A t \in Tabs : /\ tab[t].wsRef = None /\ ~ tab[t].connected
  BY DEF Init
<1>3. TypeOK
  <2>1. tab \in [Tabs -> Tab] BY DEF Init, Tab
  <2>2. req \in [Requests -> Req]
    <3>1. (CHOOSE t \in Tabs : TRUE) \in Tabs BY Populated
    <3>2. QED BY <3>1 DEF Init, Req
  <2>3. sock \in [Sockets -> Sock] /\ room \in Room BY <1>2, FreeSock, NewRooms
  <2>4. shown \in [Tabs -> Seq(Places)] /\ wire \in Seq(Places) BY <1>2
  <2>5. said \in 0..(MaxSaid + 1) BY <1>2, Bounds
  <2>6. events \in 0..MaxEvents BY Bounds DEF Init
  <2>7. banned \in [Tabs -> BOOLEAN] /\ slowmode \in BOOLEAN BY DEF Init
  <2>8. slot \in [Tabs -> {"free", "taken", "paid"}] BY <1>2
  <2>9. failed \in BOOLEAN BY DEF Init
  <2>10. QED BY <2>1, <2>2, <2>3, <2>4, <2>5, <2>6, <2>7, <2>8, <2>9 DEF TypeOK
<1>4. EndsKept
  <2>1. \A s \in Sockets : SocketKept(s) BY <1>2, FreeSock, NewRooms DEF SocketKept, Live
  <2>2. \A t \in Tabs : TabKept(t) BY <1>2, FreeSock DEF TabKept
  <2>3. QED BY <2>1, <2>2 DEF EndsKept
<1>5. OrderKept
  <2>1. LineKept BY <1>2, NewRooms, NothingOrder DEF LineKept
  <2>2. \A t \in Tabs : ShownKept(t) BY <1>2, NewRooms, NothingOrder DEF ShownKept
  <2>3. \A s \in Sockets : FramesKept(s) BY <1>2, FreeSock DEF FramesKept, Live
  <2>4. QED BY <2>1, <2>2, <2>3 DEF OrderKept
<1>6. SlotEarned BY <1>2 DEF SlotEarned
<1>7. QED BY <1>3, <1>4, <1>5, <1>6 DEF DeliveryInvariant

LEMMA InvariantStep == DeliveryInvariant /\ [Next]_vars => DeliveryInvariant'
BY TypeStep, EndsStep, OrderStep, SlotStep DEF DeliveryInvariant, EndsKept

LEMMA InvariantHolds == Spec => []DeliveryInvariant
BY InvariantStarts, InvariantStep, PTL DEF Spec

\* Every variable keeps its type; in particular a send window never counts below
\* zero or above its burst (chat.ts:313-331).
THEOREM DeliveryTyped == Spec => []TypeOK
<1>1. DeliveryInvariant => TypeOK BY DEF DeliveryInvariant
<1>2. QED BY <1>1, InvariantHolds, PTL

\* Until its token changes, a tab's input is enabled exactly while its socket is
\* open and "ready" has come, and what it sends finds the listener registered, however
\* retries, closes and remounts interleave (chat.ts:310, chat.tsx:31-37, 102).
THEOREM InputIsTruthful == Spec => []InputTruthful
<1>1. DeliveryInvariant => InputTruthful
  BY DEF DeliveryInvariant, EndsKept, SocketKept, TabKept, InputTruthful
<1>2. QED BY <1>1, InvariantHolds, PTL

\* Without a failure, a slow mode slot is held only for a message that was
\* published or is about to be (chat.service.ts:54-69).
THEOREM SlotsEarned == Spec => []SlotEarned
<1>1. DeliveryInvariant => SlotEarned BY DEF DeliveryInvariant
<1>2. QED BY <1>1, InvariantHolds, PTL

LEMMA StepBroadcasts ==
  ASSUME DeliveryInvariant, [Next]_vars
  PROVE  [IsBroadcast!BNext]_(IsBroadcast!bvars)
<1> USE DEF DeliveryInvariant, IsBroadcast!bvars, IsBroadcast!BNext
<1>1. ASSUME NEW s \in Sockets, Read(s) PROVE IsBroadcast!BNext
  <2>1. PICK t \in Tabs : t = sock[s].tab BY <1>1, ReadShows
  <2>2. PICK f \in Seq(Nat) : f = Head(sock[s].out) BY <1>1, ReadShows
  <2>3. /\ shown'[t] = shown[t] \o f /\ \A u \in Tabs \ {t} : shown'[u] = shown[u]
        /\ Rising(shown'[t]) /\ Upto(shown'[t], said)
    BY <1>1, <2>1, <2>2, ReadShows
  <2>4. shown[t] \in Seq(Nat) BY Naturals
  <2>5. shown'[t] \in Seq(Places) /\ said \in Nat
    <3>1. TypeOK' BY TypeStep DEF EndsKept
    <3>2. QED BY <3>1, Naturals DEF TypeOK
  <2>6. DOMAIN shown'[t] = 1..Len(shown'[t]) BY <2>5, LenProperties
  <2>7. IsBroadcast!Increasing(shown'[t]) BY <2>3, <2>6 DEF IsBroadcast!Increasing, Rising
  <2>8. \A i \in DOMAIN shown'[t] : shown'[t][i] \in 1..said
    <3>1. ASSUME NEW i \in 1..Len(shown'[t]) PROVE shown'[t][i] \in 1..said
      <4>1. shown'[t][i] \in Places /\ shown'[t][i] <= said
        BY <2>3, <2>5, ElementOfSeq DEF Upto
      <4>2. QED BY <2>5, <4>1, Bounds DEF Places
    <3>2. QED BY <2>6, <3>1
  <2>9. IsBroadcast!IsPrefix(shown[t], shown'[t])
    <3> DEFINE p == shown[t]
               w == p \o f
    <3>1. Len(w) = Len(p) + Len(f) /\ Len(p) \in Nat /\ Len(f) \in Nat
      BY <2>2, <2>4, ConcatProperties, LenProperties
    <3>2. SubSeq(p, 1, Len(p)) = SubSeq(w, 1, Len(p))
      <4>1. CASE Len(p) = 0 BY <4>1
      <4>2. CASE Len(p) # 0
        <5>1. 1 \in 1..Len(p) /\ Len(p) \in 1..Len(p) BY <3>1, <4>2
        <5>2. QED BY <2>2, <2>4, <5>1, SubSeqOfConcat1
      <4>3. QED BY <4>1, <4>2
    <3>3. shown'[t] = w BY <2>3
    <3> HIDE DEF p, w
    <3>4. IsBroadcast!IsPrefix(p, w) BY <3>1, <3>2 DEF IsBroadcast!IsPrefix
    <3>5. QED BY <3>3, <3>4 DEF p
  <2>10. said' = said BY <1>1 DEF Read, SameServer
  <2>11. IsBroadcast!Hear(t) BY <2>3, <2>7, <2>8, <2>9, <2>10 DEF IsBroadcast!Hear
  <2>12. QED BY <2>11
<1>2. ASSUME NEW n \in 1..2, Publish(n), shown' = shown PROVE IsBroadcast!BNext
  <2>1. said' = said + 1 \/ said' = said + 2 BY <1>2 DEF Publish
  <2>2. QED BY <1>2, <2>1 DEF IsBroadcast!Say
<1>3. 1 \in 1..2 /\ 2 \in 1..2 OBVIOUS
<1>4. ASSUME NEW r \in Requests, PublishSend(r) PROVE IsBroadcast!BNext
  BY <1>2, <1>3, <1>4 DEF PublishSend
<1>5. CASE Elsewhere BY <1>2, <1>3, <1>5 DEF Elsewhere
<1>6. ASSUME NEW t \in Tabs, Connect(t) \/ NewToken(t) \/ Unmount(t) \/ Send(t)
      PROVE  UNCHANGED <<said, shown>>
  BY <1>6 DEF Connect, NewToken, Unmount, Send, SameServer
<1>7. ASSUME NEW s \in Sockets,
             \/ Opened(s) \/ Closed(s) \/ Admit(s) \/ ServerClosed(s) \/ HandleSend(s) \/ Ages(s)
      PROVE  UNCHANGED <<said, shown>>
  BY <1>7 DEF Opened, Closed, Admit, ServerClosed, HandleSend, Ages, SameServer
<1>8. ASSUME \/ \E r \in Requests : CheckBan(r) \/ ReadSlow(r) \/ TakeSlot(r) \/ SendFails(r)
             \/ \E u \in Tabs : Ban(u) \/ Unban(u) \/ SlotExpires(u)
             \/ Receive \/ WindowEnds \/ ReportDrops \/ Unsubscribed
             \/ SetSlowmode \/ SubscriberDrops \/ UNCHANGED vars
      PROVE  UNCHANGED <<said, shown>>
  BY <1>8 DEF CheckBan, ReadSlow, TakeSlot, SendFails, Ban, Unban, SlotExpires, Receive,
              WindowEnds, ReportDrops, Unsubscribed, SetSlowmode, SubscriberDrops, SameEnds, vars
<1>9. QED BY <1>1, <1>4, <1>5, <1>6, <1>7, <1>8 DEF Next

\* Chat is a broadcast: through reconnections, token changes, windows, dropped frames,
\* rooms taken down and duplicated publications, what a tab shows only grows, in
\* the order of publication and nothing twice (chat.ts:67-69, 145-147).
THEOREM DeliveryIsBroadcast == Spec => IsBroadcastSpec
<1>1. Init => IsBroadcast!BInit BY DEF Init, IsBroadcast!BInit
<1>2. DeliveryInvariant /\ [Next]_vars => [IsBroadcast!BNext]_(IsBroadcast!bvars)
  BY StepBroadcasts
<1>3. QED BY <1>1, <1>2, InvariantHolds, PTL DEF Spec, IsBroadcastSpec, IsBroadcast!BSpec
=============================================================================
