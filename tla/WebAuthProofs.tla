---------------------------- MODULE WebAuthProofs ----------------------------
(***************************************************************************)
(* Proofs about the browser's session, for any number of tabs, logins,      *)
(* forms sent, tokens that expire and answers that are lost.  Two questions *)
(* about calls that overtake each other: can the BFF take a browser's own   *)
(* refresh for a thief's, and does a logout leave a login alive behind it?  *)
(***************************************************************************)
EXTENDS WebAuth, TLAPS

Refreshes == {"refresh", "renew"}
Ends      == {"logout", "change"}
IsSid(c)  == c \in Sid

Has(j)    == job[j] # None /\ job[j].answer # None
Brings(j) == Has(j) /\ IsSid(job[j].answer.cookie)
Spent(f)  == family[f].state \in {"ended", "stolen"}
LoginFor(j, f) ==
  Has(j) /\ job[j].op = "login" /\ job[j].answer.status = "ok" /\ job[j].answer.token = f

\* What an answer on its way says, and what was true when it was given: a
\* refresh brings the successor of the sid it came with, a logout or a changed
\* password ended that sid's family or an outage spared it, a refusal of these leaves
\* the cookie alone, and so does a login that got no session.
AnswerSound(j) ==
  Has(j) =>
    LET a == job[j].answer  s == job[j].sid IN
    /\ a.status = "ok" /\ job[j].op \in Ends =>
         a.cookie = None /\ (s = None \/ Spent(s[1]) \/ s[1] \in spared)
    /\ a.status # "ok" /\ job[j].op \in Ends \union {"login"} => a.cookie = Keep
    /\ a.status = "ok" /\ job[j].op = "login" =>
         \/ a.token \in Families /\ a.cookie = <<a.token, 0>>
         \/ a.token = Bare /\ a.cookie = Keep
    /\ IsSid(a.cookie) /\ job[j].op \in Refreshes =>
         s # None /\ a.cookie = <<s[1], s[2] + 1>> /\ a.cookie[2] <= family[s[1]].latest
    /\ IsSid(a.cookie) => job[j].op \in Refreshes \/ (job[j].op = "login" /\ a.status = "ok")

\* No cookie and no call knows the family yet.
Unheard(f) ==
  /\ family[f].latest = 0 /\ family[f].recent = 0 /\ Owner(jar) # f
  /\ \A j \in Jobs : job[j] # None => Owner(job[j].sid) # f

\* Until a login's answer is delivered it alone names its family.
LoginsApart ==
  /\ \A j \in Jobs : job[j] # None /\ job[j].op = "login" => j[2] = "act"
  /\ \A f \in Families :
       /\ family[f].state = "new" => Unheard(f) /\ \A j \in Jobs : ~ LoginFor(j, f)
       /\ \A i \in Jobs : LoginFor(i, f) => Unheard(f) /\ \A j \in Jobs : LoginFor(j, f) => i = j

\* A sid the BFF still honours, unless the browser lagged.
InTime(s) == s # None /\ Alive(s[1]) /\ s[1] \notin late => family[s[1]].recent <= s[2]

\* Every sid that is, or will be, asked with.
GraceKept ==
  /\ InTime(jar)
  /\ \A j \in Jobs :
       /\ job[j] # None /\ job[j].op \in Refreshes /\ job[j].answer = None => InTime(job[j].sid)
       /\ Brings(j) => InTime(job[j].answer.cookie)

\* A live login is in the jar or on its way there, unless its cookie was
\* replaced or its logout was lost on Redis; so was, after a logout, what the jar holds.
SessionHeld ==
  /\ \A f \in Families :
       Alive(f) /\ f \notin displaced \union spared =>
         Owner(jar) = f \/ \E j \in Jobs : LoginFor(j, f)
  /\ out /\ Alive(Owner(jar)) => Owner(jar) \in displaced \union spared

WebInvariant ==
  /\ TypeOK
  /\ \A j \in Jobs : AnswerSound(j)
  /\ LoginsApart /\ GraceKept /\ SessionHeld /\ NoFalseAlarm
-----------------------------------------------------------------------------
(* Calls and answers.                                                       *)

LEMMA NoneApart ==
  /\ None \notin Families /\ None \notin Sid /\ None \notin Answer /\ None \notin Call
  /\ Keep \notin Sid /\ None # Keep /\ Bare \notin Families
BY NoneIsNothing

\* A call that is begun.
LEMMA FreshCall ==
  ASSUME TypeOK, NEW kind \in {"restore", "query", "form"}, NEW op \in Ops, NEW token \in Token
  PROVE  /\ Fresh(kind, op, token) \in Call /\ Fresh(kind, op, token) # None
         /\ Fresh(kind, op, token).op = op /\ Fresh(kind, op, token).sid = jar
         /\ Fresh(kind, op, token).answer = None
<1>1. Fresh(kind, op, token) \in Call BY DEF Fresh, Call, TypeOK, Token
<1>2. QED BY <1>1, NoneApart DEF Fresh

\* A call that is answered.
LEMMA Replied ==
  ASSUME TypeOK, NEW j \in Jobs, job[j] # None, NEW status \in {"ok", "refused", "lost"},
         NEW token \in Token, NEW cookie \in Sid \union {None, Keep},
         Reply(j, status, token, cookie)
  PROVE  /\ job' \in [Jobs -> Call \union {None}]
         /\ \A i \in Jobs \ {j} : job'[i] = job[i]
         /\ job'[j] # None /\ job'[j].answer # None
         /\ job'[j].op = job[j].op /\ job'[j].sid = job[j].sid
         /\ job'[j].answer.status = status /\ job'[j].answer.token = token
         /\ job'[j].answer.cookie = cookie
<1> DEFINE a == [status |-> status, token |-> token, cookie |-> cookie]
           c == [job[j] EXCEPT !.answer = a]
<1>1. job[j] \in Call BY DEF TypeOK
<1>2. a \in Answer BY DEF Answer
<1>3. c \in Call BY <1>1, <1>2 DEF Call
<1>4. c.op = job[j].op /\ c.sid = job[j].sid /\ c.answer = a BY <1>1 DEF Call
<1>5. job' = [job EXCEPT ![j] = c] BY DEF Reply
<1>6. a.status = status /\ a.token = token /\ a.cookie = cookie OBVIOUS
<1> HIDE DEF a, c
<1>7. /\ job'[j] = c /\ \A i \in Jobs \ {j} : job'[i] = job[i]
      /\ job' \in [Jobs -> Call \union {None}]
  BY <1>3, <1>5 DEF TypeOK
<1>8. QED BY <1>2, <1>3, <1>4, <1>6, <1>7, NoneApart

\* A call that is followed by another of the same job.
LEMMA Resent ==
  ASSUME TypeOK, NEW j \in Jobs, job[j] # None, NEW op \in Ops, NEW token \in Token,
         NEW held \in Token, jar' \in Sid \union {None},
         \/ Sends(j, op, token)
         \/ job' = [job EXCEPT ![j] = [@ EXCEPT !.op = op, !.sid = jar', !.token = token,
                                                !.held = held, !.answer = None]]
  PROVE  /\ job' \in [Jobs -> Call \union {None}]
         /\ \A i \in Jobs \ {j} : job'[i] = job[i]
         /\ job'[j] # None /\ job'[j].op = op /\ job'[j].sid = jar' /\ job'[j].answer = None
<1> DEFINE c == [job[j] EXCEPT !.op = op, !.sid = jar', !.token = token, !.answer = None]
           d == [job[j] EXCEPT !.op = op, !.sid = jar', !.token = token, !.held = held,
                               !.answer = None]
<1>1. job[j] \in Call BY DEF TypeOK
<1>2. c \in Call /\ c.op = op /\ c.sid = jar' /\ c.answer = None BY <1>1 DEF Call
<1>3. d \in Call /\ d.op = op /\ d.sid = jar' /\ d.answer = None BY <1>1 DEF Call
<1>4. job' = [job EXCEPT ![j] = c] \/ job' = [job EXCEPT ![j] = d] BY DEF Sends
<1> HIDE DEF c, d
<1>5. /\ job'[j] = c \/ job'[j] = d
      /\ \A i \in Jobs \ {j} : job'[i] = job[i]
      /\ job' \in [Jobs -> Call \union {None}]
  BY <1>2, <1>3, <1>4 DEF TypeOK
<1>6. QED BY <1>2, <1>3, <1>5, NoneApart
-----------------------------------------------------------------------------
(* What each step does to the calls, the cookie and the families.           *)

\* One job moves: its call is answered, and nothing else; a call takes its place.
Only(j) == job' \in [Jobs -> Call \union {None}] /\ \A i \in Jobs \ {j} : job'[i] = job[i]
Gave(j, status, token, cookie) ==
  /\ Only(j) /\ job[j] # None
  /\ job'[j] # None /\ job'[j].answer # None
  /\ job'[j].op = job[j].op /\ job'[j].sid = job[j].sid
  /\ job'[j].answer.status = status /\ job'[j].answer.token = token
  /\ job'[j].answer.cookie = cookie
Asked(j, op) ==
  /\ Only(j)
  /\ job'[j] # None /\ job'[j].op = op /\ job'[j].sid = jar' /\ job'[j].answer = None
Browser == <<jar, displaced, out>>

LEMMA Fields ==
  ASSUME TypeOK
  PROVE  /\ \A f \in Families : family[f] \in [state : {"new", "alive", "ended", "stolen"},
                                               latest : Nat, recent : Nat]
         /\ \A j \in Jobs : job[j] # None =>
              /\ job[j] \in Call /\ job[j].op \in Ops /\ job[j].sid \in Sid \union {None}
              /\ job[j].token \in Token
              /\ job[j].answer # None =>
                   /\ job[j].answer \in Answer /\ job[j].answer.token \in Token
                   /\ job[j].answer.status \in {"ok", "refused", "lost"}
                   /\ job[j].answer.cookie \in Sid \union {None, Keep}
         /\ jar \in Sid \union {None}
<1>1. \A j \in Jobs : job[j] # None =>
        /\ job[j] \in Call /\ job[j].op \in Ops /\ job[j].sid \in Sid \union {None}
        /\ job[j].token \in Token
        /\ job[j].answer # None => job[j].answer \in Answer
  BY DEF TypeOK, Call
<1>2. \A a \in Answer : /\ a.token \in Token /\ a.status \in {"ok", "refused", "lost"}
                        /\ a.cookie \in Sid \union {None, Keep}
  BY DEF Answer
<1>3. QED BY <1>1, <1>2 DEF TypeOK

\* A page begins a call.
LEMMA PageStep ==
  ASSUME TypeOK, NEW t \in Tabs, Page(t)
  PROVE  /\ \E j \in Jobs : \E op \in Ops :
              /\ Asked(j, op) /\ (job[j] = None \/ j[2] = "load") /\ (op = "login" => j[2] = "act")
         /\ UNCHANGED <<family, Browser, late, spared>>
<1>1. ASSUME NEW j \in Jobs, NEW kind \in {"restore", "query", "form"}, NEW op \in Ops,
             NEW token \in Token, UNCHANGED jar,
             job' = [job EXCEPT ![j] = Fresh(kind, op, token)]
      PROVE  Asked(j, op)
  <2>1. job'[j] = Fresh(kind, op, token) /\ \A i \in Jobs \ {j} : job'[i] = job[i]
    BY <1>1 DEF TypeOK
  <2>2. job' \in [Jobs -> Call \union {None}] BY <1>1, FreshCall DEF TypeOK
  <2>3. QED BY <1>1, <2>1, <2>2, FreshCall DEF Asked, Only
<1>2. \A s \in Tabs : tab[s].token \in Token BY DEF TypeOK
<1>3. /\ <<t, "load">> \in Jobs /\ <<t, "act">> \in Jobs
      /\ t \in Studios => <<t, "poll">> \in Jobs
  BY DEF Jobs
<1>4. {"refresh", "me", "login", "logout", "change"} \subseteq Ops /\ None \in Token
  BY DEF Ops, Token
<1>5. CASE Load(t)
  <2>1. Asked(<<t, "load">>, "refresh") BY <1>1, <1>3, <1>4, <1>5 DEF Load
  <2>2. QED BY <2>1, <1>3, <1>4, <1>5 DEF Load, Browser, history
<1>6. CASE Query(t)
  <2>1. Asked(<<t, "poll">>, "me") BY <1>1, <1>2, <1>3, <1>4, <1>6 DEF Query, Start
  <2>2. QED BY <2>1, <1>3, <1>4, <1>6 DEF Query, Start, Browser, history
<1>7. ASSUME NEW op \in {"login", "logout", "change"}, NEW token \in Token, Submit(t, op, token)
      PROVE  /\ Asked(<<t, "act">>, op) /\ job[<<t, "act">>] = None
             /\ UNCHANGED <<family, Browser, late, spared>>
  <2>1. op \in Ops BY <1>4
  <2>2. Asked(<<t, "act">>, op) BY <1>1, <1>3, <1>7, <2>1 DEF Submit, Start
  <2>3. QED BY <2>2, <1>7 DEF Submit, Start, Browser, history
<1>8. CASE Login(t)
  BY <1>3, <1>4, <1>7, <1>8 DEF Login
<1>9. CASE Logout(t)
  BY <1>2, <1>3, <1>4, <1>7, <1>9 DEF Logout
<1>10. CASE ChangePassword(t)
  BY <1>2, <1>3, <1>4, <1>7, <1>10 DEF ChangePassword
<1>11. QED BY <1>5, <1>6, <1>8, <1>9, <1>10 DEF Page

\* The answers the BFF gives.
Plain(j) ==
  /\ \E status \in {"ok", "refused"}, token \in {None, Bare}, cookie \in {None, Keep} :
       /\ Gave(j, status, token, cookie)
       /\ job[j].op \in Ends => status = "refused" /\ cookie = Keep
       /\ job[j].op = "login" => cookie = Keep /\ (status = "ok" => token = Bare)
  /\ UNCHANGED family
Succeeds(j, f, n) ==
  /\ job[j].op \in Refreshes /\ job[j].sid = <<f, n>> /\ Alive(f)
  /\ Gave(j, "ok", f, <<f, n + 1>>)
  /\ \/ n = family[f].latest /\ family' = [family EXCEPT ![f].latest = n + 1]
     \/ n < family[f].latest /\ UNCHANGED family
Alarms(j, f, n) ==
  /\ job[j].op \in Refreshes /\ job[j].sid = <<f, n>> /\ Alive(f) /\ n < family[f].recent
  /\ Gave(j, "refused", None, None)
  /\ family' = [family EXCEPT ![f].state = "stolen"]
Begins(j, f) ==
  /\ job[j].op = "login" /\ family[f].state = "new" /\ Gave(j, "ok", f, <<f, 0>>)
  /\ family' = [family EXCEPT ![f].state = "alive"]
Revokes(j) ==
  /\ job[j].op \in Ends /\ Gave(j, "ok", None, None)
  /\ \E F \in SUBSET Families :
       /\ \A f \in Families \ F : Alive(f) /\ f = Owner(job[j].sid) => f \in spared'
       /\ family' = [f \in Families |-> IF Alive(f) /\ f \in F
                                        THEN [family[f] EXCEPT !.state = "ended"] ELSE family[f]]

LEMMA ServeStep ==
  ASSUME TypeOK, NEW j \in Jobs, Serve(j) \/ Outage(j) \/ Expired(j)
  PROVE  /\ job[j] # None /\ job[j].answer = None /\ UNCHANGED <<Browser, late>>
         /\ spared \subseteq spared' /\ spared' \subseteq Families
         /\ \/ Plain(j)
            \/ \E f \in Families, n \in Nat : Succeeds(j, f, n) \/ Alarms(j, f, n)
            \/ \E f \in Families : Begins(j, f)
            \/ Revokes(j)
<1>1. job[j] # None /\ job[j].answer = None /\ UNCHANGED <<Browser, late>>
  BY DEF Serve, ServeRefresh, ServeQuery, ServeLogin, ServeLogout, ServeChange, Outage,
     RefreshOutage, QueryOutage, LoginOutage, LogoutOutage, ChangeOutage, Expired, Awaits,
     Browser, history
<1>0. spared \subseteq spared' /\ spared' \subseteq Families
  <2>0. spared \subseteq Families BY DEF TypeOK
  <2>1. CASE Serve(j) \/ Expired(j)
    BY <2>0, <2>1 DEF Serve, ServeRefresh, ServeQuery, ServeLogin, ServeLogout, ServeChange,
       Expired, history
  <2>2. CASE Outage(j)
    BY <2>0, <2>2 DEF Outage, RefreshOutage, QueryOutage, LoginOutage, LogoutOutage, ChangeOutage,
       history
  <2>3. QED BY <2>1, <2>2
<1> SUFFICES \/ Plain(j)
             \/ \E f \in Families, n \in Nat : Succeeds(j, f, n) \/ Alarms(j, f, n)
             \/ \E f \in Families : Begins(j, f)
             \/ Revokes(j)
  BY <1>0, <1>1
<1>2. /\ job[j].sid \in Sid \union {None}
      /\ \A f \in Families : family[f].latest \in Nat /\ family[f].recent \in Nat
  BY <1>1, Fields
<1>3. ASSUME NEW status \in {"ok", "refused", "lost"}, NEW token \in Token,
             NEW cookie \in Sid \union {None, Keep}, Reply(j, status, token, cookie)
      PROVE  Gave(j, status, token, cookie)
  BY <1>1, <1>3, Replied DEF Gave, Only
<1>4. None \in Token /\ Bare \in Token /\ Families \subseteq Token BY DEF Token
<1>5. ASSUME NEW cookie \in {None, Keep}, Refuses(j, cookie), UNCHANGED family,
             job[j].op \in Ends \union {"login"} => cookie = Keep
      PROVE  Plain(j)
  BY <1>3, <1>4, <1>5 DEF Refuses, Plain
<1>6. ASSUME ServeRefresh(j)
      PROVE  \/ Plain(j)
             \/ \E f \in Families, n \in Nat : Succeeds(j, f, n) \/ Alarms(j, f, n)
  <2>1. job[j].op \in Refreshes BY <1>6 DEF ServeRefresh, Awaits, Refreshes
  <2>2. "login" \notin Refreshes /\ "logout" \notin Refreshes /\ "change" \notin Refreshes
    BY DEF Refreshes
  <2>3. CASE NoCookie(j) \/ NoFamily(j) BY <1>5, <2>1, <2>2, <2>3 DEF NoCookie, NoFamily, Ends
  <2>4. CASE /\ job[j].sid # None /\ Alive(job[j].sid[1])
             /\ \/ Rotates(j, job[j].sid[1], job[j].sid[2])
                \/ Replays(j, job[j].sid[1], job[j].sid[2])
                \/ Alarm(j, job[j].sid[1], job[j].sid[2])
    <3> DEFINE f == job[j].sid[1]
               n == job[j].sid[2]
    <3>1. f \in Families /\ n \in Nat /\ job[j].sid = <<f, n>> BY <1>2, <2>4 DEF Sid
    <3> HIDE DEF f, n
    <3>2. Rotates(j, f, n) \/ Replays(j, f, n) \/ Alarm(j, f, n) BY <2>4 DEF f, n
    <3>3. Alive(f) BY <2>4 DEF f
    <3>4. <<f, n + 1>> \in Sid /\ f \in Token BY <3>1, <1>4 DEF Sid
    <3>5. CASE Rotates(j, f, n)
      BY <1>3, <2>1, <3>1, <3>3, <3>4, <3>5 DEF Rotates, Succeeds
    <3>6. CASE Replays(j, f, n)
      BY <1>3, <2>1, <3>1, <3>3, <3>4, <3>6 DEF Replays, InGrace, Succeeds
    <3>7. CASE Alarm(j, f, n)
      <4>1. n < family[f].recent BY <1>2, <3>1, <3>7 DEF Alarm, InGrace
      <4>2. Gave(j, "refused", None, None) BY <1>3, <1>4, <3>7 DEF Alarm, Refuses
      <4>3. Alarms(j, f, n) BY <2>1, <3>1, <3>3, <3>7, <4>1, <4>2 DEF Alarm, Alarms
      <4>4. QED BY <3>1, <4>3
    <3>8. QED BY <3>2, <3>5, <3>6, <3>7
  <2>5. QED BY <1>6, <2>3, <2>4 DEF ServeRefresh
<1>7. CASE RefreshOutage(j) BY <1>5, <1>7 DEF RefreshOutage, Awaits, Ends
<1>a. CASE QueryOutage(j)
  <2>1. Gave(j, "ok", None, Keep) BY <1>3, <1>4, <1>a DEF QueryOutage
  <2>2. QED BY <1>a, <2>1 DEF QueryOutage, Awaits, Plain, Ends
<1>b. CASE LoginOutage(j)
  <2>1. Gave(j, "ok", Bare, Keep) BY <1>3, <1>4, <1>b DEF LoginOutage
  <2>2. QED BY <1>b, <2>1 DEF LoginOutage, Awaits, Plain, Ends
<1>c. CASE LogoutOutage(j)
  <2>1. Gave(j, "ok", None, None) /\ job[j].op \in Ends
    BY <1>3, <1>4, <1>c DEF LogoutOutage, Awaits, Ends
  <2>2. family' = [f \in Families |-> IF Alive(f) /\ f \in {}
                                      THEN [family[f] EXCEPT !.state = "ended"] ELSE family[f]]
    BY <1>c DEF LogoutOutage, TypeOK
  <2>3. \A f \in Families : Alive(f) /\ f = Owner(job[j].sid) => f \in spared'
    BY <1>c DEF LogoutOutage
  <2> DEFINE F == {}
  <2>4. /\ F \in SUBSET Families
        /\ \A f \in Families \ F : Alive(f) /\ f = Owner(job[j].sid) => f \in spared'
    BY <2>3
  <2>5. family' = [f \in Families |-> IF Alive(f) /\ f \in F
                                      THEN [family[f] EXCEPT !.state = "ended"] ELSE family[f]]
    BY <2>2
  <2> HIDE DEF F
  <2>6. Revokes(j) BY <2>1, <2>4, <2>5 DEF Revokes
  <2>7. QED BY <2>6
<1>d. CASE ChangeOutage(j)
  <2>1. Gave(j, "ok", None, None) /\ job[j].op \in Ends
    BY <1>3, <1>4, <1>d DEF ChangeOutage, Awaits, Ends
  <2>2. PICK F \in SUBSET {f \in Families : Alive(f)} :
          /\ family' = [f \in Families |-> IF f \in F THEN [family[f] EXCEPT !.state = "ended"]
                                                      ELSE family[f]]
          /\ spared' = spared \union {f \in Families : Alive(f) /\ f \notin F}
    BY <1>d DEF ChangeOutage
  <2>3. F \in SUBSET Families /\ \A f \in Families : f \in F <=> Alive(f) /\ f \in F
    BY <2>2
  <2>4. family' = [f \in Families |-> IF Alive(f) /\ f \in F
                                      THEN [family[f] EXCEPT !.state = "ended"] ELSE family[f]]
    BY <2>2, <2>3
  <2>5. \A f \in Families \ F : Alive(f) => f \in spared' BY <2>2
  <2>6. Revokes(j) BY <2>1, <2>3, <2>4, <2>5 DEF Revokes
  <2>7. QED BY <2>6
<1>8. CASE ServeQuery(j)
  <2>1. Reply(j, IF Accepted(job[j].token) THEN "ok" ELSE "refused", None, Keep) /\ UNCHANGED family
        /\ job[j].op \in {"me", "again"}
    BY <1>8 DEF ServeQuery, Awaits
  <2>2. Gave(j, "ok", None, Keep) \/ Gave(j, "refused", None, Keep) BY <1>3, <1>4, <2>1
  <2>3. QED BY <2>1, <2>2 DEF Plain, Ends
<1>9. CASE Expired(j) BY <1>5, <1>9 DEF Expired
<1>10. CASE ServeLogin(j)
  <2>1. CASE Refuses(j, Keep) /\ UNCHANGED family BY <1>5, <2>1
  <2>2. CASE ~ (Refuses(j, Keep) /\ UNCHANGED family)
    <3> DEFINE new == {f \in Families : family[f].state = "new"}
               f   == CHOOSE f \in new : TRUE
    <3>1. new # {} /\ family' = [family EXCEPT ![f].state = "alive"] /\ Reply(j, "ok", f, <<f, 0>>)
      BY <1>10, <2>2 DEF ServeLogin
    <3>2. f \in new BY <3>1
    <3>3. f \in Families /\ family[f].state = "new" BY <3>2
    <3> HIDE DEF new, f
    <3>4. <<f, 0>> \in Sid /\ f \in Token BY <3>3, <1>4 DEF Sid
    <3>5. Gave(j, "ok", f, <<f, 0>>) BY <1>3, <3>1, <3>4
    <3>6. Begins(j, f) BY <1>10, <3>1, <3>3, <3>5 DEF Begins, ServeLogin, Awaits
    <3>7. QED BY <3>3, <3>6
  <2>3. QED BY <2>1, <2>2
<1>11. CASE ServeLogout(j)
  <2> DEFINE F == {f \in Families : f = Owner(job[j].sid)}
  <2>1. Gave(j, "ok", None, None) /\ job[j].op \in Ends
    BY <1>3, <1>4, <1>11 DEF ServeLogout, Awaits, Ends
  <2>2. \A f \in Families \ F : f # Owner(job[j].sid)
    OBVIOUS
  <2>3. family' = [f \in Families |-> IF Alive(f) /\ f \in F
                                      THEN [family[f] EXCEPT !.state = "ended"] ELSE family[f]]
    BY <1>11 DEF ServeLogout, EndFamilyOf
  <2>4. F \in SUBSET Families OBVIOUS
  <2> HIDE DEF F
  <2>5. Revokes(j) BY <2>1, <2>2, <2>3, <2>4 DEF Revokes
  <2>6. QED BY <2>5
<1>12. CASE ServeChange(j)
  <2>1. CASE Refuses(j, Keep) /\ UNCHANGED family BY <1>5, <2>1
  <2>2. CASE ~ (Refuses(j, Keep) /\ UNCHANGED family)
    <3>1. Gave(j, "ok", None, None) /\ job[j].op \in Ends
      BY <1>3, <1>4, <1>12, <2>2 DEF ServeChange, Awaits, Ends
    <3>3. family' = [f \in Families |-> IF Alive(f) /\ f \in Families
                                        THEN [family[f] EXCEPT !.state = "ended"] ELSE family[f]]
      BY <1>12, <2>2 DEF ServeChange
    <3>4. Revokes(j) BY <3>1, <3>3 DEF Revokes
    <3>5. QED BY <3>4
  <2>3. QED BY <2>1, <2>2
<1>13. QED BY <1>1, <1>6, <1>7, <1>a, <1>b, <1>c, <1>d, <1>8, <1>9, <1>10, <1>11, <1>12
       DEF Serve, Outage

LEMMA LoseStep ==
  ASSUME TypeOK, NEW j \in Jobs, Lose(j)
  PROVE  /\ Gave(j, "lost", None, Keep)
         /\ UNCHANGED <<family, jar, late, spared, out>>
         /\ displaced' \subseteq Families /\ displaced \subseteq displaced'
         /\ \A f \in Families : LoginFor(j, f) => f \in displaced'
<1>1. job[j] # None /\ Reply(j, "lost", None, Keep) /\ None \in Token BY DEF Lose, Token
<1>2. Gave(j, "lost", None, Keep) BY <1>1, Replied DEF Gave, Only
<1>3. displaced' \subseteq Families
  BY DEF Lose, TypeOK
<1>4. \A f \in Families : LoginFor(j, f) => f \in displaced'
  BY NoneApart DEF Lose, LoginFor, Has
<1>5. QED BY <1>2, <1>3, <1>4 DEF Lose

\* An answer delivered: the cookie first, then what its job does next.
LEMMA DeliverStep ==
  ASSUME TypeOK, NEW j \in Jobs, Deliver(j)
  PROVE  /\ Has(j) /\ StoreCookie(j) /\ UNCHANGED <<family, late, spared>>
         /\ jar' \in Sid \union {None} /\ displaced' \subseteq Families
         /\ (Only(j) /\ job'[j] = None) \/ \E op \in {"me", "renew", "again"} : Asked(j, op)
         /\ out' \in BOOLEAN
         /\ job[j].op \in Refreshes \union {"me", "again"} => out' = out
         /\ job[j].op \in Ends => out' = out \/ job[j].answer.status = "ok"
         /\ job[j].op = "login" => out' = (out /\ job[j].answer.status # "ok")
<1>1. Has(j) /\ StoreCookie(j) /\ UNCHANGED <<family, late, spared>>
  BY DEF Deliver, Restored, QueryAnswered, Renewed, LoggedIn, LoggedOut, PasswordChanged, Answered, Has
<1>2. /\ jar \in Sid \union {None} /\ job[j].answer.cookie \in Sid \union {None, Keep}
      /\ job[j].answer.token \in Token /\ job[j] # None /\ job[j] \in Call
  BY <1>1, Fields DEF Has
<1>3. jar' \in Sid \union {None} BY <1>1, <1>2 DEF StoreCookie, Stored
<1>4. displaced' \subseteq Families
  <2>1. Alive(Owner(jar)) => Owner(jar) \in Families BY <1>2 DEF Alive, Owner, Sid
  <2>2. QED BY <1>1, <2>1 DEF StoreCookie, TypeOK
<1>5. (Only(j) /\ job'[j] = None) \/ \E op \in {"me", "renew", "again"} : Asked(j, op)
  <2>1. ASSUME Done(j) PROVE Only(j) /\ job'[j] = None BY <2>1 DEF Done, Only, TypeOK
  <2>2. None \in Token /\ {"me", "renew", "again"} \subseteq Ops BY DEF Token, Ops
  <2>3. ASSUME NEW op \in {"me", "renew", "again"}, NEW token \in Token, Sends(j, op, token)
        PROVE  Asked(j, op)
    BY <1>2, <1>3, <2>2, <2>3, Resent DEF Asked, Only
  <2>4. CASE Restored(j)
    <3>1. CASE Done(j) BY <2>1, <3>1
    <3>2. CASE job' = [job EXCEPT ![j] = [@ EXCEPT !.op = "me", !.sid = jar', !.token = Got(j),
                                                   !.held = Got(j), !.answer = None]]
      <4>1. Asked(j, "me") BY <1>2, <1>3, <2>2, <3>2, Resent DEF Asked, Only, Got
      <4>2. QED BY <4>1
    <3>3. QED BY <2>4, <3>1, <3>2 DEF Restored
  <2>5. CASE QueryAnswered(j) BY <2>1, <2>2, <2>3, <2>5 DEF QueryAnswered
  <2>6. CASE Renewed(j) BY <1>2, <2>1, <2>2, <2>3, <2>6 DEF Renewed, Got
  <2>7. CASE LoggedIn(j) \/ LoggedOut(j) \/ PasswordChanged(j)
    BY <2>1, <2>7 DEF LoggedIn, LoggedOut, PasswordChanged
  <2>8. QED BY <2>4, <2>5, <2>6, <2>7 DEF Deliver
<1>6. /\ out' \in BOOLEAN
      /\ job[j].op \in Refreshes \union {"me", "again"} => out' = out
      /\ job[j].op \in Ends => out' = out \/ job[j].answer.status = "ok"
      /\ job[j].op = "login" => out' = (out /\ job[j].answer.status # "ok")
  <2>1. out \in BOOLEAN BY DEF TypeOK
  <2>2. CASE Restored(j) \/ QueryAnswered(j) \/ Renewed(j)
    <3>1. job[j].op \in {"refresh", "me", "again", "renew"} /\ out' = out
      BY <2>2 DEF Restored, QueryAnswered, Renewed, Answered
    <3>2. QED BY <2>1, <3>1 DEF Ends, Refreshes
  <2>3. CASE LoggedIn(j)
    <3>1. job[j].op = "login" /\ IF job[j].answer.status = "ok" THEN out' = FALSE ELSE out' = out
      BY <2>3 DEF LoggedIn, Answered, Status
    <3>2. QED BY <2>1, <3>1 DEF Ends, Refreshes
  <2>4. CASE LoggedOut(j) \/ PasswordChanged(j)
    <3>1. job[j].op \in Ends /\ out' = (out \/ job[j].answer.status = "ok")
      BY <2>4 DEF LoggedOut, PasswordChanged, Answered, Status, Ends
    <3>2. QED BY <2>1, <3>1 DEF Ends, Refreshes
  <2>5. QED BY <2>2, <2>3, <2>4 DEF Deliver
<1>7. QED BY <1>1, <1>3, <1>4, <1>5, <1>6
-----------------------------------------------------------------------------
(* Types.                                                                   *)

Store == [open : BOOLEAN, token : Token, user : BOOLEAN, ready : BOOLEAN]
State == [state : {"new", "alive", "ended", "stolen"}, latest : Nat, recent : Nat]

LEMMA StoreEdits ==
  ASSUME TypeOK, NEW t \in Tabs, NEW token \in Token,
         \/ SetSession(t, token) \/ SetToken(t, token) \/ Clear(t) \/ UNCHANGED tab
         \/ tab' = [tab EXCEPT ![t].open = TRUE]
  PROVE  tab' \in [Tabs -> Store]
<1> DEFINE a == [open |-> TRUE, token |-> token, user |-> TRUE, ready |-> TRUE]
           b == [tab[t] EXCEPT !.token = token]
           c == [open |-> TRUE, token |-> None, user |-> FALSE, ready |-> TRUE]
           d == [tab[t] EXCEPT !.open = TRUE]
<1>1. tab \in [Tabs -> Store] /\ tab[t] \in Store BY DEF TypeOK, Store
<1>2. a \in Store /\ c \in Store BY DEF Store, Token
<1>3. b \in Store /\ d \in Store BY <1>1 DEF Store
<1>4. \/ tab' = [tab EXCEPT ![t] = a] \/ tab' = [tab EXCEPT ![t] = b]
      \/ tab' = [tab EXCEPT ![t] = c] \/ tab' = [tab EXCEPT ![t] = d] \/ tab' = tab
  BY DEF SetSession, SetToken, Clear
<1> HIDE DEF a, b, c, d
<1>5. QED BY <1>1, <1>2, <1>3, <1>4

LEMMA StoreStep == ASSUME TypeOK, [Next]_vars PROVE tab' \in [Tabs -> Store]
<1>0. tab \in [Tabs -> Store] BY DEF TypeOK, Store
<1>1. CASE \E t \in Tabs : Page(t)
  <2> PICK t \in Tabs : Page(t) BY <1>1
  <2>1. UNCHANGED tab \/ tab' = [tab EXCEPT ![t].open = TRUE]
    BY DEF Page, Load, Query, Login, Logout, ChangePassword, Submit
  <2>2. QED BY <2>1, StoreEdits DEF Token
<1>2. CASE \E j \in Jobs : Serve(j) \/ Fault(j)
  BY <1>0, <1>2 DEF Serve, ServeRefresh, ServeQuery, ServeLogin, ServeLogout, ServeChange, Fault,
     Outage, RefreshOutage, QueryOutage, LoginOutage, LogoutOutage, ChangeOutage, Expired, Lose
<1>3. CASE \E j \in Jobs : Deliver(j)
  <2> PICK j \in Jobs : Deliver(j) BY <1>3
  <2>1. job[j] \in Call /\ job[j].answer \in Answer BY DeliverStep, Fields DEF Has
  <2>2. job[j].held \in Token /\ Got(j) \in Token BY <2>1 DEF Call, Answer, Got
  <2>3. j[1] \in Tabs BY StudiosAreTabs DEF Jobs
  <2>4. \E token \in Token : \/ SetSession(j[1], token) \/ SetToken(j[1], token) \/ Clear(j[1])
                             \/ UNCHANGED tab
    BY <2>2 DEF Deliver, Restored, QueryAnswered, Renewed, SessionOver, LoggedIn, LoggedOut,
       PasswordChanged
  <2>5. QED BY <2>3, <2>4, StoreEdits
<1>4. CASE \E f \in Families : GraceEnds(f) BY <1>0, <1>4 DEF GraceEnds
<1>5. CASE UNCHANGED vars BY <1>0, <1>5 DEF vars
<1>6. QED BY <1>1, <1>2, <1>3, <1>4, <1>5 DEF Next

\* A family is begun once, rotates while it is alive, and does not come back.
Moves(f) ==
  \/ family'[f] = family[f]
  \/ /\ family[f].state = "new" /\ family'[f].state = "alive"
     /\ family'[f].latest = family[f].latest /\ family'[f].recent = family[f].recent
  \/ /\ family[f].state = "alive" /\ family'[f].state \in {"alive", "ended", "stolen"}
     /\ family'[f].latest >= family[f].latest /\ family'[f].latest \in Nat
     /\ family'[f].recent = family[f].recent
  \/ /\ family[f].state = "alive" /\ family'[f].state = "alive"
     /\ family'[f].latest = family[f].latest /\ family'[f].recent = family[f].latest

LEMMA FamiliesMove ==
  ASSUME TypeOK, [Next]_vars
  PROVE  family' \in [Families -> State] /\ \A f \in Families : Moves(f)
<1>0. family \in [Families -> State] BY DEF TypeOK, State
<1>a. UNCHANGED family => family' \in [Families -> State] /\ \A f \in Families : Moves(f)
  BY <1>0 DEF Moves
<1>b. ASSUME NEW f \in Families, NEW v \in State, family' = [family EXCEPT ![f] = v],
             \/ /\ family[f].state = "new" /\ v.state = "alive"
                /\ v.latest = family[f].latest /\ v.recent = family[f].recent
             \/ /\ family[f].state = "alive" /\ v.state \in {"alive", "ended", "stolen"}
                /\ v.latest >= family[f].latest /\ v.recent = family[f].recent
             \/ /\ family[f].state = "alive" /\ v.state = "alive"
                /\ v.latest = family[f].latest /\ v.recent = family[f].latest
      PROVE  family' \in [Families -> State] /\ \A g \in Families : Moves(g)
  <2>1. family'[f] = v /\ \A g \in Families \ {f} : family'[g] = family[g] BY <1>0, <1>b
  <2>2. v.latest \in Nat BY DEF State
  <2>3. Moves(f) BY <1>b, <2>1, <2>2 DEF Moves
  <2>4. \A g \in Families \ {f} : Moves(g) BY <2>1 DEF Moves
  <2>5. QED BY <1>0, <1>b, <2>3, <2>4
<1>1. CASE \E j \in Jobs : Serve(j) \/ Outage(j) \/ Expired(j)
  <2> PICK j \in Jobs : Serve(j) \/ Outage(j) \/ Expired(j) BY <1>1
  <2>1. CASE Plain(j) BY <1>a, <2>1 DEF Plain
  <2>2. ASSUME NEW f \in Families, NEW n \in Nat, Succeeds(j, f, n) \/ Alarms(j, f, n)
        PROVE  family' \in [Families -> State] /\ \A g \in Families : Moves(g)
    <3>0. family[f] \in State /\ family[f].state = "alive" BY <1>0, <2>2 DEF Succeeds, Alarms, Alive
    <3>1. CASE UNCHANGED family BY <1>a, <3>1
    <3>2. CASE family' = [family EXCEPT ![f].latest = n + 1] /\ n = family[f].latest
      <4> DEFINE v == [family[f] EXCEPT !.latest = n + 1]
      <4>1. v \in State /\ v.state = "alive" /\ v.latest = n + 1 /\ v.recent = family[f].recent
        BY <3>0 DEF State
      <4>2. family' = [family EXCEPT ![f] = v] BY <3>2
      <4>3. v.latest >= family[f].latest BY <3>2, <4>1
      <4> HIDE DEF v
      <4>4. QED BY <1>b, <3>0, <4>1, <4>2, <4>3
    <3>3. CASE family' = [family EXCEPT ![f].state = "stolen"]
      <4> DEFINE v == [family[f] EXCEPT !.state = "stolen"]
      <4>1. /\ v \in State /\ v.state = "stolen" /\ v.latest = family[f].latest
            /\ v.recent = family[f].recent /\ v.latest \in Nat
        BY <3>0 DEF State
      <4>2. family' = [family EXCEPT ![f] = v] BY <3>3
      <4>3. v.latest >= family[f].latest BY <4>1
      <4> HIDE DEF v
      <4>4. QED BY <1>b, <3>0, <4>1, <4>2, <4>3
    <3>4. QED BY <2>2, <3>1, <3>2, <3>3 DEF Succeeds, Alarms
  <2>3. ASSUME NEW f \in Families, Begins(j, f)
        PROVE  family' \in [Families -> State] /\ \A g \in Families : Moves(g)
    <3> DEFINE v == [family[f] EXCEPT !.state = "alive"]
    <3>1. /\ v \in State /\ v.state = "alive" /\ v.latest = family[f].latest
          /\ v.recent = family[f].recent
      BY <1>0 DEF State
    <3>2. family' = [family EXCEPT ![f] = v] /\ family[f].state = "new" BY <2>3 DEF Begins
    <3> HIDE DEF v
    <3>3. QED BY <1>b, <3>1, <3>2
  <2>4. CASE Revokes(j)
    <3> PICK F \in SUBSET Families :
          family' = [f \in Families |-> IF Alive(f) /\ f \in F
                                        THEN [family[f] EXCEPT !.state = "ended"] ELSE family[f]]
      BY <2>4 DEF Revokes
    <3>1. ASSUME NEW f \in Families PROVE family'[f] \in State /\ Moves(f)
      <4> DEFINE v == [family[f] EXCEPT !.state = "ended"]
      <4>1. /\ v \in State /\ v.state = "ended" /\ v.latest = family[f].latest
            /\ v.recent = family[f].recent /\ v.latest \in Nat
        BY <1>0 DEF State
      <4>2. family'[f] = family[f] \/ (Alive(f) /\ family'[f] = v) OBVIOUS
      <4> HIDE DEF v
      <4>3. QED BY <1>0, <4>1, <4>2 DEF Moves, Alive
    <3>2. QED BY <3>1
  <2>5. QED BY <2>1, <2>2, <2>3, <2>4, ServeStep
<1>2. CASE \E f \in Families : GraceEnds(f)
  <2> PICK f \in Families : GraceEnds(f) BY <1>2
  <2> DEFINE v == [family[f] EXCEPT !.recent = family[f].latest]
  <2>1. /\ v \in State /\ v.state = family[f].state /\ v.latest = family[f].latest
        /\ v.recent = family[f].latest
    BY <1>0 DEF State
  <2>2. family' = [family EXCEPT ![f] = v] /\ family[f].state = "alive" BY DEF GraceEnds, Alive
  <2> HIDE DEF v
  <2>3. QED BY <1>b, <2>1, <2>2
<1>3. CASE \E t \in Tabs : Page(t) BY <1>3, <1>a, PageStep
<1>4. CASE \E j \in Jobs : Deliver(j) \/ Lose(j) BY <1>4, <1>a, DeliverStep, LoseStep
<1>5. CASE UNCHANGED vars BY <1>5, <1>a DEF vars
<1>6. QED BY <1>1, <1>2, <1>3, <1>4, <1>5 DEF Next, Fault

\* What an outage spared stays on record.
LEMMA SparedGrows ==
  ASSUME TypeOK, [Next]_vars
  PROVE  spared \subseteq spared' /\ spared' \subseteq Families
<1>0. spared \subseteq Families BY DEF TypeOK
<1>1. CASE \E j \in Jobs : Serve(j) \/ Outage(j) \/ Expired(j) BY <1>1, ServeStep
<1>2. CASE \E j \in Jobs : Deliver(j) \/ Lose(j) BY <1>0, <1>2, DeliverStep, LoseStep
<1>3. CASE \E t \in Tabs : Page(t) BY <1>0, <1>3, PageStep
<1>4. CASE \E f \in Families : GraceEnds(f) BY <1>0, <1>4 DEF GraceEnds
<1>5. CASE UNCHANGED vars BY <1>0, <1>5 DEF vars, history
<1>6. QED BY <1>1, <1>2, <1>3, <1>4, <1>5 DEF Next, Fault

LEMMA TypeStep == TypeOK /\ [Next]_vars => TypeOK'
<1> SUFFICES ASSUME TypeOK, [Next]_vars PROVE TypeOK' OBVIOUS
<1>1. family' \in [Families -> State] /\ tab' \in [Tabs -> Store] BY FamiliesMove, StoreStep
<1>2. SUFFICES /\ jar' \in Sid \union {None} /\ job' \in [Jobs -> Call \union {None}]
               /\ forms' \in 0..MaxForms /\ mishaps' \in 0..MaxMishaps
               /\ late' \subseteq Families /\ displaced' \subseteq Families
               /\ out' \in BOOLEAN /\ rejected' \subseteq Tabs
  BY <1>1, SparedGrows DEF TypeOK, State, Store
<1>3. CASE \E t \in Tabs : Page(t)
  <2> PICK t \in Tabs : Page(t) BY <1>3
  <2>1. job' \in [Jobs -> Call \union {None}] /\ UNCHANGED <<Browser, late>>
    BY PageStep DEF Asked, Only
  <2>2. forms' \in 0..MaxForms /\ mishaps' = mishaps /\ rejected' = rejected
    BY BoundsAreNat DEF TypeOK, Page, Load, Query, Login, Logout, ChangePassword, Submit, budget, history
  <2>3. QED BY <2>1, <2>2 DEF TypeOK, Browser
<1>4. CASE \E j \in Jobs : Serve(j) \/ Outage(j) \/ Expired(j)
  <2> PICK j \in Jobs : Serve(j) \/ Outage(j) \/ Expired(j) BY <1>4
  <2>1. job' \in [Jobs -> Call \union {None}] /\ UNCHANGED <<Browser, late>>
    BY ServeStep DEF Plain, Succeeds, Alarms, Begins, Revokes, Gave, Only
  <2>2. forms' = forms /\ mishaps' \in 0..MaxMishaps /\ rejected' = rejected
    BY BoundsAreNat DEF TypeOK, Serve, ServeRefresh, ServeQuery, ServeLogin, ServeLogout, ServeChange,
       Outage, RefreshOutage, QueryOutage, LoginOutage, LogoutOutage, ChangeOutage, Expired, Mishap,
       budget, history
  <2>3. QED BY <2>1, <2>2 DEF TypeOK, Browser
<1>5. CASE \E j \in Jobs : Lose(j)
  <2> PICK j \in Jobs : Lose(j) BY <1>5
  <2>1. /\ job' \in [Jobs -> Call \union {None}] /\ UNCHANGED <<jar, late, out>>
        /\ displaced' \subseteq Families
    BY LoseStep DEF Gave, Only
  <2>2. forms' = forms /\ mishaps' \in 0..MaxMishaps /\ rejected' = rejected
    BY BoundsAreNat DEF TypeOK, Lose, Mishap
  <2>3. QED BY <2>1, <2>2 DEF TypeOK
<1>6. CASE \E j \in Jobs : Deliver(j)
  <2> PICK j \in Jobs : Deliver(j) BY <1>6
  <2>1. /\ job' \in [Jobs -> Call \union {None}] /\ UNCHANGED late /\ displaced' \subseteq Families
        /\ jar' \in Sid \union {None} /\ out' \in BOOLEAN
    BY DeliverStep DEF Asked, Only
  <2>2. j[1] \in Tabs BY StudiosAreTabs DEF Jobs
  <2>3. forms' = forms /\ mishaps' = mishaps /\ rejected' \subseteq Tabs
    BY <2>2 DEF TypeOK, Deliver, Restored, QueryAnswered, Renewed, LoggedIn, LoggedOut,
       PasswordChanged, budget
  <2>4. QED BY <2>1, <2>3 DEF TypeOK
<1>7. CASE \E f \in Families : GraceEnds(f) BY <1>7 DEF GraceEnds, TypeOK, budget
<1>8. CASE UNCHANGED vars BY <1>8 DEF vars, budget, history, TypeOK
<1>9. QED BY <1>3, <1>4, <1>5, <1>6, <1>7, <1>8 DEF Next, Fault
-----------------------------------------------------------------------------
(* Answers.                                                                 *)

LEMMA AnswersStep ==
  ASSUME WebInvariant, [Next]_vars, NEW i \in Jobs
  PROVE  AnswerSound(i)'
<1>0. TypeOK /\ AnswerSound(i) /\ LoginsApart BY DEF WebInvariant
<1>1. \A f \in Families : Moves(f) /\ family[f] \in State /\ family'[f] \in State
  BY <1>0, FamiliesMove DEF TypeOK, State
<1>2. /\ \A f \in Families : Spent(f) => Spent(f)'
      /\ spared \subseteq spared'
  BY <1>0, <1>1, SparedGrows DEF Spent, Moves
<1>3. \A f \in Families : family[f].latest <= family'[f].latest
  BY <1>1 DEF Moves, State
<1>4. ASSUME job'[i] = job[i] PROVE AnswerSound(i)'
  <2>1. SUFFICES ASSUME Has(i) PROVE AnswerSound(i)' BY <1>4 DEF AnswerSound, Has
  <2> DEFINE a == job[i].answer
             s == job[i].sid
  <2>2. /\ a.status = "ok" /\ job[i].op \in Ends =>
             a.cookie = None /\ (s = None \/ Spent(s[1]) \/ s[1] \in spared)
        /\ IsSid(a.cookie) /\ job[i].op \in Refreshes =>
             s # None /\ a.cookie = <<s[1], s[2] + 1>> /\ a.cookie[2] <= family[s[1]].latest
    BY <1>0, <2>1 DEF AnswerSound
  <2>3. s \in Sid \union {None} BY <1>0, <2>1, Fields DEF Has
  <2>4. s # None => s[1] \in Families /\ s[2] \in Nat BY <2>3 DEF Sid
  <2>5. a.status = "ok" /\ job[i].op \in Ends =>
             /\ a.cookie = None
             /\ s = None \/ family'[s[1]].state \in {"ended", "stolen"} \/ s[1] \in spared'
    BY <1>2, <2>2, <2>4 DEF Spent
  <2>6. IsSid(a.cookie) /\ job[i].op \in Refreshes =>
             s # None /\ a.cookie = <<s[1], s[2] + 1>> /\ a.cookie[2] <= family'[s[1]].latest
    <3>1. SUFFICES ASSUME IsSid(a.cookie), job[i].op \in Refreshes
                   PROVE  s # None /\ a.cookie = <<s[1], s[2] + 1>>
                          /\ a.cookie[2] <= family'[s[1]].latest
      OBVIOUS
    <3>2. /\ s # None /\ a.cookie = <<s[1], s[2] + 1>> /\ a.cookie[2] <= family[s[1]].latest
          /\ s[1] \in Families /\ s[2] \in Nat
      BY <2>2, <2>4, <3>1
    <3> DEFINE f == s[1]
               n == s[2] + 1
    <3>3. n \in Nat /\ f \in Families /\ n <= family[f].latest /\ a.cookie = <<f, n>> BY <3>2
    <3>4. family[f].latest \in Nat /\ family'[f].latest \in Nat /\ family[f].latest <= family'[f].latest
      BY <1>1, <1>3, <3>3 DEF State
    <3> HIDE DEF f, n
    <3>5. n <= family'[f].latest BY <3>3, <3>4
    <3>6. a.cookie[2] <= family'[f].latest BY <3>3, <3>5
    <3>7. QED BY <3>2, <3>6 DEF f
  <2>7. QED BY <1>0, <1>4, <2>1, <2>5, <2>6 DEF AnswerSound, Has, IsSid, Spent
<1>5. ASSUME NEW j \in Jobs, Only(j), job'[j] = None \/ job'[j].answer = None
      PROVE  AnswerSound(i)'
  BY <1>4, <1>5 DEF Only, AnswerSound, Has
<1>6. CASE \E j \in Jobs : Serve(j) \/ Outage(j) \/ Expired(j)
  <2> PICK j \in Jobs : Serve(j) \/ Outage(j) \/ Expired(j) BY <1>6
  <2>1. CASE i # j
    <3>1. Only(j) BY <1>0, ServeStep DEF Plain, Succeeds, Alarms, Begins, Revokes, Gave
    <3>2. QED BY <1>4, <2>1, <3>1 DEF Only
  <2>2. ASSUME i = j PROVE AnswerSound(j)'
    <3>0. /\ "login" \notin Refreshes /\ "login" \notin Ends
          /\ \A op \in Refreshes : op \notin Ends
          /\ None \notin Sid /\ Keep \notin Sid
          /\ "ok" # "refused"
      BY NoneApart DEF Refreshes, Ends
    <3>1. CASE Plain(j) BY <3>0, <3>1 DEF Plain, Gave, AnswerSound, Has, IsSid
    <3>2. ASSUME NEW f \in Families, NEW n \in Nat, Succeeds(j, f, n) PROVE AnswerSound(j)'
      <4>1. family[f] \in State /\ family'[f] \in State BY <1>1
      <4>2. n + 1 <= family'[f].latest
        <5>1. CASE n = family[f].latest /\ family' = [family EXCEPT ![f].latest = n + 1]
          BY <1>0, <4>1, <5>1 DEF TypeOK, State
        <5>2. CASE n < family[f].latest /\ UNCHANGED family BY <4>1, <5>2 DEF State
        <5>3. QED BY <3>2, <5>1, <5>2 DEF Succeeds
      <4>3. /\ job'[j].op \in Refreshes /\ job'[j].sid = <<f, n>> /\ job'[j].answer.status = "ok"
            /\ job'[j].answer.cookie = <<f, n + 1>>
        BY <3>2 DEF Succeeds, Gave
      <4>4. <<f, n>> # None BY <3>0 DEF Sid
      <4> DEFINE c == job'[j].answer.cookie
                 s == job'[j].sid
      <4>5. s # None /\ c = <<s[1], s[2] + 1>> /\ s[1] = f /\ c[2] = n + 1 BY <4>3, <4>4
      <4>6. c[2] <= family'[s[1]].latest BY <4>2, <4>5
      <4> HIDE DEF c, s
      <4>7. QED BY <3>0, <4>3, <4>5, <4>6 DEF AnswerSound, Has, IsSid, c, s
    <3>3. ASSUME NEW f \in Families, NEW n \in Nat, Alarms(j, f, n) PROVE AnswerSound(j)'
      BY <3>0, <3>3 DEF Alarms, Gave, AnswerSound, Has, IsSid
    <3>4. ASSUME NEW f \in Families, Begins(j, f) PROVE AnswerSound(j)'
      BY <3>0, <3>4 DEF Begins, Gave, AnswerSound, Has, IsSid
    <3>5. CASE Revokes(j)
      <4> DEFINE s == job[j].sid
      <4>0. job[j] # None /\ s \in Sid \union {None} BY <1>0, <3>5, Fields DEF Revokes, Gave
      <4>1. s = None \/ family'[s[1]].state \in {"ended", "stolen"} \/ s[1] \in spared'
        <5>1. SUFFICES ASSUME s # None, s[1] \notin spared'
                       PROVE  family'[s[1]].state \in {"ended", "stolen"}
          OBVIOUS
        <5>2. s[1] \in Families /\ Owner(s) = s[1] /\ s[1] # None
          BY <4>0, <5>1, NoneApart DEF Sid, Owner
        <5>3. family[s[1]].state # "new" BY <1>0, <4>0, <5>2 DEF LoginsApart, Unheard
        <5>4. family'[s[1]] = IF Alive(s[1]) THEN [family[s[1]] EXCEPT !.state = "ended"]
                                             ELSE family[s[1]]
          BY <3>5, <5>1, <5>2 DEF Revokes
        <5>5. family[s[1]] \in State BY <1>1, <5>2
        <5>6. QED BY <5>2, <5>3, <5>4, <5>5 DEF State, Alive
      <4>2. /\ job'[j].op \in Ends /\ job'[j].sid = s /\ job'[j].answer.status = "ok"
            /\ job'[j].answer.cookie = None
        BY <3>5 DEF Revokes, Gave
      <4> HIDE DEF s
      <4>3. QED BY <3>0, <4>1, <4>2 DEF AnswerSound, Has, IsSid, Spent
    <3>6. QED BY <1>0, <3>1, <3>2, <3>3, <3>4, <3>5, ServeStep
  <2>3. QED BY <2>1, <2>2
<1>7. CASE \E j \in Jobs : Lose(j)
  <2> PICK j \in Jobs : Lose(j) BY <1>7
  <2>1. Gave(j, "lost", None, Keep) BY <1>0, LoseStep
  <2>2. CASE i = j BY <2>1, <2>2, NoneApart DEF Gave, AnswerSound, Has, IsSid
  <2>3. CASE i # j BY <1>4, <2>1, <2>3 DEF Gave, Only
  <2>4. QED BY <2>2, <2>3
<1>8. CASE \E j \in Jobs : Deliver(j) BY <1>0, <1>5, <1>8, DeliverStep DEF Asked
<1>9. CASE \E t \in Tabs : Page(t) BY <1>0, <1>5, <1>9, PageStep DEF Asked
<1>10. CASE \E f \in Families : GraceEnds(f) BY <1>4, <1>10 DEF GraceEnds
<1>11. CASE UNCHANGED vars BY <1>4, <1>11 DEF vars
<1>12. QED BY <1>6, <1>7, <1>8, <1>9, <1>10, <1>11 DEF Next, Fault
-----------------------------------------------------------------------------
(* Logins.                                                                  *)

\* What an answer delivered leaves in the jar: what it held, nothing, the
\* successor of the sid the answered refresh came with, or a login's first sid.
LEMMA JarStep ==
  ASSUME TypeOK, NEW j \in Jobs, Deliver(j), AnswerSound(j)
  PROVE  \/ jar' = jar
         \/ jar' = None
         \/ /\ job[j].op \in Refreshes /\ job[j].sid \in Sid /\ Brings(j)
            /\ jar' = job[j].answer.cookie /\ jar' \in Sid /\ Owner(jar') = Owner(job[j].sid)
         \/ \E f \in Families : /\ LoginFor(j, f) /\ Brings(j) /\ jar' = job[j].answer.cookie
                                /\ jar' = <<f, 0>> /\ Owner(jar') = f
<1>1. /\ Has(j) /\ jar' = Stored(job[j].answer.cookie)
      /\ job[j].sid \in Sid \union {None} /\ job[j].answer.cookie \in Sid \union {None, Keep}
  BY DeliverStep, Fields DEF StoreCookie, Has
<1> DEFINE c == job[j].answer.cookie
           s == job[j].sid
<1>2. CASE c \notin Sid BY <1>1, <1>2 DEF Stored
<1>3. CASE c \in Sid
  <2>1. jar' = c BY <1>1, <1>3, NoneApart DEF Stored
  <2>2. CASE job[j].op \in Refreshes
    <3>1. s # None /\ c = <<s[1], s[2] + 1>> BY <1>1, <1>3, <2>2 DEF AnswerSound, IsSid
    <3>2. s \in Sid /\ Owner(c) = s[1] /\ Owner(s) = s[1]
      BY <1>1, <1>3, <3>1, NoneApart DEF Owner
    <3>3. QED BY <1>1, <1>3, <2>1, <2>2, <3>2 DEF Brings, IsSid
  <2>3. CASE job[j].op \notin Refreshes
    <3>1. job[j].op = "login" /\ job[j].answer.status = "ok" BY <1>1, <1>3, <2>3 DEF AnswerSound, IsSid
    <3>2. job[j].answer.token \in Families /\ c = <<job[j].answer.token, 0>>
      BY <1>1, <1>3, <3>1, NoneApart DEF AnswerSound
    <3>3. Owner(c) = job[j].answer.token BY <1>3, <3>2, NoneApart DEF Owner
    <3>4. QED BY <1>1, <1>3, <2>1, <3>1, <3>2, <3>3 DEF LoginFor, Brings, IsSid
  <2>4. QED BY <2>2, <2>3
<1>4. QED BY <1>2, <1>3

\* A login's answer is either kept, or given now to a family that is new.
LEMMA LoginGiven ==
  ASSUME TypeOK, [Next]_vars, NEW i \in Jobs, NEW f \in Families, LoginFor(i, f)'
  PROVE  \/ LoginFor(i, f) /\ job'[i] = job[i]
         \/ Begins(i, f) /\ UNCHANGED Browser /\ \A j \in Jobs \ {i} : job'[j] = job[j]
<1>1. CASE job'[i] = job[i] BY <1>1 DEF LoginFor, Has
<1>2. ASSUME job'[i] # job[i]
      PROVE  Begins(i, f) /\ UNCHANGED Browser /\ \A j \in Jobs \ {i} : job'[j] = job[j]
  <2>0. /\ job'[i] # None /\ job'[i].answer # None /\ job'[i].op = "login"
        /\ job'[i].answer.status = "ok" /\ job'[i].answer.token = f
    BY DEF LoginFor, Has
  <2>1. ASSUME NEW t \in Tabs, Page(t) PROVE FALSE
    BY <1>2, <2>0, <2>1, PageStep DEF Asked, Only
  <2>2. ASSUME NEW j \in Jobs, Lose(j) PROVE FALSE
    BY <1>2, <2>0, <2>2, LoseStep DEF Gave, Only
  <2>3. ASSUME NEW j \in Jobs, Deliver(j) PROVE FALSE
    BY <1>2, <2>0, <2>3, DeliverStep DEF Asked, Only
  <2>4. ASSUME NEW j \in Jobs, Serve(j) \/ Outage(j) \/ Expired(j)
        PROVE  Begins(i, f) /\ UNCHANGED Browser /\ \A k \in Jobs \ {i} : job'[k] = job[k]
    <3>1. Only(j) /\ UNCHANGED Browser
      BY <2>4, ServeStep DEF Plain, Succeeds, Alarms, Begins, Revokes, Gave
    <3>2. i = j BY <1>2, <3>1 DEF Only
    <3>3. ~ Plain(j) BY <2>0, <3>2, NoneApart DEF Plain, Gave
    <3>4. \A g \in Families, n \in Nat : ~ Succeeds(j, g, n) /\ ~ Alarms(j, g, n)
      BY <2>0, <3>2 DEF Succeeds, Alarms, Gave, Refreshes
    <3>5. ~ Revokes(j) BY <2>0, <3>2 DEF Revokes, Gave, Ends
    <3>6. PICK g \in Families : Begins(j, g) BY <2>4, <3>3, <3>4, <3>5, ServeStep
    <3>7. g = f BY <2>0, <3>2, <3>6 DEF Begins, Gave
    <3>8. QED BY <3>1, <3>2, <3>6, <3>7 DEF Only
  <2>5. ASSUME NEW g \in Families, GraceEnds(g) PROVE FALSE BY <1>2, <2>5 DEF GraceEnds
  <2>6. CASE UNCHANGED vars BY <1>2, <2>6 DEF vars
  <2>7. QED BY <2>1, <2>2, <2>3, <2>4, <2>5, <2>6 DEF Next, Fault
<1>3. QED BY <1>1, <1>2

\* A family nothing names is named by nothing new, but by its login's answer
\* once that is delivered.
LEMMA StaysUnheard ==
  ASSUME WebInvariant, [Next]_vars, NEW f \in Families, Unheard(f),
         \A j \in Jobs : LoginFor(j, f) => job'[j] = job[j]
  PROVE  Unheard(f)'
<1>0. TypeOK /\ family[f] \in State /\ family'[f] \in State
  BY FamiliesMove DEF WebInvariant, TypeOK, State
<1>1. /\ family[f].latest = 0 /\ family[f].recent = 0 /\ Owner(jar) # f
      /\ \A j \in Jobs : job[j] # None => Owner(job[j].sid) # f
  BY DEF Unheard
<1>2. family'[f].latest = 0 /\ family'[f].recent = 0
  <2>1. CASE \E t \in Tabs : Page(t) BY <1>0, <1>1, <2>1, PageStep
  <2>2. CASE \E j \in Jobs : Deliver(j) \/ Lose(j) BY <1>0, <1>1, <2>2, DeliverStep, LoseStep
  <2>3. CASE \E g \in Families : GraceEnds(g)
    <3> PICK g \in Families : GraceEnds(g) BY <2>3
    <3>1. g # f BY <1>1 DEF GraceEnds
    <3>2. family'[f] = family[f] BY <1>0, <3>1 DEF GraceEnds, TypeOK
    <3>3. QED BY <1>1, <3>2
  <2>4. CASE \E j \in Jobs : Serve(j) \/ Outage(j) \/ Expired(j)
    <3> PICK j \in Jobs : Serve(j) \/ Outage(j) \/ Expired(j) BY <2>4
    <3>1. CASE Plain(j) BY <1>1, <3>1 DEF Plain
    <3>2. ASSUME NEW g \in Families, NEW n \in Nat, Succeeds(j, g, n) \/ Alarms(j, g, n)
          PROVE  family'[f] = family[f]
      <4>1. job[j] # None /\ job[j].sid = <<g, n>> /\ <<g, n>> # None
        BY <3>2, NoneApart DEF Succeeds, Alarms, Gave, Sid
      <4>2. g # f BY <1>1, <4>1 DEF Owner
      <4>3. QED BY <1>0, <3>2, <4>2 DEF Succeeds, Alarms, TypeOK
    <3>3. ASSUME NEW g \in Families, Begins(j, g)
          PROVE  family'[f].latest = 0 /\ family'[f].recent = 0
      BY <1>0, <1>1, <3>3 DEF Begins, TypeOK, State
    <3>4. CASE Revokes(j)
      <4>1. family'[f] = family[f] \/ family'[f] = [family[f] EXCEPT !.state = "ended"]
        BY <3>4 DEF Revokes
      <4>2. QED BY <1>0, <1>1, <4>1 DEF State
    <3>5. QED BY <1>0, <1>1, <3>1, <3>2, <3>3, <3>4, ServeStep
  <2>5. CASE UNCHANGED vars BY <1>1, <2>5 DEF vars
  <2>6. QED BY <2>1, <2>2, <2>3, <2>4, <2>5 DEF Next, Fault
<1>3. Owner(jar') # f
  <2>1. CASE jar' = jar BY <1>1, <2>1
  <2>2. CASE jar' # jar
    <3>1. PICK j \in Jobs : Deliver(j)
      BY <1>0, <2>2, PageStep, ServeStep, LoseStep DEF Next, Fault, Browser, GraceEnds, vars
    <3>2. AnswerSound(j) BY DEF WebInvariant
    <3>3. Has(j) /\ job[j] # None BY <1>0, <3>1, DeliverStep DEF Has
    <3>4. Owner(job[j].sid) # f /\ Owner(None) # f BY <1>1, <3>3, NoneApart DEF Owner
    <3>5. ~ LoginFor(j, f)
      <4>1. job'[j] # job[j] BY <1>0, <3>1, <3>3, DeliverStep DEF Has, Asked
      <4>2. QED BY <4>1
    <3>6. \/ Owner(jar') = Owner(job[j].sid) \/ Owner(jar') = None
          \/ \E g \in Families : LoginFor(j, g) /\ Owner(jar') = g
      BY <1>0, <2>2, <3>1, <3>2, JarStep DEF Owner
    <3>7. None # f BY NoneApart
    <3>8. QED BY <3>4, <3>5, <3>6, <3>7
  <2>3. QED BY <2>1, <2>2
<1>4. ASSUME NEW i \in Jobs, job'[i] # None PROVE Owner(job'[i].sid) # f
  <2>1. CASE job'[i] = job[i] BY <1>1, <1>4, <2>1
  <2>2. CASE job'[i] # job[i]
    <3>1. CASE \E t \in Tabs : Page(t)
      <4>1. job'[i].sid = jar' BY <1>0, <2>2, <3>1, PageStep DEF Asked, Only
      <4>2. QED BY <1>3, <4>1
    <3>2. CASE \E j \in Jobs : Serve(j) \/ Outage(j) \/ Expired(j) \/ Lose(j)
      <4>1. job[i] # None /\ job'[i].sid = job[i].sid
        BY <1>0, <2>2, <3>2, ServeStep, LoseStep
        DEF Plain, Succeeds, Alarms, Begins, Revokes, Gave, Only
      <4>2. QED BY <1>1, <4>1
    <3>3. CASE \E j \in Jobs : Deliver(j)
      <4>1. job'[i].sid = jar' BY <1>0, <1>4, <2>2, <3>3, DeliverStep DEF Asked, Only
      <4>2. QED BY <1>3, <4>1
    <3>4. QED BY <2>2, <3>1, <3>2, <3>3 DEF Next, Fault, GraceEnds, vars
  <2>3. QED BY <2>1, <2>2
<1>5. QED BY <1>2, <1>3, <1>4 DEF Unheard

LEMMA LoginsStep == ASSUME WebInvariant, [Next]_vars PROVE LoginsApart'
<1>0. TypeOK /\ LoginsApart /\ TypeOK' BY TypeStep DEF WebInvariant
<1>1. ASSUME NEW i \in Jobs, job'[i] # None, job'[i].op = "login" PROVE i[2] = "act"
  <2>1. CASE job[i] # None /\ job[i].op = "login" BY <1>0, <2>1 DEF LoginsApart
  <2>2. CASE ~ (job[i] # None /\ job[i].op = "login")
    <3>0. job'[i] # job[i] BY <1>1, <2>2
    <3>1. CASE \E t \in Tabs : Page(t) BY <1>0, <1>1, <3>0, <3>1, PageStep DEF Asked, Only
    <3>2. CASE \E j \in Jobs : Serve(j) \/ Outage(j) \/ Expired(j) \/ Lose(j)
      BY <1>0, <1>1, <2>2, <3>0, <3>2, ServeStep, LoseStep
      DEF Plain, Succeeds, Alarms, Begins, Revokes, Gave, Only
    <3>3. CASE \E j \in Jobs : Deliver(j)
      BY <1>0, <1>1, <3>0, <3>3, DeliverStep DEF Asked, Only
    <3>4. QED BY <3>0, <3>1, <3>2, <3>3 DEF Next, Fault, GraceEnds, vars
  <2>3. QED BY <2>1, <2>2
<1>2. ASSUME NEW f \in Families, family'[f].state = "new"
      PROVE  Unheard(f)' /\ \A j \in Jobs : ~ LoginFor(j, f)'
  <2>1. family[f].state = "new" BY <1>0, <1>2, FamiliesMove DEF Moves
  <2>2. Unheard(f) /\ \A j \in Jobs : ~ LoginFor(j, f) BY <1>0, <2>1 DEF LoginsApart
  <2>3. Unheard(f)' BY <2>2, StaysUnheard
  <2>4. ASSUME NEW j \in Jobs, LoginFor(j, f)' PROVE FALSE
    <3>1. Begins(j, f) BY <1>0, <2>2, <2>4, LoginGiven
    <3>2. family'[f].state = "alive" BY <1>0, <3>1 DEF Begins, TypeOK, State
    <3>3. QED BY <1>2, <3>2
  <2>5. QED BY <2>3, <2>4
<1>3. ASSUME NEW f \in Families, NEW i \in Jobs, LoginFor(i, f)'
      PROVE  Unheard(f)' /\ \A j \in Jobs : LoginFor(j, f)' => i = j
  <2>1. CASE LoginFor(i, f) /\ job'[i] = job[i]
    <3>1. Unheard(f) /\ \A j \in Jobs : LoginFor(j, f) => i = j BY <1>0, <2>1 DEF LoginsApart
    <3>2. Unheard(f)' BY <2>1, <3>1, StaysUnheard
    <3>3. family[f].state # "new" BY <1>0, <2>1 DEF LoginsApart
    <3>4. ASSUME NEW j \in Jobs, LoginFor(j, f)' PROVE i = j
      BY <1>0, <3>1, <3>3, <3>4, LoginGiven DEF Begins
    <3>5. QED BY <3>2, <3>4
  <2>2. CASE Begins(i, f) /\ UNCHANGED Browser /\ \A j \in Jobs \ {i} : job'[j] = job[j]
    <3>1. Unheard(f) /\ \A j \in Jobs : ~ LoginFor(j, f)
      BY <1>0, <2>2 DEF LoginsApart, Begins
    <3>2. Unheard(f)' BY <3>1, StaysUnheard
    <3>3. ASSUME NEW j \in Jobs, LoginFor(j, f)', i # j PROVE FALSE
      <4>1. job'[j] = job[j] BY <2>2, <3>3
      <4>2. LoginFor(j, f) BY <3>3, <4>1 DEF LoginFor, Has
      <4>3. QED BY <3>1, <4>2
    <3>4. QED BY <3>2, <3>3
  <2>3. QED BY <1>0, <1>3, <2>1, <2>2, LoginGiven
<1>4. QED BY <1>1, <1>2, <1>3 DEF LoginsApart
-----------------------------------------------------------------------------
(* Grace windows.                                                           *)

\* InTime after the step.
TimelyNext(s) ==
  s # None /\ s[1] \in Families /\ family'[s[1]].state = "alive" /\ s[1] \notin late' =>
    family'[s[1]].recent <= s[2]

LEMMA GraceNext ==
  ASSUME TimelyNext(jar'),
         \A j \in Jobs :
           /\ job'[j] # None /\ job'[j].op \in Refreshes /\ job'[j].answer = None =>
                TimelyNext(job'[j].sid)
           /\ job'[j] # None /\ job'[j].answer # None /\ job'[j].answer.cookie \in Sid =>
                TimelyNext(job'[j].answer.cookie)
  PROVE  GraceKept'
BY DEF TimelyNext, GraceKept, InTime, Brings, Has, IsSid, Alive

\* Only the end of a window moves recent or adds to late.
LEMMA WindowStep ==
  ASSUME WebInvariant, [Next]_vars, \A f \in Families : ~ GraceEnds(f)
  PROVE  late' = late /\ \A f \in Families : family'[f].recent = family[f].recent
<1>0. TypeOK /\ family \in [Families -> State] BY DEF WebInvariant, TypeOK, State
<1>1. CASE \E j \in Jobs : Serve(j) \/ Outage(j) \/ Expired(j)
  <2> PICK j \in Jobs : Serve(j) \/ Outage(j) \/ Expired(j) BY <1>1
  <2>1. CASE Plain(j) BY <2>1, <1>0, ServeStep DEF Plain
  <2>2. ASSUME NEW f \in Families, NEW n \in Nat, Succeeds(j, f, n) \/ Alarms(j, f, n)
        PROVE  \A g \in Families : family'[g].recent = family[g].recent
    BY <1>0, <2>2 DEF Succeeds, Alarms, State
  <2>3. ASSUME NEW f \in Families, Begins(j, f)
        PROVE  \A g \in Families : family'[g].recent = family[g].recent
    BY <1>0, <2>3 DEF Begins, State
  <2>4. CASE Revokes(j)
    <3>1. ASSUME NEW g \in Families PROVE family'[g].recent = family[g].recent
      <4>1. family'[g] = family[g] \/ family'[g] = [family[g] EXCEPT !.state = "ended"]
        BY <2>4 DEF Revokes
      <4>2. QED BY <1>0, <4>1 DEF State
    <3>2. QED BY <1>0, <3>1, ServeStep
  <2>5. QED BY <1>0, <2>1, <2>2, <2>3, <2>4, ServeStep
<1>2. CASE \E t \in Tabs : Page(t) BY <1>0, <1>2, PageStep
<1>3. CASE \E j \in Jobs : Deliver(j) \/ Lose(j) BY <1>0, <1>3, DeliverStep, LoseStep
<1>4. CASE UNCHANGED vars BY <1>4 DEF vars, history
<1>5. QED BY <1>1, <1>2, <1>3, <1>4 DEF Next, Fault

\* A sid in time stays so until a window ends.
LEMMA StaysInTime ==
  ASSUME WebInvariant, [Next]_vars, \A f \in Families : ~ GraceEnds(f),
         NEW s \in Sid \union {None}, InTime(s)
  PROVE  TimelyNext(s)
<1>1. SUFFICES ASSUME s # None, s[1] \in Families, family'[s[1]].state = "alive", s[1] \notin late'
               PROVE  family'[s[1]].recent <= s[2]
  BY DEF TimelyNext
<1>2. s[1] \in Families /\ s[2] \in Nat BY <1>1 DEF Sid
<1>3. late' = late /\ family'[s[1]].recent = family[s[1]].recent BY <1>2, WindowStep
<1>5. TypeOK /\ LoginsApart BY DEF WebInvariant
<1>6. Moves(s[1]) BY <1>2, <1>5, FamiliesMove
<1>7. CASE family[s[1]].state = "new"
  <2>1. family[s[1]].recent = 0 BY <1>2, <1>5, <1>7 DEF LoginsApart, Unheard
  <2>2. QED BY <1>2, <1>3, <2>1
<1>8. CASE family[s[1]].state # "new"
  <2>1. Alive(s[1]) BY <1>1, <1>2, <1>6, <1>8 DEF Moves, Alive
  <2>2. QED BY <1>1, <1>3, <2>1 DEF InTime
<1>9. QED BY <1>7, <1>8

\* When the window of f ends, what the browser holds is in time: were one of
\* its sids not, the browser would be lagging, and f late.
LEMMA WindowEnds ==
  ASSUME WebInvariant, NEW f \in Families, GraceEnds(f)
  PROVE  GraceKept'
<1>0. TypeOK /\ GraceKept /\ LoginsApart /\ \A j \in Jobs : AnswerSound(j) BY DEF WebInvariant
<1>1. /\ Alive(f) /\ family[f].recent < family[f].latest
      /\ late' = IF Lagging(f) THEN late \union {f} ELSE late
      /\ UNCHANGED <<jar, job>>
  BY DEF GraceEnds
<1>2. family \in [Families -> State] BY <1>0 DEF TypeOK, State
<1>3. /\ family'[f].recent = family[f].latest /\ family[f].latest \in Nat
      /\ \A g \in Families \ {f} : family'[g] = family[g]
  BY <1>2 DEF GraceEnds, State
<1>4. ASSUME NEW s \in Sid \union {None}, InTime(s),
             s # None /\ s[1] = f /\ ~ Lagging(f) => family[f].latest <= s[2]
      PROVE  TimelyNext(s)
  <2>1. SUFFICES ASSUME s # None, s[1] \in Families, family'[s[1]].state = "alive", s[1] \notin late'
                 PROVE  family'[s[1]].recent <= s[2]
    BY DEF TimelyNext
  <2>2. s[1] \in Families BY <2>1 DEF Sid
  <2>3. CASE s[1] = f
    <3>1. ~ Lagging(f) BY <1>1, <2>1, <2>3
    <3>2. QED BY <1>3, <1>4, <2>1, <2>3, <3>1
  <2>4. CASE s[1] # f
    <3>1. family'[s[1]] = family[s[1]] /\ s[1] \notin late BY <1>1, <1>3, <2>1, <2>2, <2>4
    <3>2. Alive(s[1]) BY <2>1, <2>2, <3>1 DEF Alive
    <3>3. QED BY <1>4, <2>1, <3>1, <3>2 DEF InTime
  <2>5. QED BY <2>3, <2>4
<1>5. ASSUME NEW s \in Sid, s[1] = f, ~ (s[2] < family[f].latest) PROVE family[f].latest <= s[2]
  BY <1>3, <1>5 DEF Sid
<1>6. TimelyNext(jar')
  <2>1. jar \in Sid \union {None} /\ InTime(jar) BY <1>0 DEF TypeOK, GraceKept
  <2>2. jar # None /\ jar[1] = f /\ ~ Lagging(f) => family[f].latest <= jar[2]
    BY <1>5, <2>1 DEF Lagging, Owner
  <2>3. QED BY <1>1, <1>4, <2>1, <2>2
<1>7. ASSUME NEW j \in Jobs, job[j] # None, job[j].op \in Refreshes, NEW s \in Sid,
             s = job[j].sid, s[1] = f, ~ Lagging(f)
      PROVE  family[f].latest <= s[2]
  <2>1. Owner(s) = f /\ s # None BY <1>7, NoneApart DEF Owner
  <2>2. ~ (s[2] < family[f].latest) BY <1>7, <2>1 DEF Lagging, Refreshes
  <2>3. QED BY <1>5, <1>7, <2>2
<1>8. ASSUME NEW j \in Jobs, job[j] # None, job[j].op \in Refreshes, job[j].answer = None
      PROVE  TimelyNext(job[j].sid)
  <2> DEFINE s == job[j].sid
  <2>1. s \in Sid \union {None} /\ InTime(s) BY <1>0, <1>8, Fields DEF GraceKept
  <2>2. s # None /\ s[1] = f /\ ~ Lagging(f) => family[f].latest <= s[2]
    BY <1>7, <1>8, <2>1
  <2>3. QED BY <1>4, <2>1, <2>2
<1>9. ASSUME NEW j \in Jobs, Brings(j) PROVE TimelyNext(job[j].answer.cookie)
  <2> DEFINE c == job[j].answer.cookie
             s == job[j].sid
  <2>1. c \in Sid /\ InTime(c) /\ Has(j) /\ s \in Sid \union {None} /\ AnswerSound(j)
    BY <1>0, <1>9, Fields DEF GraceKept, Brings, Has, IsSid
  <2>2. ASSUME c[1] = f, ~ Lagging(f) PROVE family[f].latest <= c[2]
    <3>1. CASE job[j].op \in Refreshes
      <4>1. s # None /\ c = <<s[1], s[2] + 1>> BY <2>1, <3>1 DEF AnswerSound, IsSid
      <4>2. s \in Sid /\ s[1] = f /\ s[2] \in Nat /\ c[2] = s[2] + 1 BY <2>1, <2>2, <4>1 DEF Sid
      <4>3. family[f].latest <= s[2] BY <1>7, <2>1, <2>2, <3>1, <4>2 DEF Has
      <4>4. QED BY <1>3, <4>2, <4>3
    <3>2. CASE job[j].op \notin Refreshes
      <4>1. job[j].op = "login" /\ job[j].answer.status = "ok" BY <2>1, <3>2 DEF AnswerSound, IsSid
      <4>2. job[j].answer.token \in Families /\ c = <<job[j].answer.token, 0>>
        BY <2>1, <4>1, NoneApart DEF AnswerSound
      <4>3. LoginFor(j, f) BY <2>1, <2>2, <4>1, <4>2 DEF LoginFor
      <4>4. family[f].latest = 0 /\ family[f].recent = 0
        BY <1>0, <4>3 DEF LoginsApart, Unheard
      <4>5. QED BY <1>1, <4>4
    <3>3. QED BY <3>1, <3>2
  <2>3. QED BY <1>4, <2>1, <2>2
<1>10. QED BY <1>1, <1>6, <1>8, <1>9, GraceNext DEF Brings, Has, IsSid

LEMMA GraceStep == ASSUME WebInvariant, [Next]_vars PROVE GraceKept'
<1>0. TypeOK /\ GraceKept /\ LoginsApart /\ \A j \in Jobs : AnswerSound(j) BY DEF WebInvariant
<1>1. CASE \E f \in Families : GraceEnds(f) BY <1>1, WindowEnds
<1>2. ASSUME \A f \in Families : ~ GraceEnds(f) PROVE GraceKept'
  <2>0. \A s \in Sid \union {None} : InTime(s) => TimelyNext(s) BY <1>2, StaysInTime
  <2>1. /\ jar \in Sid \union {None} /\ InTime(jar)
        /\ \A j \in Jobs :
             /\ job[j] # None /\ job[j].op \in Refreshes /\ job[j].answer = None =>
                  job[j].sid \in Sid \union {None} /\ InTime(job[j].sid)
             /\ Brings(j) => job[j].answer.cookie \in Sid /\ InTime(job[j].answer.cookie)
    BY <1>0, Fields DEF GraceKept, Brings, IsSid
  <2>2. TimelyNext(None) /\ TimelyNext(jar)
        /\ \A j \in Jobs :
             /\ job[j] # None /\ job[j].op \in Refreshes /\ job[j].answer = None =>
                  TimelyNext(job[j].sid)
             /\ Brings(j) => TimelyNext(job[j].answer.cookie)
    BY <2>0, <2>1 DEF TimelyNext
  <2>3. \A j \in Jobs, f \in Families, n \in Nat : Succeeds(j, f, n) /\ job[j].answer = None
          => TimelyNext(<<f, n + 1>>)
    <3>1. SUFFICES ASSUME NEW j \in Jobs, NEW f \in Families, NEW n \in Nat,
                          Succeeds(j, f, n), job[j].answer = None,
                          family'[f].state = "alive", f \notin late'
                   PROVE  family'[f].recent <= n + 1
      BY DEF TimelyNext
    <3>2. job[j] # None /\ job[j].op \in Refreshes /\ job[j].sid = <<f, n>>
      BY <3>1 DEF Succeeds, Gave
    <3>3. TimelyNext(<<f, n>>) BY <2>2, <3>1, <3>2
    <3>4. <<f, n>> # None BY NoneApart DEF Sid
    <3>5. family'[f].recent <= n BY <3>1, <3>3, <3>4 DEF TimelyNext
    <3>6. family'[f].recent \in Nat BY <1>0, FamiliesMove DEF State
    <3>7. QED BY <3>5, <3>6
  <2>4. \A j \in Jobs, f \in Families : Begins(j, f) => TimelyNext(<<f, 0>>)
    <3>1. SUFFICES ASSUME NEW j \in Jobs, NEW f \in Families, Begins(j, f)
                   PROVE  family'[f].recent <= 0
      BY DEF TimelyNext
    <3>2. family[f].recent = 0 BY <1>0, <3>1 DEF Begins, LoginsApart, Unheard
    <3>3. QED BY <1>2, <3>2, WindowStep
  <2>5. TimelyNext(jar')
    <3>1. CASE jar' = jar BY <2>2, <3>1
    <3>2. CASE \E j \in Jobs : Deliver(j) BY <1>0, <2>2, <3>2, JarStep
    <3>3. QED BY <1>0, <1>2, <3>1, <3>2, PageStep, ServeStep, LoseStep
              DEF Next, Fault, Browser, vars
  <2>6. ASSUME NEW i \in Jobs, job'[i] # None, job'[i].op \in Refreshes, job'[i].answer = None
        PROVE  TimelyNext(job'[i].sid)
    <3>1. CASE job'[i] = job[i] BY <2>2, <2>6, <3>1
    <3>2. CASE job'[i] # job[i]
      <4>1. job'[i].sid = jar'
        <5>1. CASE \E t \in Tabs : Page(t) BY <1>0, <3>2, <5>1, PageStep DEF Asked, Only
        <5>2. CASE \E j \in Jobs : Serve(j) \/ Outage(j) \/ Expired(j) \/ Lose(j)
          BY <1>0, <2>6, <3>2, <5>2, ServeStep, LoseStep
          DEF Plain, Succeeds, Alarms, Begins, Revokes, Gave, Only
        <5>3. CASE \E j \in Jobs : Deliver(j)
          BY <1>0, <2>6, <3>2, <5>3, DeliverStep DEF Asked, Only
        <5>4. QED BY <1>2, <3>2, <5>1, <5>2, <5>3 DEF Next, Fault, vars
      <4>2. QED BY <2>5, <4>1
    <3>3. QED BY <3>1, <3>2
  <2>7. ASSUME NEW i \in Jobs, job'[i] # None, job'[i].answer # None, job'[i].answer.cookie \in Sid
        PROVE  TimelyNext(job'[i].answer.cookie)
    <3>1. CASE job'[i] = job[i]
      <4>1. Brings(i) BY <2>7, <3>1 DEF Brings, Has, IsSid
      <4>2. QED BY <2>2, <3>1, <4>1
    <3>2. CASE job'[i] # job[i]
      <4>1. PICK j \in Jobs : Serve(j) \/ Outage(j) \/ Expired(j) \/ Lose(j)
        <5>1. ~ \E t \in Tabs : Page(t) BY <1>0, <2>7, <3>2, PageStep DEF Asked, Only
        <5>2. ~ \E j \in Jobs : Deliver(j) BY <1>0, <2>7, <3>2, DeliverStep DEF Asked, Only
        <5>3. QED BY <1>2, <3>2, <5>1, <5>2 DEF Next, Fault, vars
      <4>2. ~ Lose(j) BY <1>0, <2>7, <3>2, NoneApart, LoseStep DEF Gave, Only
      <4>3. job[j].answer = None BY <1>0, <4>1, <4>2, ServeStep
      <4>4. ~ Plain(j) BY <2>7, <3>2, NoneApart DEF Plain, Gave, Only
      <4>5. ~ Revokes(j) BY <2>7, <3>2, NoneApart DEF Revokes, Gave, Only
      <4>6. \A f \in Families, n \in Nat : ~ Alarms(j, f, n)
        BY <2>7, <3>2, NoneApart DEF Alarms, Gave, Only
      <4>7. \/ \E f \in Families, n \in Nat : Succeeds(j, f, n)
            \/ \E f \in Families : Begins(j, f)
        BY <1>0, <4>1, <4>2, <4>4, <4>5, <4>6, ServeStep
      <4>8. \A f \in Families, n \in Nat : Succeeds(j, f, n) => job'[i].answer.cookie = <<f, n + 1>>
        BY <3>2 DEF Succeeds, Gave, Only
      <4>9. \A f \in Families : Begins(j, f) => job'[i].answer.cookie = <<f, 0>>
        BY <3>2 DEF Begins, Gave, Only
      <4>10. QED BY <2>3, <2>4, <4>3, <4>7, <4>8, <4>9
    <3>3. QED BY <3>1, <3>2
  <2>8. QED BY <2>5, <2>6, <2>7, GraceNext
<1>3. QED BY <1>1, <1>2

LEMMA AlarmStep == ASSUME WebInvariant, [Next]_vars PROVE NoFalseAlarm'
<1>0. TypeOK /\ GraceKept /\ LoginsApart /\ NoFalseAlarm BY DEF WebInvariant
<1>1. family \in [Families -> State] BY <1>0 DEF TypeOK, State
<1>2. late \subseteq late'
  <2>1. CASE \E f \in Families : GraceEnds(f) BY <2>1 DEF GraceEnds
  <2>2. CASE \A f \in Families : ~ GraceEnds(f) BY <2>2, WindowStep
  <2>3. QED BY <2>1, <2>2
<1>3. SUFFICES ASSUME NEW g \in Families, family'[g].state = "stolen", family[g].state # "stolen"
               PROVE  g \in late
  BY <1>0, <1>2 DEF NoFalseAlarm
<1>4. CASE \E j \in Jobs : Serve(j) \/ Outage(j) \/ Expired(j)
  <2> PICK j \in Jobs : Serve(j) \/ Outage(j) \/ Expired(j) BY <1>4
  <2>1. ~ Plain(j) BY <1>3 DEF Plain
  <2>2. \A f \in Families, n \in Nat : ~ Succeeds(j, f, n) BY <1>1, <1>3 DEF Succeeds, State
  <2>3. \A f \in Families : ~ Begins(j, f) BY <1>1, <1>3 DEF Begins, State
  <2>4. ~ Revokes(j)
    <3>1. SUFFICES ASSUME Revokes(j) PROVE FALSE OBVIOUS
    <3>2. family'[g] = family[g] \/ family'[g] = [family[g] EXCEPT !.state = "ended"]
      BY <3>1 DEF Revokes
    <3>3. QED BY <1>1, <1>3, <3>2 DEF State
  <2>5. PICK f \in Families, n \in Nat : Alarms(j, f, n)
    BY <1>0, <2>1, <2>2, <2>3, <2>4, ServeStep
  <2>6. f = g BY <1>1, <1>3, <2>5 DEF Alarms, State
  <2>7. InTime(<<f, n>>) BY <1>0, <2>5, ServeStep DEF Alarms, Gave, GraceKept
  <2>8. /\ <<f, n>> # None /\ Alive(f) /\ n < family[f].recent /\ family[f].recent \in Nat
    BY <1>1, <2>5, NoneApart DEF Alarms, Sid, State
  <2>9. f \in late BY <2>7, <2>8 DEF InTime
  <2>10. QED BY <2>6, <2>9
<1>5. CASE \E t \in Tabs : Page(t) BY <1>0, <1>3, <1>5, PageStep
<1>6. CASE \E j \in Jobs : Deliver(j) \/ Lose(j) BY <1>0, <1>3, <1>6, DeliverStep, LoseStep
<1>7. CASE \E f \in Families : GraceEnds(f) BY <1>1, <1>3, <1>7 DEF GraceEnds, State
<1>8. CASE UNCHANGED vars BY <1>3, <1>8 DEF vars
<1>9. QED BY <1>4, <1>5, <1>6, <1>7, <1>8 DEF Next, Fault
-----------------------------------------------------------------------------
(* The session in the jar.                                                  *)

LEMMA DisplacedGrows == ASSUME TypeOK, [Next]_vars PROVE displaced \subseteq displaced'
<1>1. CASE \E j \in Jobs : Serve(j) \/ Outage(j) \/ Expired(j) BY <1>1, ServeStep DEF Browser
<1>2. CASE \E j \in Jobs : Deliver(j) BY <1>2, DeliverStep DEF StoreCookie
<1>3. CASE \E j \in Jobs : Lose(j) BY <1>3, LoseStep
<1>4. CASE \E t \in Tabs : Page(t) BY <1>4, PageStep DEF Browser
<1>5. CASE \E f \in Families : GraceEnds(f) BY <1>5 DEF GraceEnds
<1>6. CASE UNCHANGED vars BY <1>6 DEF vars, history
<1>7. QED BY <1>1, <1>2, <1>3, <1>4, <1>5, <1>6 DEF Next, Fault

\* A login is alive because it was, or because its answer is given now.
LEMMA AliveStep ==
  ASSUME TypeOK, [Next]_vars, NEW f \in Families, Alive(f)', ~ Alive(f)
  PROVE  /\ family[f].state = "new" /\ UNCHANGED Browser
         /\ \E j \in Jobs : LoginFor(j, f)'
<1>1. family[f].state = "new" /\ family'[f].state = "alive"
  BY FamiliesMove, NoneApart DEF Moves, Alive
<1>2. CASE \E j \in Jobs : Serve(j) \/ Outage(j) \/ Expired(j)
  <2> PICK j \in Jobs : Serve(j) \/ Outage(j) \/ Expired(j) BY <1>2
  <2>0. family \in [Families -> State] BY DEF TypeOK, State
  <2>1. ~ Plain(j) BY <1>1 DEF Plain
  <2>2. \A g \in Families, n \in Nat : ~ Succeeds(j, g, n) /\ ~ Alarms(j, g, n)
    BY <1>1, <2>0 DEF Succeeds, Alarms, State
  <2>3. ~ Revokes(j) BY <1>1 DEF Revokes, Alive
  <2>4. PICK g \in Families : Begins(j, g) BY <2>1, <2>2, <2>3, ServeStep
  <2>5. g = f BY <1>1, <2>0, <2>4 DEF Begins, State
  <2>6. LoginFor(j, f)' BY <2>4, <2>5 DEF Begins, Gave, LoginFor, Has
  <2>7. QED BY <1>1, <2>6, ServeStep
<1>3. CASE \E j \in Jobs : Deliver(j) \/ Lose(j) BY <1>1, <1>3, DeliverStep, LoseStep
<1>4. CASE \E t \in Tabs : Page(t) BY <1>1, <1>4, PageStep
<1>5. CASE \E g \in Families : GraceEnds(g) BY <1>1, <1>5 DEF GraceEnds, TypeOK
<1>6. CASE UNCHANGED vars BY <1>1, <1>6 DEF vars
<1>7. QED BY <1>2, <1>3, <1>4, <1>5, <1>6 DEF Next, Fault

\* A login's answer under way stays so, is delivered, or is lost and displaced.
LEMMA LoginKept ==
  ASSUME WebInvariant, [Next]_vars, NEW i \in Jobs, NEW f \in Families, LoginFor(i, f)
  PROVE  LoginFor(i, f)' \/ f \in displaced' \/ Owner(jar') = f
<1>0. TypeOK /\ LoginsApart /\ AnswerSound(i) BY DEF WebInvariant
<1>1. job[i] # None /\ job[i].answer # None /\ job[i].op = "login" /\ job[i].answer.status = "ok"
      /\ job[i].answer.token = f
  BY DEF LoginFor, Has
<1>2. CASE job'[i] = job[i] BY <1>1, <1>2 DEF LoginFor, Has
<1>3. CASE job'[i] # job[i]
  <2>1. CASE \E t \in Tabs : Page(t)
    <3>1. i[2] = "act" BY <1>0, <1>1 DEF LoginsApart
    <3>2. i[2] = "load" BY <1>0, <1>1, <1>3, <2>1, PageStep DEF Asked, Only
    <3>3. QED BY <3>1, <3>2
  <2>2. CASE \E j \in Jobs : Serve(j) \/ Outage(j) \/ Expired(j)
    BY <1>0, <1>1, <1>3, <2>2, ServeStep DEF Plain, Succeeds, Alarms, Begins, Revokes, Gave, Only
  <2>3. CASE \E j \in Jobs : Lose(j) BY <1>0, <1>3, <2>3, LoseStep DEF Gave, Only
  <2>4. CASE \E j \in Jobs : Deliver(j)
    <3> PICK j \in Jobs : Deliver(j) BY <2>4
    <3>1. i = j BY <1>0, <1>3, DeliverStep DEF Asked, Only
    <3>2. f \in Families /\ job[j].answer.cookie = <<f, 0>>
      BY <1>0, <1>1, <3>1, NoneApart DEF AnswerSound, Has
    <3>3. <<f, 0>> \in Sid /\ <<f, 0>> # Keep /\ <<f, 0>> # None BY NoneApart DEF Sid
    <3>4. jar' = <<f, 0>> BY <1>0, <3>2, <3>3, DeliverStep DEF StoreCookie, Stored
    <3>5. QED BY <3>3, <3>4 DEF Owner
  <2>5. QED BY <1>3, <2>1, <2>2, <2>3, <2>4 DEF Next, Fault, GraceEnds, vars
<1>4. QED BY <1>2, <1>3

\* The jar loses a live login to another's cookie only as displaced, to a logout's
\* answer only as spared.
LEMMA JarKept ==
  ASSUME WebInvariant, [Next]_vars, NEW f \in Families, Alive(f), Owner(jar) = f
  PROVE  Owner(jar') = f \/ f \in displaced' \union spared'
<1>0. TypeOK /\ (\A j \in Jobs : AnswerSound(j)) /\ spared \subseteq spared'
  BY SparedGrows DEF WebInvariant
<1>1. CASE jar' = jar BY <1>1
<1>2. CASE jar' # jar
  <2>1. PICK j \in Jobs : Deliver(j)
    BY <1>0, <1>2, PageStep, ServeStep, LoseStep DEF Next, Fault, Browser, GraceEnds, vars
  <2>2. Has(j) /\ StoreCookie(j) BY <1>0, <2>1, DeliverStep
  <2>3. SUFFICES ~ MeantFor(j) \/ f \in spared BY <1>0, <2>2 DEF StoreCookie
  <2>4. SUFFICES ASSUME MeantFor(j), f \notin spared PROVE FALSE OBVIOUS
  <2>5. job[j].op \in Ends /\ Owner(job[j].sid) = f BY <2>4 DEF MeantFor, Ends
  <2>6. CASE job[j].answer.status = "ok"
    <3>1. job[j].sid # None /\ job[j].sid[1] = f BY <2>5, NoneApart DEF Owner
    <3>2. Spent(f) BY <1>0, <2>2, <2>4, <2>5, <2>6, <3>1 DEF AnswerSound
    <3>3. QED BY <3>2 DEF Spent, Alive
  <2>7. CASE job[j].answer.status # "ok"
    <3>1. job[j].answer.cookie = Keep BY <1>0, <2>2, <2>5, <2>7 DEF AnswerSound
    <3>2. QED BY <1>2, <2>2, <3>1 DEF StoreCookie, Stored
  <2>8. QED BY <2>6, <2>7
<1>3. QED BY <1>1, <1>2

LEMMA HeldStep == ASSUME WebInvariant, [Next]_vars PROVE SessionHeld'
<1>0. TypeOK /\ LoginsApart /\ SessionHeld /\ (\A j \in Jobs : AnswerSound(j)) /\ TypeOK'
  BY TypeStep DEF WebInvariant
<1>1. displaced \union spared \subseteq displaced' \union spared'
  BY <1>0, DisplacedGrows, SparedGrows
<1>2. ASSUME NEW f \in Families, Alive(f)', f \notin displaced' \union spared'
      PROVE  Owner(jar') = f \/ \E j \in Jobs : LoginFor(j, f)'
  <2>1. CASE ~ Alive(f) BY <1>0, <1>2, <2>1, AliveStep
  <2>2. CASE Alive(f)
    <3>1. Owner(jar) = f \/ \E j \in Jobs : LoginFor(j, f)
      BY <1>0, <1>1, <1>2, <2>2 DEF SessionHeld
    <3>2. CASE Owner(jar) = f BY <1>2, <2>2, <3>2, JarKept
    <3>3. CASE \E j \in Jobs : LoginFor(j, f) BY <1>2, <3>3, LoginKept
    <3>4. QED BY <3>1, <3>2, <3>3
  <2>3. QED BY <2>1, <2>2
<1>3. ASSUME NEW f \in Families, f = Owner(jar'), Alive(f)', out'
      PROVE  f \in displaced' \union spared'
  <2>1. CASE ~ \E j \in Jobs : Deliver(j)
    <3>1. jar' = jar /\ out' = out
      BY <1>0, <2>1, PageStep, ServeStep, LoseStep DEF Next, Fault, Browser, GraceEnds, vars, history
    <3>2. Alive(f)
      <4>1. SUFFICES ASSUME ~ Alive(f) PROVE FALSE OBVIOUS
      <4>2. family[f].state = "new" BY <1>0, <1>3, <4>1, AliveStep
      <4>3. QED BY <1>0, <1>3, <3>1, <4>2 DEF LoginsApart, Unheard
    <3>3. QED BY <1>0, <1>1, <1>3, <3>1, <3>2 DEF SessionHeld
  <2>2. CASE \E j \in Jobs : Deliver(j)
    <3> PICK j \in Jobs : Deliver(j) BY <2>2
    <3>0. /\ Has(j) /\ job[j] # None /\ job[j].op \in Ops /\ UNCHANGED family /\ AnswerSound(j)
          /\ jar' = Stored(job[j].answer.cookie)
      BY <1>0, DeliverStep, Fields DEF Has, StoreCookie
    <3>1. Alive(f) BY <1>3, <3>0 DEF Alive
    <3>2. /\ job[j].op \in Refreshes \union {"me", "again"} => out' = out
          /\ job[j].op \in Ends => out' = out \/ job[j].answer.status = "ok"
          /\ job[j].op = "login" => out' = (out /\ job[j].answer.status # "ok")
      BY <1>0, DeliverStep
    <3>3. jar' # None BY <1>3, NoneApart DEF Owner
    <3>4. CASE jar' = jar
      <4>1. CASE out BY <1>0, <1>1, <1>3, <3>1, <3>4, <4>1 DEF SessionHeld
      <4>2. CASE ~ out
        <5>1. job[j].op \in Ends /\ job[j].answer.status = "ok"
          BY <1>3, <3>0, <3>2, <4>2 DEF Ops, Ends, Refreshes
        <5>2. job[j].answer.cookie = None BY <3>0, <5>1 DEF AnswerSound
        <5>3. QED BY <3>0, <3>3, <5>2, NoneApart DEF Stored
      <4>3. QED BY <4>1, <4>2
    <3>5. CASE job[j].op \in Refreshes /\ Owner(jar') = Owner(job[j].sid)
      <4>1. out BY <1>3, <3>2, <3>5
      <4>2. CASE f \in displaced \union spared BY <1>1, <4>2
      <4>3. CASE Owner(jar) = f BY <1>0, <1>1, <3>1, <4>1, <4>3 DEF SessionHeld
      <4>4. CASE \E i \in Jobs : LoginFor(i, f)
        BY <1>0, <1>3, <3>0, <3>5, <4>4 DEF LoginsApart, Unheard
      <4>5. QED BY <1>0, <3>1, <4>2, <4>3, <4>4 DEF SessionHeld
    <3>6. CASE \E g \in Families : LoginFor(j, g)
      BY <1>3, <3>2, <3>6 DEF LoginFor
    <3>7. QED BY <1>0, <3>0, <3>3, <3>4, <3>5, <3>6, JarStep
  <2>3. QED BY <2>1, <2>2
<1>4. (out /\ Alive(Owner(jar)) => Owner(jar) \in displaced \union spared)'
  <2>1. jar' \in Sid \union {None} BY <1>0 DEF TypeOK
  <2>2. SUFFICES ASSUME out', Alive(Owner(jar))' PROVE Owner(jar') \in displaced' \union spared'
    BY DEF Owner
  <2>3. jar' # None BY <2>2, NoneApart DEF Owner, Alive
  <2> DEFINE f == Owner(jar')
  <2>4. f \in Families /\ f = jar'[1] BY <2>1, <2>3 DEF Owner, Sid
  <2>5. family'[f].state = "alive" BY <2>2, <2>3, <2>4 DEF Alive, Owner
  <2>6. QED BY <1>3, <2>2, <2>4, <2>5 DEF Alive
<1>5. (\A f \in Families :
         Alive(f) /\ f \notin displaced \union spared =>
           Owner(jar) = f \/ \E j \in Jobs : LoginFor(j, f))'
  BY <1>2 DEF Owner
<1>6. QED BY <1>4, <1>5 DEF SessionHeld
-----------------------------------------------------------------------------
LEMMA InitTypes == Init => TypeOK
<1> SUFFICES ASSUME Init PROVE TypeOK OBVIOUS
<1>1. family \in [Families -> State] BY DEF Init, State
<1>2. tab \in [Tabs -> Store] BY DEF Init, Blank, Store, Token
<1>3. job \in [Jobs -> Call \union {None}] /\ 0 \in 0..MaxForms /\ 0 \in 0..MaxMishaps
  BY BoundsAreNat DEF Init
<1>4. QED BY <1>1, <1>2, <1>3 DEF Init, TypeOK, State, Store

LEMMA InitInvariant == Init => WebInvariant
<1> SUFFICES ASSUME Init PROVE WebInvariant OBVIOUS
<1>1. /\ \A f \in Families : family[f].state = "new" /\ family[f].latest = 0 /\ family[f].recent = 0
      /\ jar = None /\ ~ out /\ \A j \in Jobs : job[j] = None
  BY DEF Init
<1>2. \A f \in Families : Owner(jar) # f BY <1>1, NoneApart DEF Owner
<1>3. \A j \in Jobs : AnswerSound(j) /\ ~ Has(j) BY <1>1 DEF AnswerSound, Has
<1>4. LoginsApart BY <1>1, <1>2, <1>3 DEF LoginsApart, Unheard, LoginFor
<1>5. GraceKept BY <1>1, <1>3 DEF GraceKept, InTime, Brings
<1>6. SessionHeld /\ NoFalseAlarm BY <1>1, <1>2 DEF SessionHeld, NoFalseAlarm, Alive, Owner
<1>7. QED BY <1>3, <1>4, <1>5, <1>6, InitTypes DEF WebInvariant

LEMMA InvariantStep == WebInvariant /\ [Next]_vars => WebInvariant'
<1> SUFFICES ASSUME WebInvariant, [Next]_vars PROVE WebInvariant' OBVIOUS
<1>1. TypeOK' BY TypeStep DEF WebInvariant
<1>2. QED BY <1>1, AnswersStep, LoginsStep, GraceStep, AlarmStep, HeldStep DEF WebInvariant

LEMMA InvariantHolds == Spec => []WebInvariant
BY InitInvariant, InvariantStep, PTL DEF Spec

\* What the stores, the calls under way and the BFF's families hold is of the
\* types the code gives them (auth-store.ts, session.ts).
THEOREM WebTyped == Spec => []TypeOK
<1>1. WebInvariant => TypeOK BY DEF WebInvariant
<1>2. QED BY <1>1, InvariantHolds, PTL

\* However many tabs refresh, renew, log in and lose answers at once, a login
\* is ended for theft only if the browser held, or was asking with, an older sid
\* when a grace window ended: rotation and grace in session.ts, the shared
\* cookie of lib/session.ts.
THEOREM NoSelfInflictedTheft == Spec => []NoFalseAlarm
<1>1. WebInvariant => NoFalseAlarm BY DEF WebInvariant
<1>2. QED BY <1>1, InvariantHolds, PTL

\* Once a logout or a password change was answered and nobody logs in, every login of
\* this browser is over, but those whose cookie another answer had replaced and those
\* an outage of Redis spared while the logout was served (revokeSession and revokeUser
\* give up, and the routes answer all the same): /auth/logout and /auth/change-password
\* end the family of the cookie they come with or are known to have spared it, and the
\* jar holds the only other way to a live one.
THEOREM LogoutIsFinal == Spec => []LogoutEnds
<1>1. WebInvariant => LogoutEnds
  <2>1. SUFFICES ASSUME WebInvariant, out, \A j \in Jobs : job[j] # None => job[j].op # "login",
                        NEW f \in Families, Alive(f), f \notin displaced \union spared
                 PROVE  FALSE
    BY DEF LogoutEnds
  <2>2. ~ \E j \in Jobs : LoginFor(j, f) BY <2>1 DEF LoginFor, Has
  <2>3. QED BY <2>1, <2>2 DEF WebInvariant, SessionHeld
<1>2. QED BY <1>1, InvariantHolds, PTL
=============================================================================
