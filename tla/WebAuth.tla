------------------------------- MODULE WebAuth -------------------------------
(***************************************************************************)
(* The browser's side of a session, against the BFF's /auth routes: the     *)
(* auth store (lib/auth-store.ts) of every tab, the hydrator that restores  *)
(* it on load (components/auth-hydrator.tsx), the interceptor that renews a *)
(* refused access token (lib/connect.ts), the login, logout and password    *)
(* forms, and the cookie jar all tabs share.                                *)
(*                                                                          *)
(* A call is sent with the cookie and token of that moment, served later,   *)
(* and its answer delivered later still: in between, other calls of this    *)
(* and of other tabs run.  The jar keeps what the last answer delivered     *)
(* says, whichever request it answers.                                      *)
(*                                                                          *)
(* The sids of a family are numbered in the order of rotation.  One user    *)
(* logs in.  An access token is known by its family: a token that expired   *)
(* or was denied by its jti is a call the BFF refuses.  RefreshSession has  *)
(* Redis' side of the same routes in full.                                  *)
(***************************************************************************)
EXTENDS Integers, FiniteSets

CONSTANTS Families,      \* the logins that may succeed
          Tabs, None,
          Keep,          \* what an answer without Set-Cookie does to the jar
          Bare,          \* the token of a login that got no session: it has no family
          Studios,       \* the tabs that show the studio
          MaxForms, MaxMishaps   \* bounds of the exploration

\* What may be awaited: a tab's hydrator, its forms, the studio's queries.
Jobs == (Tabs \X {"load", "act"}) \union (Studios \X {"poll"})

ASSUME StudiosAreTabs == Studios \subseteq Tabs
ASSUME BoundsAreNat == {MaxForms, MaxMishaps} \subseteq Nat

VARIABLES
  family,     \* the BFF: where each login's family stands
  jar,        \* the refresh cookie, a sid
  tab,        \* every tab's auth store
  job,        \* what each tab's code awaits
  forms,      \* how often a form was sent
  mishaps,    \* how many tokens expired, calls were lost, outages there were
  late,       \* history: families whose browser lagged when a grace window ended
  displaced,  \* history: live families whose cookie something else replaced
  spared,     \* history: families an outage kept alive through a logout that was answered
  out,        \* history: the last session change delivered was a logout
  rejected    \* history: tabs whose first refresh was never answered

budget  == <<forms, mishaps>>
history == <<late, displaced, spared, out, rejected>>
vars    == <<family, jar, tab, job, budget, history>>

Ops     == {"refresh", "me", "renew", "again", "login", "logout", "change"}
Sid     == Families \X Nat
Token   == Families \union {None, Bare}
Answer  == [status : {"ok", "refused", "lost"}, token : Token,
            cookie : Sid \union {None, Keep}]
Call    == [kind : {"restore", "query", "form"}, op : Ops, sid : Sid \union {None},
            token : Token, held : Token, answer : Answer \union {None}]

ASSUME NoneIsNothing ==
  /\ None # Keep /\ None # Bare
  /\ \A v \in {None, Keep, Bare} : v \notin Families \union Sid \union Answer \union Call

TypeOK ==
  /\ family \in [Families -> [state : {"new", "alive", "ended", "stolen"},
                              latest : Nat, recent : Nat]]
  /\ jar \in Sid \union {None}
  /\ tab \in [Tabs -> [open : BOOLEAN, token : Token, user : BOOLEAN, ready : BOOLEAN]]
  /\ job \in [Jobs -> Call \union {None}]
  /\ forms \in 0..MaxForms /\ mishaps \in 0..MaxMishaps
  /\ late \subseteq Families /\ displaced \subseteq Families /\ spared \subseteq Families
  /\ out \in BOOLEAN /\ rejected \subseteq Tabs

Blank == [open |-> FALSE, token |-> None, user |-> FALSE, ready |-> FALSE]

Init ==
  /\ family = [f \in Families |-> [state |-> "new", latest |-> 0, recent |-> 0]]
  /\ jar = None
  /\ tab = [t \in Tabs |-> Blank]
  /\ job = [j \in Jobs |-> None]
  /\ forms = 0 /\ mishaps = 0
  /\ late = {} /\ displaced = {} /\ spared = {} /\ out = FALSE /\ rejected = {}

Alive(f)  == f \in Families /\ family[f].state = "alive"
Owner(s)  == IF s = None THEN None ELSE s[1]
-----------------------------------------------------------------------------
(* The store: setSession, setToken and clear, with ready beside them.       *)

SetSession(t, token) ==
  tab' = [tab EXCEPT ![t] = [open |-> TRUE, token |-> token, user |-> TRUE, ready |-> TRUE]]
\* Slip: clear leaves ready alone.
ClearUser(t) == tab' = [tab EXCEPT ![t].token = None, ![t].user = FALSE]
SetToken(t, token) == tab' = [tab EXCEPT ![t].token = token]
Clear(t) ==
  tab' = [tab EXCEPT ![t] = [open |-> TRUE, token |-> None, user |-> FALSE, ready |-> TRUE]]
-----------------------------------------------------------------------------
(* What the pages start.                                                    *)

Fresh(kind, op, token) == [kind |-> kind, op |-> op, sid |-> jar, token |-> token,
                           held |-> None, answer |-> None]
Start(j, call) == job[j] = None /\ job' = [job EXCEPT ![j] = call]

\* A page opens: the store is empty and AuthHydrator's effect calls refresh.
\* (A reload is another tab: tabs share the jar alone, and what a page that
\* goes leaves behind is a lost answer.)
Load(t) ==
  /\ ~ tab[t].open
  /\ tab' = [tab EXCEPT ![t].open = TRUE]
  /\ job' = [job EXCEPT ![<<t, "load">>] = Fresh("restore", "refresh", None)]
  /\ UNCHANGED <<family, jar, budget, history>>

\* The studio polls while ready && !!token.
Query(t) ==
  /\ t \in Studios /\ tab[t].ready /\ tab[t].token # None
  /\ Start(<<t, "poll">>, Fresh("query", "me", tab[t].token))
  /\ UNCHANGED <<family, jar, tab, budget, history>>

Submit(t, op, token) ==
  /\ forms < MaxForms /\ forms' = forms + 1
  /\ Start(<<t, "act">>, Fresh("form", op, token))
  /\ UNCHANGED <<family, jar, tab, mishaps, history>>

\* /login, the landing form, or signup once register has answered.
Login(t) == tab[t].open /\ Submit(t, "login", None)

\* The header shows the button for a user.
Logout(t) == tab[t].ready /\ tab[t].user /\ Submit(t, "logout", tab[t].token)

\* The studio has the form.
ChangePassword(t) ==
  t \in Studios /\ tab[t].ready /\ tab[t].token # None /\ Submit(t, "change", tab[t].token)
-----------------------------------------------------------------------------
(* The BFF serves a call.  Redis may be away; the route then has an action   *)
(* of its own, named Outage.                                                *)

Awaits(j, ops) == job[j] # None /\ job[j].op \in ops /\ job[j].answer = None

Reply(j, status, token, cookie) ==
  job' = [job EXCEPT ![j].answer = [status |-> status, token |-> token, cookie |-> cookie]]

Refuses(j, cookie) == Reply(j, "refused", None, cookie)

Mishap == mishaps < MaxMishaps /\ mishaps' = mishaps + 1

NoCookie(j) ==
  /\ job[j].sid = None
  /\ Refuses(j, Keep)
  /\ UNCHANGED family

NoFamily(j) ==
  /\ job[j].sid # None /\ ~ Alive(Owner(job[j].sid))
  /\ Refuses(j, None)
  /\ UNCHANGED family

\* ROTATE_LUA: the newest sid is used and has a successor; one used within the
\* grace window gets the successor it had; any other is a stolen one.
Rotates(j, f, n) ==
  /\ n = family[f].latest
  /\ family' = [family EXCEPT ![f].latest = n + 1]
  /\ Reply(j, "ok", f, <<f, n + 1>>)

\* Slip: no grace.
NeverInGrace(f, n) == FALSE
InGrace(f, n) == family[f].recent <= n /\ n < family[f].latest

Replays(j, f, n) ==
  /\ InGrace(f, n)
  /\ Reply(j, "ok", f, <<f, n + 1>>)
  /\ UNCHANGED family

Alarm(j, f, n) ==
  /\ n < family[f].latest /\ ~ InGrace(f, n)
  /\ family' = [family EXCEPT ![f].state = "stolen"]
  /\ Refuses(j, None)

ServeRefresh(j) ==
  /\ Awaits(j, {"refresh", "renew"})
  /\ \/ NoCookie(j)
     \/ NoFamily(j)
     \/ /\ job[j].sid # None /\ Alive(job[j].sid[1])
        /\ \/ Rotates(j, job[j].sid[1], job[j].sid[2])
           \/ Replays(j, job[j].sid[1], job[j].sid[2])
           \/ Alarm(j, job[j].sid[1], job[j].sid[2])
  /\ UNCHANGED <<jar, tab, budget, history>>

\* rotateSession's catch: with Redis away every sid is invalid.
RefreshOutage(j) ==
  /\ Awaits(j, {"refresh", "renew"}) /\ job[j].sid # None
  /\ Mishap
  /\ Refuses(j, None)
  /\ UNCHANGED <<family, jar, tab, forms, history>>

\* A call with an access token: verifyAccessToken.  Only the family can refuse it
\* here, and a token without one is good until it expires.
Accepted(token) == token = Bare \/ Alive(token)
ServeQuery(j) ==
  /\ Awaits(j, {"me", "again"})
  /\ Reply(j, IF Accepted(job[j].token) THEN "ok" ELSE "refused", None, Keep)
  /\ UNCHANGED <<family, jar, tab, budget, history>>

\* isFamilyDenied fails open: the token of a family that ended is good.
QueryOutage(j) ==
  /\ Awaits(j, {"me", "again"}) /\ Mishap
  /\ Reply(j, "ok", None, Keep)
  /\ UNCHANGED <<family, jar, tab, forms, history>>

\* The token has expired meanwhile (or its jti was denied).
Expired(j) ==
  /\ Awaits(j, {"me", "change"}) /\ Accepted(job[j].token)
  /\ Mishap
  /\ Refuses(j, Keep)
  /\ UNCHANGED <<family, jar, tab, forms, history>>

\* A login begins a family of its own, whatever cookie came with it.
ServeLogin(j) ==
  /\ Awaits(j, {"login"})
  /\ \/ /\ Refuses(j, Keep)
        /\ UNCHANGED family
     \/ LET new == {f \in Families : family[f].state = "new"}
            f   == CHOOSE f \in new : TRUE
        IN  /\ new # {}
            /\ family' = [family EXCEPT ![f].state = "alive"]
            /\ Reply(j, "ok", f, <<f, 0>>)
  /\ UNCHANGED <<jar, tab, budget, history>>

\* createSession gives nothing: the login succeeds all the same, without a cookie,
\* and its token has no family.
LoginOutage(j) ==
  /\ Awaits(j, {"login"}) /\ Mishap
  /\ Reply(j, "ok", Bare, Keep)
  /\ UNCHANGED <<family, jar, tab, forms, history>>

\* Slip: only the family's newest sid is looked up.
EndIfNewest(s) ==
  [f \in Families |-> IF Alive(f) /\ s = <<f, family[f].latest>>
                        THEN [family[f] EXCEPT !.state = "ended"] ELSE family[f]]
\* revokeSession: a used sid still names its family.
EndFamilyOf(s) ==
  [f \in Families |-> IF Alive(f) /\ f = Owner(s)
                        THEN [family[f] EXCEPT !.state = "ended"] ELSE family[f]]

ServeLogout(j) ==
  /\ Awaits(j, {"logout"})
  /\ family' = EndFamilyOf(job[j].sid)
  /\ Reply(j, "ok", None, None)
  /\ UNCHANGED <<jar, tab, budget, history>>

\* revokeSession swallows its failure: the same answer, and the family lives on.
LogoutOutage(j) ==
  /\ Awaits(j, {"logout"}) /\ Mishap
  /\ spared' = spared \union {f \in Families : Alive(f) /\ f = Owner(job[j].sid)}
  /\ Reply(j, "ok", None, None)
  /\ UNCHANGED <<family, jar, tab, forms, late, displaced, out, rejected>>

\* change-password: an unaccepted token and a wrong current password are both
\* 401; a change revokes every family of the user.
ServeChange(j) ==
  /\ Awaits(j, {"change"})
  /\ \/ /\ Refuses(j, Keep)
        /\ UNCHANGED family
     \/ /\ Accepted(job[j].token)
        /\ family' = [f \in Families |-> IF Alive(f) THEN [family[f] EXCEPT !.state = "ended"]
                                                     ELSE family[f]]
        /\ Reply(j, "ok", None, None)
  /\ UNCHANGED <<jar, tab, budget, history>>

\* The token's family is not looked at, or revokeUser gives up before, between or after
\* families; the route answers as if it had not.
ChangeOutage(j) ==
  /\ Awaits(j, {"change"}) /\ Mishap
  /\ \E F \in SUBSET {f \in Families : Alive(f)} :
       /\ family' = [f \in Families |-> IF f \in F THEN [family[f] EXCEPT !.state = "ended"]
                                                   ELSE family[f]]
       /\ spared' = spared \union {f \in Families : Alive(f) /\ f \notin F}
  /\ Reply(j, "ok", None, None)
  /\ UNCHANGED <<jar, tab, forms, late, displaced, out, rejected>>

\* The network drops the request, or the answer of a request that was served.
Lose(j) ==
  /\ job[j] # None /\ Mishap
  /\ job[j].answer # None => job[j].answer.status # "lost"
  /\ Reply(j, "lost", None, Keep)
  /\ displaced' = IF job[j].op = "login" /\ job[j].answer # None
                    THEN displaced \union ({job[j].answer.token} \intersect Families)
                    ELSE displaced
  /\ UNCHANGED <<family, jar, tab, forms, late, spared, out, rejected>>

\* The browser still holds, or will be handed, a sid of f that is not its newest.
Lagging(f) ==
  LET Old(s) == s # None /\ Owner(s) = f /\ s[2] < family[f].latest
  IN  \/ Old(jar)
      \/ \E j \in Jobs : job[j] # None /\ (job[j].op \in {"refresh", "renew"} /\ Old(job[j].sid))

\* REFRESH_GRACE_MS have passed since the family's last rotation.
GraceEnds(f) ==
  /\ Alive(f) /\ family[f].recent < family[f].latest
  /\ family' = [family EXCEPT ![f].recent = family[f].latest]
  /\ late' = IF Lagging(f) THEN late \union {f} ELSE late
  /\ UNCHANGED <<jar, tab, job, budget, displaced, spared, out, rejected>>
-----------------------------------------------------------------------------
(* An answer reaches the browser: first its Set-Cookie, then the code that   *)
(* awaits it.                                                               *)

Answered(j, kinds, ops) ==
  job[j] # None /\ job[j].answer # None /\ job[j].kind \in kinds /\ job[j].op \in ops

Stored(cookie) == IF cookie = Keep THEN jar ELSE cookie

\* The request that this answers was to end the login the jar holds.
MeantFor(j) == job[j].op \in {"logout", "change"} /\ Owner(job[j].sid) = Owner(jar)

StoreCookie(j) ==
  /\ jar' = Stored(job[j].answer.cookie)
  /\ displaced' = IF Alive(Owner(jar)) /\ Owner(jar') # Owner(jar) /\ ~ MeantFor(j)
                    THEN displaced \union {Owner(jar)} ELSE displaced

Done(j)         == job' = [job EXCEPT ![j] = None]
Sends(j, op, token) ==
  job' = [job EXCEPT ![j] = [@ EXCEPT !.op = op, !.sid = jar', !.token = token, !.answer = None]]
Status(j) == job[j].answer.status
Got(j)    == job[j].answer.token

\* The hydrator: a token brings the user; none clears the store; a fetch that
\* rejects ends the effect.
Restored(j) ==
  /\ Answered(j, {"restore"}, {"refresh"})
  /\ StoreCookie(j)
  /\ \/ /\ Status(j) = "ok"
        /\ job' = [job EXCEPT ![j] = [@ EXCEPT !.op = "me", !.sid = jar', !.token = Got(j),
                                               !.held = Got(j), !.answer = None]]
        /\ UNCHANGED <<tab, rejected>>
     \/ /\ Status(j) = "refused"
        /\ Done(j) /\ Clear(j[1])
        /\ UNCHANGED rejected
     \/ /\ Status(j) = "lost"
        /\ Done(j) /\ rejected' = rejected \union {j[1]}
        /\ UNCHANGED tab
  /\ UNCHANGED <<family, budget, late, spared, out>>

\* A query, or the hydrator's me, is answered: Unauthenticated is renewed once.
QueryAnswered(j) ==
  /\ Answered(j, {"restore", "query"}, {"me", "again"})
  /\ StoreCookie(j)
  /\ \/ /\ Status(j) = "ok"
        /\ Done(j)
        /\ IF job[j].kind = "restore" THEN SetSession(j[1], job[j].held) ELSE UNCHANGED tab
     \/ /\ Status(j) = "refused" /\ job[j].op = "me"
        /\ Sends(j, "renew", None)
        /\ UNCHANGED tab
     \/ /\ Status(j) = "lost" \/ (Status(j) = "refused" /\ job[j].op = "again")
        /\ Done(j)
        /\ IF job[j].kind = "restore" THEN Clear(j[1]) ELSE UNCHANGED tab
  /\ UNCHANGED <<family, budget, late, spared, out, rejected>>

\* Slip: the interceptor gives up without telling the store.
KeepStore(j) == UNCHANGED tab
SessionOver(j) ==
  IF Status(j) = "refused" \/ job[j].kind = "restore" THEN Clear(j[1]) ELSE UNCHANGED tab

Renewed(j) ==
  /\ Answered(j, {"restore", "query"}, {"renew"})
  /\ StoreCookie(j)
  /\ \/ /\ Status(j) = "ok"
        /\ SetToken(j[1], Got(j))
        /\ Sends(j, "again", Got(j))
     \/ /\ Status(j) # "ok"
        /\ SessionOver(j)
        /\ Done(j)
  /\ UNCHANGED <<family, budget, late, spared, out, rejected>>

LoggedIn(j) ==
  /\ Answered(j, {"form"}, {"login"})
  /\ StoreCookie(j)
  /\ IF Status(j) = "ok" THEN SetSession(j[1], Got(j)) /\ out' = FALSE
                         ELSE UNCHANGED <<tab, out>>
  /\ Done(j)
  /\ UNCHANGED <<family, budget, late, spared, rejected>>

\* apiLogout swallows a failure, and the store is cleared after it all the same.
LoggedOut(j) ==
  /\ Answered(j, {"form"}, {"logout"})
  /\ StoreCookie(j)
  /\ out' = (out \/ Status(j) = "ok")
  /\ Clear(j[1])
  /\ Done(j)
  /\ UNCHANGED <<family, budget, late, spared, rejected>>

PasswordChanged(j) ==
  /\ Answered(j, {"form"}, {"change"})
  /\ StoreCookie(j)
  /\ out' = (out \/ Status(j) = "ok")
  /\ IF Status(j) = "ok" THEN Clear(j[1]) ELSE UNCHANGED tab
  /\ Done(j)
  /\ UNCHANGED <<family, budget, late, spared, rejected>>
-----------------------------------------------------------------------------
Serve(j) == ServeRefresh(j) \/ ServeQuery(j) \/ ServeLogin(j) \/ ServeLogout(j) \/ ServeChange(j)
Deliver(j) == \/ Restored(j) \/ QueryAnswered(j) \/ Renewed(j)
              \/ LoggedIn(j) \/ LoggedOut(j) \/ PasswordChanged(j)
Outage(j) == \/ RefreshOutage(j) \/ QueryOutage(j) \/ LoginOutage(j)
             \/ LogoutOutage(j) \/ ChangeOutage(j)
Fault(j) == Outage(j) \/ Expired(j) \/ Lose(j)
Page(t) == Load(t) \/ Query(t) \/ Login(t) \/ Logout(t) \/ ChangePassword(t)

Next == \/ \E t \in Tabs : Page(t)
        \/ \E j \in Jobs : Serve(j) \/ Deliver(j) \/ Fault(j)
        \/ \E f \in Families : GraceEnds(f)

Spec == Init /\ [][Next]_vars

\* Calls are served and their answers delivered (or lost, within MaxMishaps), and
\* the studio's refetchInterval keeps asking.  Nobody has to click, or close.
Fairness == /\ \A j \in Jobs : WF_vars(Serve(j) \/ Deliver(j))
            /\ \A t \in Studios : WF_vars(Query(t))

FairSpec == Spec /\ Fairness
-----------------------------------------------------------------------------
(* Properties.                                                              *)

\* session.ts takes a sid used twice for a stolen one.  Whatever tabs, loads
\* and renewals do at once, a family is killed for theft only if the browser
\* still held, or was still asking with, an older sid when a grace window ended.
NoFalseAlarm == \A f \in Families : family[f].state = "stolen" => f \in late

\* Once the answer to a logout or password change is in and no login follows, no login
\* of this browser is alive, with two exceptions: an answer to another request had
\* replaced its cookie while it was (logging in over a live session does, and so does a
\* refusal that arrives after a login's answer), or Redis was away when the logout was
\* served, which is answered as if it had not been (session.ts:187-208).
LogoutEnds ==
  out /\ (\A j \in Jobs : job[j] # None => job[j].op # "login")
    => \A f \in Families : Alive(f) => f \in displaced \union spared

\* A studio never stays on a token the BFF refuses: it is replaced, or the tab
\* is shown to be logged out, whatever calls of this and other tabs run
\* meanwhile (a renewal answered after a logout brings such a token back).
Refused(t) == tab[t].token # None /\ ~ Accepted(tab[t].token)
RefusedTokenGoes == \A t \in Studios : Refused(t) ~> ~ Refused(t)

\* Every open tab comes to show who is logged in, or that nobody is, unless
\* its first refresh was never answered.
Shows(t) == tab[t].open => tab[t].ready
ReadyIfAnswered == []<>(\A t \in Tabs : Shows(t) \/ t \in rejected)
=============================================================================
