------------------------------ MODULE Accounts ------------------------------
(***************************************************************************)
(* Who gets into which account: the rows of users, as register, login and   *)
(* upsertOauthUser of apps/svc-core/src/auth/auth.service.ts read and write *)
(* them, and the Twitch flow of apps/bff/src/routes/twitch.ts, whose state  *)
(* cookie ties a callback to the browser that began it.                     *)
(*                                                                          *)
(* The callback is split where it awaits.  A row's id is its place in       *)
(* `rows'.  A mailbox is an address up to case and outer blanks; an address *)
(* written in another way than emailSchema writes it is `raw'.  Hashing,    *)
(* throttles, password changes and refresh sessions are in other modules;   *)
(* without them rows only come to be, and what a login reads is not stale.  *)
(***************************************************************************)
EXTENDS Naturals, Sequences

CONSTANTS Browsers, Passwords,
          Identities,   \* Twitch accounts
          Mailboxes,
          Flows,        \* values of the state parameter
          Jobs,         \* handlers at work
          None,
          MaxFaults     \* bound on failures of Twitch and of Redis

ASSUME NoneIsNobody == None \notin Browsers \union Passwords \union Identities \union Flows
ASSUME FaultBound == MaxFaults \in Nat

VARIABLES
  rows,      \* Postgres: users
  mail,      \* external: the address Twitch tells of an identity, if any
  cookie,    \* each browser's sx_oauth_state
  flow,      \* each state: the browser it was made for, the identity that granted
             \* it (external), and whether its code was exchanged
  entered,   \* the account each browser is signed in to, 0 if none
  job,       \* the handlers at work
  typed,     \* history: the mailbox and password each browser last logged in with
  faults

vars == <<rows, mail, cookie, flow, entered, job, typed, faults>>

\* The mailbox of an identity's made-up address is the identity itself.
Boxes  == Mailboxes \union Identities
Emails == [box : Boxes, raw : BOOLEAN]
NoMail == [box |-> None, raw |-> FALSE]
NoLogin == [box |-> None, pass |-> None]

Row  == [email : Emails, pass : Passwords \union {None}, provider : Identities \union {None}]
Flow == [by : Browsers \union {None}, as : Identities \union {None}, used : BOOLEAN]
Job  == [at : {"idle", "code", "provider", "insert", "session"},
         browser : Browsers \union {None}, flow : Flows \union {None}, user : Nat]
Idle == [at |-> "idle", browser |-> None, flow |-> None, user |-> 0]

TypeOK ==
  /\ rows \in Seq(Row) /\ mail \in [Identities -> Emails \union {NoMail}]
  /\ cookie \in [Browsers -> Flows \union {None}]
  /\ flow \in [Flows -> Flow]
  /\ entered \in [Browsers -> Nat]
  /\ job \in [Jobs -> Job] /\ faults \in Nat
  /\ typed \in [Browsers -> [box : Boxes, pass : Passwords] \union {NoLogin}]

Init ==
  /\ rows = <<>>
  /\ mail \in [Identities -> [box : Mailboxes, raw : {TRUE}] \union {NoMail}]
  /\ cookie = [b \in Browsers |-> None]
  /\ flow = [f \in Flows |-> [by |-> None, as |-> None, used |-> FALSE]]
  /\ entered = [b \in Browsers |-> 0]
  /\ job = [j \in Jobs |-> Idle] /\ faults = 0
  /\ typed = [b \in Browsers |-> NoLogin]

Fault == faults < MaxFaults /\ faults' = faults + 1
-----------------------------------------------------------------------------
(* The table.                                                               *)

Canonical(e) == [e EXCEPT !.raw = FALSE]
Users        == DOMAIN rows
By(email)    == {u \in Users : rows[u].email = email}

\* The unique indexes: email, lower(trim(email)) and provider_id.
Clash(r, s) == r.email.box = s.email.box \/ (r.provider # None /\ r.provider = s.provider)

Fits(r) == \A u \in Users : ~ Clash(r, rows[u])

To(j, at) == job' = [job EXCEPT ![j].at = at]
Done(j)   == job' = [job EXCEPT ![j] = Idle]
-----------------------------------------------------------------------------
(* auth.service.ts: passwords.                                              *)

\* register: the address is canonicalized, and the INSERT makes the row or fails
\* (as an internal error: isUniqueViolation does not know drizzle's errors).
Register(e, p) ==
  LET r == [email |-> Canonical(e), pass |-> p, provider |-> None] IN
  /\ Fits(r)
  /\ rows' = Append(rows, r)
  /\ UNCHANGED <<mail, cookie, flow, entered, job, typed, faults>>

\* Slip: the lookup loses its condition on the address.
AnyAccount(e) == {u \in Users : rows[u].pass # None}
\* login: the canonical form is looked up first, then the address as it was typed;
\* a row without a password is like none.
Account(e) ==
  LET found == IF By(Canonical(e)) # {} THEN By(Canonical(e)) ELSE By(e) IN
  {u \in found : rows[u].pass # None}

\* Slip: an answer of verifyPassword is enough, whatever it says.
Unverified(u, p) == rows[u].pass # None
\* verifyPassword against the row's hash.
Verified(u, p) == rows[u].pass = p

\* The browser gets its session.
Login(b, e, p) ==
  /\ typed' = [typed EXCEPT ![b] = [box |-> e.box, pass |-> p]]
  /\ \E u \in Account(e) : Verified(u, p) /\ entered' = [entered EXCEPT ![b] = u]
  /\ UNCHANGED <<rows, mail, cookie, flow, job, faults>>

SignOut(b) ==
  /\ entered[b] # 0
  /\ entered' = [entered EXCEPT ![b] = 0]
  /\ UNCHANGED <<rows, mail, cookie, flow, job, typed, faults>>
-----------------------------------------------------------------------------
(* routes/twitch.ts and upsertOauthUser.                                    *)

Unused(f) == (\A b \in Browsers : cookie[b] # f) /\ (\A j \in Jobs : job[j].flow # f)

\* GET /auth/twitch: a fresh state, which replaces that of another tab.
StartFlow(b, f) ==
  /\ Unused(f)
  /\ cookie' = [cookie EXCEPT ![b] = f]
  /\ flow' = [flow EXCEPT ![f] = [by |-> b, as |-> None, used |-> FALSE]]
  /\ UNCHANGED <<rows, mail, entered, job, typed, faults>>

\* Somebody grants the flow at Twitch (external).
Grant(f, i) ==
  /\ flow[f].by # None /\ flow[f].as = None
  /\ flow' = [flow EXCEPT ![f].as = i]
  /\ UNCHANGED <<rows, mail, cookie, entered, job, typed, faults>>

\* The query's state is the cookie's.
SameState(b, f) == cookie[b] = f

\* The callback's query names another state than the cookie, or an error, or the
\* cookie is gone: the cookie is cleared either way.
CallbackRefused(b) ==
  /\ cookie[b] # None
  /\ cookie' = [cookie EXCEPT ![b] = None]
  /\ UNCHANGED <<rows, mail, flow, entered, job, typed, faults>>

\* A browser, any, is sent back by Twitch, or repeats the callback.
Callback(j, b, f) ==
  /\ flow[f].as # None /\ SameState(b, f)
  /\ job[j] = Idle
  /\ job' = [job EXCEPT ![j] = [at |-> "code", browser |-> b, flow |-> f, user |-> 0]]
  /\ UNCHANGED <<rows, mail, cookie, flow, entered, typed, faults>>

\* The redirect that ends the callback carries the cleared cookie.
Answered(j) == cookie' = [cookie EXCEPT ![job[j].browser] = None] /\ Done(j)

\* The code buys an access token once, and the token names the identity.
Exchange(j) ==
  /\ job[j].at = "code" /\ ~ flow[job[j].flow].used
  /\ flow' = [flow EXCEPT ![job[j].flow].used = TRUE]
  /\ To(j, "provider")
  /\ UNCHANGED <<rows, mail, cookie, entered, typed, faults>>
ExchangeFailed(j) ==
  /\ job[j].at = "code"
  /\ (flow[job[j].flow].used /\ UNCHANGED faults) \/ Fault
  /\ Answered(j)
  /\ UNCHANGED <<rows, mail, flow, entered, typed>>

Identity(j) == flow[job[j].flow].as

\* Slip: an account with the identity's mailbox is taken for the identity's.
KnownByMail(i) == {u \in Users : rows[u].provider = i \/ rows[u].email.box = mail[i].box}
\* Slip: the canonical address is looked up, and the address as it is was stored.
KnownByAddress(i) == {u \in By(Canonical(mail[i])) : rows[u].pass = None}
Known(i) == {u \in Users : rows[u].provider = i}

\* upsertOauthUser: SELECT by provider_id.
SelectIdentity(j) ==
  LET found == Known(Identity(j)) IN
  /\ job[j].at = "provider"
  /\ job' = [job EXCEPT ![j].at = IF found = {} THEN "insert" ELSE "session",
                        ![j].user = IF found = {} THEN 0 ELSE CHOOSE u \in found : TRUE]
  /\ UNCHANGED <<rows, mail, cookie, flow, entered, typed, faults>>

\* req.email || fallbackEmail, as Twitch wrote it.
OauthEmail(i) == IF mail[i] = NoMail THEN [box |-> i, raw |-> FALSE] ELSE mail[i]

\* upsertOauthUser: the INSERT makes the row, or fails and the callback with it
\* (the second INSERT is behind isUniqueViolation, which is never true).
InsertIdentity(j) ==
  LET i == Identity(j)
      r == [email |-> OauthEmail(i), pass |-> None, provider |-> i] IN
  /\ job[j].at = "insert"
  /\ IF Fits(r)
     THEN /\ rows' = Append(rows, r)
          /\ job' = [job EXCEPT ![j].at = "session", ![j].user = Len(rows')]
          /\ UNCHANGED cookie
     ELSE Answered(j) /\ UNCHANGED rows
  /\ UNCHANGED <<mail, flow, entered, typed, faults>>

\* createSession, which gives nothing if Redis does not answer; the redirect home.
OauthSession(j) ==
  /\ job[j].at = "session"
  /\ \/ entered' = [entered EXCEPT ![job[j].browser] = job[j].user] /\ UNCHANGED faults
     \/ Fault /\ UNCHANGED entered
  /\ Answered(j)
  /\ UNCHANGED <<rows, mail, flow, typed>>
-----------------------------------------------------------------------------
Work(j) ==
  \/ Exchange(j) \/ ExchangeFailed(j) \/ SelectIdentity(j) \/ InsertIdentity(j)
  \/ OauthSession(j)

Next ==
  \/ \E e \in Emails, p \in Passwords : Register(e, p) \/ \E b \in Browsers : Login(b, e, p)
  \/ \E b \in Browsers : SignOut(b) \/ CallbackRefused(b) \/ \E f \in Flows : StartFlow(b, f)
  \/ \E f \in Flows, i \in Identities : Grant(f, i)
  \/ \E j \in Jobs, b \in Browsers, f \in Flows : Callback(j, b, f)
  \/ \E j \in Jobs : Work(j)

Spec == Init /\ [][Next]_vars

\* Handlers go on, and whoever owns an identity keeps beginning flows, grants them
\* while their cookie is there and is sent back, if not always in time.
Fairness ==
  /\ \A j \in Jobs : WF_vars(Work(j))
  /\ SF_vars(\E b \in Browsers, f \in Flows : StartFlow(b, f))
  /\ \A i \in Identities :
       /\ SF_vars(\E f \in Flows : Grant(f, i) /\ flow[f].by # None /\ cookie[flow[f].by] = f)
       /\ SF_vars(\E j \in Jobs, b \in Browsers, f \in Flows :
                    flow[f].as = i /\ flow[f].by = b /\ ~ flow[f].used /\ Callback(j, b, f))

FairSpec == Spec /\ Fairness
-----------------------------------------------------------------------------
\* Whoever gets into an account proved to be its owner: by presenting its mailbox and
\* its password, or by a grant of the account's identity in a flow that this very
\* browser began; an identity never opens an account made with a password.
OwnersOnly ==
  [][\A b \in Browsers : entered'[b] \notin {0, entered[b]} =>
       LET u == rows[entered'[b]] IN
       \/ /\ u.pass # None /\ u.pass = typed'[b].pass
          /\ u.email.box = typed'[b].box /\ job' = job
       \/ \E j \in Jobs : /\ job[j].at = "session" /\ job[j].browser = b
                          /\ flow[job[j].flow].by = b
                          /\ u.provider = Identity(j) /\ u.pass = None]_vars

\* Another account has the mailbox this identity's account would get.
TakenFrom(i) == \E u \in Users : rows[u].email.box = OauthEmail(i).box /\ rows[u].provider # i

\* Whoever owns an identity gets in with it, again and again, through overlapping
\* first logins, replaced cookies and failures, unless an account made with a
\* password has its mailbox: then, against auth.service.ts:149, never.
IdentityGetsIn ==
  \A i \in Identities :
    []<>(\E b \in Browsers : entered[b] # 0 /\ rows[entered[b]].provider = i) \/ <>[] TakenFrom(i)
=============================================================================
