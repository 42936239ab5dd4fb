---------------------------- MODULE AccountsProofs ----------------------------
(***************************************************************************)
(* Proofs about the accounts, for any number of browsers, flows, handlers   *)
(* and identities.  A handler reads the browser, the flow and the row it    *)
(* will sign in once and acts on them three awaits later; the invariant     *)
(* says that what it holds is still true then, whatever other handlers,     *)
(* new flows, grants and registrations came between.                        *)
(***************************************************************************)
EXTENDS Accounts, TLAPS, SequenceTheorems

\* A cookie names a flow that was made for its browser.
CookiesOwned == \A b \in Browsers : cookie[b] # None => flow[cookie[b]].by = b

\* A handler at work serves the browser its flow was made for, and somebody
\* granted that flow.
CallbacksOwned ==
  \A j \in Jobs : job[j].at # "idle" =>
    /\ job[j].flow \in Flows /\ job[j].browser \in Browsers
    /\ flow[job[j].flow].by = job[j].browser
    /\ Identity(j) # None

\* A row found by its identity, or made for one, is that identity's and has no
\* password.
RowsApart == \A u \in Users : rows[u].provider # None => rows[u].pass = None
Chosen ==
  \A j \in Jobs : job[j].at = "session" =>
    job[j].user \in Users /\ rows[job[j].user].provider = Identity(j)

OwnersInvariant == TypeOK /\ CookiesOwned /\ CallbacksOwned /\ RowsApart /\ Chosen
-----------------------------------------------------------------------------
(* Types.                                                                   *)

LEMMA RowFacts ==
  ASSUME TypeOK
  PROVE  /\ Users = 1..Len(rows) /\ Len(rows) \in Nat
         /\ \A u \in Users : rows[u] \in Row
BY DEF TypeOK, Users

\* A new row goes behind the others, which stay what they are.
LEMMA AppendFacts ==
  ASSUME TypeOK, NEW r \in Row, rows' = Append(rows, r)
  PROVE  /\ rows' \in Seq(Row) /\ Len(rows') = Len(rows) + 1
         /\ Users' = Users \union {Len(rows')}
         /\ rows'[Len(rows')] = r
         /\ \A u \in Users : rows'[u] = rows[u]
<1>1. /\ rows' \in Seq(Row) /\ Len(rows') = Len(rows) + 1
      /\ \A i \in 1..Len(rows) : rows'[i] = rows[i]
      /\ rows'[Len(rows) + 1] = r
  BY AppendProperties DEF TypeOK
<1>2. Users = 1..Len(rows) /\ Len(rows) \in Nat /\ Users' = 1..Len(rows')
  BY <1>1, RowFacts DEF Users
<1> QED BY <1>1, <1>2

LEMMA NewRows ==
  ASSUME TypeOK
  PROVE  /\ \A e \in Emails, p \in Passwords :
              [email |-> Canonical(e), pass |-> p, provider |-> None] \in Row
         /\ \A i \in Identities :
              [email |-> OauthEmail(i), pass |-> None, provider |-> i] \in Row
<1>1. \A e \in Emails : Canonical(e) \in Emails
  BY DEF Emails, Canonical
<1>2. \A i \in Identities : OauthEmail(i) \in Emails
  BY DEF TypeOK, OauthEmail, Emails, Boxes
<1> QED BY <1>1, <1>2 DEF Row

LEMMA KnownFacts ==
  ASSUME TypeOK, NEW i, Known(i) # {}
  PROVE  LET u == CHOOSE v \in Known(i) : TRUE IN
         u \in Users /\ u \in Nat /\ rows[u].provider = i
BY RowFacts DEF Known

LEMMA FlowUpdates ==
  ASSUME NEW r \in Flow
  PROVE  /\ [r EXCEPT !.used = TRUE] \in Flow
         /\ \A i \in Identities : [r EXCEPT !.as = i] \in Flow
BY DEF Flow

LEMMA JobUpdates ==
  ASSUME NEW r \in Job
  PROVE  /\ Idle \in Job
         /\ \A a \in {"idle", "code", "provider", "insert", "session"} :
              /\ [r EXCEPT !.at = a] \in Job
              /\ \A u \in Nat : [r EXCEPT !.at = a, !.user = u] \in Job
         /\ \A b \in Browsers, f \in Flows :
              [at |-> "code", browser |-> b, flow |-> f, user |-> 0] \in Job
BY DEF Job, Idle

LEMMA DoneTypes ==
  ASSUME TypeOK, NEW j \in Jobs
  PROVE  /\ Done(j) => job' \in [Jobs -> Job]
         /\ Answered(j) => /\ job' \in [Jobs -> Job]
                           /\ cookie' \in [Browsers -> Flows \union {None}]
<1>1. Done(j) => job' \in [Jobs -> Job]
  BY JobUpdates DEF TypeOK, Done
<1>2. Answered(j) => cookie' \in [Browsers -> Flows \union {None}]
  BY DEF TypeOK, Answered
<1> QED BY <1>1, <1>2 DEF Answered

LEMMA InsertTypes == ASSUME TypeOK, NEW j \in Jobs, Identity(j) \in Identities, InsertIdentity(j)
                     PROVE  TypeOK'
<1> DEFINE r == [email |-> OauthEmail(Identity(j)), pass |-> None, provider |-> Identity(j)]
<1>1. r \in Row
  BY NewRows
<1>2. CASE Fits(r)
  <2>1. rows' = Append(rows, r) /\ UNCHANGED <<mail, flow, entered, typed, faults, cookie>>
    BY <1>2 DEF InsertIdentity
  <2>2. job' = [job EXCEPT ![j].at = "session", ![j].user = Len(rows')]
    BY <1>2 DEF InsertIdentity
  <2>3. rows' \in Seq(Row) /\ Len(rows') \in Nat
    BY <1>1, <2>1, AppendFacts, RowFacts
  <2>4. job' = [job EXCEPT ![j] = [job[j] EXCEPT !.at = "session", !.user = Len(rows')]]
    BY <2>2 DEF TypeOK
  <2>5. job' \in [Jobs -> Job]
    BY <2>3, <2>4, JobUpdates DEF TypeOK
  <2> QED BY <2>1, <2>3, <2>5 DEF TypeOK
<1>3. CASE ~ Fits(r)
  BY <1>3, DoneTypes DEF TypeOK, InsertIdentity
<1> QED BY <1>2, <1>3

LEMMA WorkTypes == ASSUME TypeOK, NEW j \in Jobs, Work(j),
                          job[j].at # "idle" => Identity(j) \in Identities
                   PROVE  TypeOK'
<1>1. CASE Exchange(j)
  <2>1. flow' \in [Flows -> Flow]
    BY <1>1, FlowUpdates DEF TypeOK, Exchange
  <2>2. job' \in [Jobs -> Job]
    BY <1>1, JobUpdates DEF TypeOK, Exchange, To
  <2> QED BY <1>1, <2>1, <2>2 DEF TypeOK, Exchange
<1>2. CASE ExchangeFailed(j)
  <2>1. faults' \in Nat
    BY <1>2 DEF TypeOK, ExchangeFailed, Fault
  <2> QED BY <1>2, <2>1, DoneTypes DEF TypeOK, ExchangeFailed
<1>3. CASE SelectIdentity(j)
  <2> DEFINE found == Known(Identity(j))
             u == IF found = {} THEN 0 ELSE CHOOSE v \in found : TRUE
             at == IF found = {} THEN "insert" ELSE "session"
  <2>1. u \in Nat
    BY KnownFacts
  <2>2. job' = [job EXCEPT ![j] = [job[j] EXCEPT !.at = at, !.user = u]]
    BY <1>3 DEF SelectIdentity, TypeOK
  <2>3. at \in {"insert", "session"}
    OBVIOUS
  <2>4. job' \in [Jobs -> Job]
    <3> HIDE DEF u, at
    <3> QED BY <2>1, <2>2, <2>3, JobUpdates DEF TypeOK
  <2> QED BY <1>3, <2>4 DEF TypeOK, SelectIdentity
<1>4. CASE InsertIdentity(j)
  BY <1>4, InsertTypes DEF InsertIdentity
<1>5. CASE OauthSession(j)
  <2>1. entered' \in [Browsers -> Nat] /\ faults' \in Nat
    BY <1>5 DEF TypeOK, OauthSession, Fault, Job
  <2>2. /\ job' \in [Jobs -> Job] /\ cookie' \in [Browsers -> Flows \union {None}]
        /\ UNCHANGED <<rows, mail, flow, typed>>
    BY <1>5, DoneTypes DEF OauthSession
  <2> QED BY <2>1, <2>2 DEF TypeOK
<1> QED BY <1>1, <1>2, <1>3, <1>4, <1>5 DEF Work

LEMMA StepTypes == ASSUME TypeOK, [Next]_vars,
                          \A j \in Jobs : job[j].at # "idle" => Identity(j) \in Identities
                   PROVE  TypeOK'
<1>1. ASSUME NEW e \in Emails, NEW p \in Passwords, Register(e, p) PROVE TypeOK'
  BY <1>1, NewRows, AppendFacts DEF TypeOK, Register
<1>2. ASSUME NEW b \in Browsers, NEW e \in Emails, NEW p \in Passwords, Login(b, e, p)
      PROVE  TypeOK'
  <2>1. entered' \in [Browsers -> Nat]
    BY <1>2, RowFacts DEF TypeOK, Login, Account, By
  <2>2. e.box \in Boxes
    BY DEF Emails
  <2>3. typed' \in [Browsers -> [box : Boxes, pass : Passwords] \union {NoLogin}]
    BY <1>2, <2>2 DEF TypeOK, Login
  <2>4. UNCHANGED <<rows, mail, cookie, flow, job, faults>>
    BY <1>2 DEF Login
  <2> QED BY <2>1, <2>3, <2>4 DEF TypeOK
<1>3. ASSUME NEW b \in Browsers, SignOut(b) \/ CallbackRefused(b) PROVE TypeOK'
  <2>1. entered' = [entered EXCEPT ![b] = 0] \/ entered' = entered
    BY <1>3 DEF SignOut, CallbackRefused
  <2>2. entered' \in [Browsers -> Nat]
    BY <2>1 DEF TypeOK
  <2>3. cookie' = [cookie EXCEPT ![b] = None] \/ cookie' = cookie
    BY <1>3 DEF SignOut, CallbackRefused
  <2>4. cookie' \in [Browsers -> Flows \union {None}]
    BY <2>3 DEF TypeOK
  <2>5. UNCHANGED <<rows, mail, flow, job, typed, faults>>
    BY <1>3 DEF SignOut, CallbackRefused
  <2> QED BY <2>2, <2>4, <2>5 DEF TypeOK
<1>4. ASSUME NEW b \in Browsers, NEW f \in Flows, StartFlow(b, f) PROVE TypeOK'
  BY <1>4 DEF TypeOK, StartFlow, Flow
<1>5. ASSUME NEW f \in Flows, NEW i \in Identities, Grant(f, i) PROVE TypeOK'
  <2>1. flow' \in [Flows -> Flow]
    BY <1>5, FlowUpdates DEF TypeOK, Grant
  <2> QED BY <1>5, <2>1 DEF TypeOK, Grant
<1>6. ASSUME NEW j \in Jobs, NEW b \in Browsers, NEW f \in Flows, Callback(j, b, f)
      PROVE  TypeOK'
  <2>1. job' \in [Jobs -> Job]
    BY <1>6, JobUpdates DEF TypeOK, Callback
  <2> QED BY <1>6, <2>1 DEF TypeOK, Callback
<1>7. UNCHANGED vars => TypeOK'
  BY DEF TypeOK, vars
<1> QED BY <1>1, <1>2, <1>3, <1>4, <1>5, <1>6, <1>7, WorkTypes DEF Next
-----------------------------------------------------------------------------
(* The invariant, one lemma per kind of step.                               *)

LEMMA IdentitiesOfCallbacks ==
  ASSUME TypeOK, CallbacksOwned
  PROVE  \A j \in Jobs : job[j].at # "idle" => Identity(j) \in Identities
BY DEF TypeOK, CallbacksOwned, Identity, Flow

\* Passwords: rows are only added, and only without an identity.
LEMMA RegisterStep ==
  ASSUME OwnersInvariant, NEW e \in Emails, NEW p \in Passwords, Register(e, p)
  PROVE  CookiesOwned' /\ CallbacksOwned' /\ RowsApart' /\ Chosen'
<1> DEFINE r == [email |-> Canonical(e), pass |-> p, provider |-> None]
<1>1. /\ Users' = Users \union {Len(rows')} /\ rows'[Len(rows')] = r
      /\ \A u \in Users : rows'[u] = rows[u]
      /\ UNCHANGED <<cookie, flow, job>>
  BY NewRows, AppendFacts DEF OwnersInvariant, Register
<1>2. CookiesOwned' /\ CallbacksOwned'
  BY <1>1 DEF OwnersInvariant, CookiesOwned, CallbacksOwned, Identity
<1>3. RowsApart'
  BY <1>1 DEF OwnersInvariant, RowsApart
<1>4. Chosen'
  BY <1>1 DEF OwnersInvariant, Chosen, Identity
<1> QED BY <1>2, <1>3, <1>4

\* A fresh state is named by no cookie and by no handler, so that making a flow
\* over its old record takes nothing from anybody.
LEMMA FlowStep ==
  ASSUME OwnersInvariant, NEW b \in Browsers, NEW f \in Flows, StartFlow(b, f)
  PROVE  CookiesOwned' /\ CallbacksOwned' /\ RowsApart' /\ Chosen'
<1>1. /\ cookie' = [cookie EXCEPT ![b] = f]
      /\ flow' = [flow EXCEPT ![f] = [by |-> b, as |-> None, used |-> FALSE]]
      /\ \A c \in Browsers : cookie[c] # f
      /\ \A j \in Jobs : job[j].flow # f
      /\ UNCHANGED <<rows, job>>
  BY DEF StartFlow, Unused
<1>2. CookiesOwned'
  BY <1>1 DEF OwnersInvariant, CookiesOwned, TypeOK
<1>3. \A j \in Jobs : job[j].at # "idle" => flow'[job[j].flow] = flow[job[j].flow]
  BY <1>1 DEF OwnersInvariant, CallbacksOwned, TypeOK
<1>4. CallbacksOwned' /\ RowsApart' /\ Chosen'
  BY <1>1, <1>3 DEF OwnersInvariant, CallbacksOwned, RowsApart, Chosen, Users, Identity
<1> QED BY <1>2, <1>4

\* A flow is granted once: what a handler read of it stays.
LEMMA GrantStep ==
  ASSUME OwnersInvariant, NEW f \in Flows, NEW i \in Identities, Grant(f, i)
  PROVE  CookiesOwned' /\ CallbacksOwned' /\ RowsApart' /\ Chosen'
<1>1. /\ \A g \in Flows : flow'[g].by = flow[g].by
      /\ \A g \in Flows : flow[g].as # None => flow'[g].as = flow[g].as
      /\ UNCHANGED <<rows, job, cookie>>
  BY DEF Grant, OwnersInvariant, TypeOK, Flow
<1>2. CookiesOwned'
  BY <1>1 DEF OwnersInvariant, CookiesOwned, TypeOK
<1>3. CallbacksOwned'
  BY <1>1 DEF OwnersInvariant, CallbacksOwned, Identity
<1>4. RowsApart' /\ Chosen'
  BY <1>1 DEF OwnersInvariant, CallbacksOwned, RowsApart, Chosen, Users, Identity
<1> QED BY <1>2, <1>3, <1>4

\* The callback takes the flow of the browser's own cookie.
LEMMA CallbackStep ==
  ASSUME OwnersInvariant, NEW j \in Jobs, NEW b \in Browsers, NEW f \in Flows,
         Callback(j, b, f)
  PROVE  CookiesOwned' /\ CallbacksOwned' /\ RowsApart' /\ Chosen'
<1>1. /\ flow[f].as # None /\ flow[f].by = b
      /\ job'[j] = [at |-> "code", browser |-> b, flow |-> f, user |-> 0]
      /\ \A k \in Jobs \ {j} : job'[k] = job[k]
      /\ UNCHANGED <<rows, flow, cookie>>
  BY NoneIsNobody DEF Callback, SameState, OwnersInvariant, CookiesOwned, TypeOK
<1>2. CookiesOwned' /\ RowsApart'
  BY <1>1 DEF OwnersInvariant, CookiesOwned, RowsApart, Users
<1>3. CallbacksOwned' /\ Chosen'
  BY <1>1 DEF OwnersInvariant, CallbacksOwned, Chosen, Users, Identity
<1> QED BY <1>2, <1>3

\* A handler that ends, and whose browser's cookie is cleared.
LEMMA AnsweredStep ==
  ASSUME OwnersInvariant, NEW j \in Jobs, Answered(j), UNCHANGED <<rows, flow>>
  PROVE  CookiesOwned' /\ CallbacksOwned' /\ RowsApart' /\ Chosen'
<1>1. /\ job'[j].at = "idle" /\ \A k \in Jobs \ {j} : job'[k] = job[k]
      /\ \A b \in Browsers : cookie'[b] \in {None, cookie[b]}
  BY DEF Answered, Done, Idle, OwnersInvariant, TypeOK
<1>2. CookiesOwned' /\ RowsApart'
  BY <1>1 DEF OwnersInvariant, CookiesOwned, RowsApart, Users
<1>3. CallbacksOwned' /\ Chosen'
  BY <1>1 DEF OwnersInvariant, CallbacksOwned, Chosen, Users, Identity
<1> QED BY <1>2, <1>3

LEMMA WorkStep ==
  ASSUME OwnersInvariant, NEW j \in Jobs, Work(j)
  PROVE  CookiesOwned' /\ CallbacksOwned' /\ RowsApart' /\ Chosen'
<1>1. CASE Exchange(j)
  <2>1. /\ \A g \in Flows : flow'[g].by = flow[g].by /\ flow'[g].as = flow[g].as
        /\ \A k \in Jobs \ {j} : job'[k] = job[k]
        /\ job[j].at = "code" /\ UNCHANGED <<rows, cookie>>
    BY <1>1 DEF Exchange, To, OwnersInvariant, TypeOK, Flow
  <2>2. job'[j].at = "provider" /\ job'[j].flow = job[j].flow /\ job'[j].browser = job[j].browser
    <3>1. job'[j] = [job[j] EXCEPT !.at = "provider"]
      BY <1>1 DEF Exchange, To, OwnersInvariant, TypeOK
    <3> QED BY <3>1 DEF OwnersInvariant, TypeOK, Job
  <2>3. CookiesOwned' /\ RowsApart'
    BY <2>1 DEF OwnersInvariant, CookiesOwned, RowsApart, Users, TypeOK
  <2>4. CallbacksOwned'
    BY <2>1, <2>2 DEF OwnersInvariant, CallbacksOwned, Identity
  <2>5. Chosen'
    BY <2>1, <2>2 DEF OwnersInvariant, CallbacksOwned, Chosen, Users, Identity
  <2> QED BY <2>3, <2>4, <2>5
<1>2. CASE ExchangeFailed(j)
  BY <1>2, AnsweredStep DEF ExchangeFailed
<1>3. CASE SelectIdentity(j)
  <2> DEFINE found == Known(Identity(j))
             u == IF found = {} THEN 0 ELSE CHOOSE v \in found : TRUE
             at == IF found = {} THEN "insert" ELSE "session"
  <2>1. /\ \A k \in Jobs \ {j} : job'[k] = job[k]
        /\ job[j].at = "provider" /\ UNCHANGED <<rows, cookie, flow>>
    BY <1>3 DEF SelectIdentity, OwnersInvariant, TypeOK
  <2>2. /\ job'[j].at = at /\ job'[j].user = u
        /\ job'[j].flow = job[j].flow /\ job'[j].browser = job[j].browser
    <3>1. job'[j] = [job[j] EXCEPT !.at = at, !.user = u]
      BY <1>3 DEF SelectIdentity, OwnersInvariant, TypeOK
    <3> HIDE DEF u, at
    <3> QED BY <3>1 DEF OwnersInvariant, TypeOK, Job
  <2>3. at \in {"insert", "session"} /\ (at = "session" => u \in Users /\ rows[u].provider = Identity(j))
    BY KnownFacts DEF OwnersInvariant
  <2> HIDE DEF u, at
  <2>4. CookiesOwned' /\ RowsApart'
    BY <2>1 DEF OwnersInvariant, CookiesOwned, RowsApart, Users
  <2>5. CallbacksOwned'
    BY <2>1, <2>2, <2>3 DEF OwnersInvariant, CallbacksOwned, Identity
  <2>6. Chosen'
    BY <2>1, <2>2, <2>3 DEF OwnersInvariant, Chosen, Users, Identity
  <2> QED BY <2>4, <2>5, <2>6
<1>4. CASE InsertIdentity(j)
  <2> DEFINE r == [email |-> OauthEmail(Identity(j)), pass |-> None, provider |-> Identity(j)]
  <2>0. job[j].at = "insert" /\ UNCHANGED flow
    BY <1>4 DEF InsertIdentity
  <2>1. CASE ~ Fits(r)
    BY <1>4, <2>1, AnsweredStep DEF InsertIdentity
  <2>2. CASE Fits(r)
    <3>1. rows' = Append(rows, r) /\ UNCHANGED cookie
      BY <1>4, <2>2 DEF InsertIdentity
    <3>2. job' = [job EXCEPT ![j] = [job[j] EXCEPT !.at = "session", !.user = Len(rows')]]
      BY <1>4, <2>2 DEF InsertIdentity, OwnersInvariant, TypeOK
    <3>3. r \in Row
      BY <2>0, NewRows, IdentitiesOfCallbacks DEF OwnersInvariant
    <3>4. /\ Users' = Users \union {Len(rows')} /\ rows'[Len(rows')] = r
          /\ \A u \in Users : rows'[u] = rows[u]
      BY <3>1, <3>3, AppendFacts DEF OwnersInvariant
    <3>5. job'[j] = [job[j] EXCEPT !.at = "session", !.user = Len(rows')]
      BY <3>2 DEF OwnersInvariant, TypeOK
    <3>6. /\ job'[j].at = "session" /\ job'[j].user = Len(rows')
          /\ job'[j].flow = job[j].flow /\ job'[j].browser = job[j].browser
          /\ \A k \in Jobs \ {j} : job'[k] = job[k]
      BY <3>2, <3>5 DEF OwnersInvariant, TypeOK, Job
    <3>7. CookiesOwned'
      BY <2>0, <3>1 DEF OwnersInvariant, CookiesOwned
    <3>8. RowsApart'
      BY <3>4 DEF OwnersInvariant, RowsApart
    <3>9. CallbacksOwned'
      BY <2>0, <3>6 DEF OwnersInvariant, CallbacksOwned, Identity
    <3>10. Chosen'
      BY <2>0, <3>4, <3>6 DEF OwnersInvariant, Chosen, Identity
    <3> QED BY <3>7, <3>8, <3>9, <3>10
  <2> QED BY <2>1, <2>2
<1>5. CASE OauthSession(j)
  BY <1>5, AnsweredStep DEF OauthSession
<1> QED BY <1>1, <1>2, <1>3, <1>4, <1>5 DEF Work

LEMMA OwnersInit == Init => OwnersInvariant
<1> SUFFICES ASSUME Init PROVE OwnersInvariant
  OBVIOUS
<1>1. rows = <<>> /\ Users = {} /\ \A j \in Jobs : job[j].at = "idle"
  BY DEF Init, Idle, Users
<1>2. TypeOK
  <2>1. mail \in [Identities -> Emails \union {NoMail}]
    BY DEF Init, Emails, Boxes
  <2>2. flow \in [Flows -> Flow] /\ job \in [Jobs -> Job]
    BY DEF Init, Flow, Job, Idle
  <2>3. rows \in Seq(Row)
    BY EmptySeq DEF Init
  <2>4. /\ cookie \in [Browsers -> Flows \union {None}]
        /\ entered \in [Browsers -> Nat] /\ faults \in Nat
        /\ typed \in [Browsers -> [box : Boxes, pass : Passwords] \union {NoLogin}]
    BY DEF Init
  <2> QED BY <2>1, <2>2, <2>3, <2>4 DEF TypeOK
<1>3. CookiesOwned
  BY DEF Init, CookiesOwned
<1>4. CallbacksOwned /\ RowsApart /\ Chosen
  BY <1>1 DEF CallbacksOwned, RowsApart, Chosen
<1> QED BY <1>2, <1>3, <1>4 DEF OwnersInvariant

LEMMA OwnersStep == OwnersInvariant /\ [Next]_vars => OwnersInvariant'
<1> SUFFICES ASSUME OwnersInvariant, [Next]_vars
             PROVE  CookiesOwned' /\ CallbacksOwned' /\ RowsApart' /\ Chosen'
  BY StepTypes, IdentitiesOfCallbacks DEF OwnersInvariant
<1>1. ASSUME \/ UNCHANGED <<rows, cookie, flow, job>>
             \/ \E b \in Browsers : CallbackRefused(b)
      PROVE  CookiesOwned' /\ CallbacksOwned' /\ RowsApart' /\ Chosen'
  <2>1. /\ UNCHANGED <<rows, flow, job>>
        /\ \A b \in Browsers : cookie'[b] \in {None, cookie[b]}
    BY <1>1 DEF CallbackRefused, OwnersInvariant, TypeOK
  <2> QED BY <2>1 DEF OwnersInvariant, CookiesOwned, CallbacksOwned, RowsApart, Chosen,
                      Users, Identity
<1>2. ASSUME NEW b \in Browsers, SignOut(b) PROVE UNCHANGED <<rows, cookie, flow, job>>
  BY <1>2 DEF SignOut
<1>3. ASSUME NEW b \in Browsers, NEW e \in Emails, NEW p \in Passwords, Login(b, e, p)
      PROVE  UNCHANGED <<rows, cookie, flow, job>>
  BY <1>3 DEF Login
<1> QED BY <1>1, <1>2, <1>3, RegisterStep, FlowStep, GrantStep, CallbackStep, WorkStep
        DEF Next, vars

LEMMA OwnersHold == Spec => []OwnersInvariant
BY OwnersInit, OwnersStep, PTL DEF Spec
-----------------------------------------------------------------------------
\* Every row, cookie, flow and handler has its type.
THEOREM AccountsTyped == Spec => []TypeOK
<1>1. OwnersInvariant => TypeOK
  BY DEF OwnersInvariant
<1> QED BY <1>1, OwnersHold, PTL

\* Nobody gets into somebody else's account: a session on a row is given to the browser
\* that presented the row's mailbox and password, or, on a row without a password, to
\* the browser that began the flow in which the row's identity was granted; for any
\* interleaving of callbacks, new flows, log-ins and registrations (twitch.ts:41-105,
\* auth.service.ts:61-92, 131-158).
THEOREM OnlyOwners == Spec => OwnersOnly
<1> DEFINE Owned ==
      \A b \in Browsers : entered'[b] \notin {0, entered[b]} =>
        LET u == rows[entered'[b]] IN
        \/ /\ u.pass # None /\ u.pass = typed'[b].pass
           /\ u.email.box = typed'[b].box /\ job' = job
        \/ \E j \in Jobs : /\ job[j].at = "session" /\ job[j].browser = b
                           /\ flow[job[j].flow].by = b
                           /\ u.provider = Identity(j) /\ u.pass = None
<1>1. ASSUME OwnersInvariant, [Next]_vars PROVE [Owned]_vars
  <2>1. ASSUME NEW e \in Emails, NEW p \in Passwords, NEW c \in Browsers, Login(c, e, p)
        PROVE  Owned
    <3>1. PICK u \in Account(e) : rows[u].pass = p /\ entered' = [entered EXCEPT ![c] = u]
      BY <2>1 DEF Login, Verified
    <3>2. Canonical(e).box = e.box
      BY DEF Canonical, Emails
    <3>3. u \in Users /\ rows[u].pass # None /\ rows[u].email.box = e.box
      BY <3>1, <3>2 DEF Account, By
    <3>4. typed'[c].box = e.box /\ typed'[c].pass = p /\ UNCHANGED job
      BY <1>1, <2>1 DEF Login, OwnersInvariant, TypeOK
    <3>5. \A b \in Browsers : entered'[b] # entered[b] => b = c /\ entered'[b] = u
      BY <1>1, <3>1 DEF OwnersInvariant, TypeOK
    <3> QED BY <3>1, <3>3, <3>4, <3>5
  <2>2. ASSUME NEW j \in Jobs, OauthSession(j) PROVE Owned
    <3>1. \A b \in Browsers : entered'[b] # entered[b] =>
            b = job[j].browser /\ entered'[b] = job[j].user
      BY <1>1, <2>2 DEF OauthSession, OwnersInvariant, TypeOK
    <3>2. job[j].at = "session"
      BY <2>2 DEF OauthSession
    <3>3. /\ flow[job[j].flow].by = job[j].browser
          /\ rows[job[j].user].provider = Identity(j)
          /\ rows[job[j].user].pass = None
      BY <1>1, <3>2 DEF OwnersInvariant, CallbacksOwned, RowsApart, Chosen
    <3> QED BY <3>1, <3>2, <3>3
  <2>3. ASSUME NEW c \in Browsers, SignOut(c) PROVE Owned
    BY <1>1, <2>3 DEF SignOut, OwnersInvariant, TypeOK
  <2>4. UNCHANGED entered => Owned
    OBVIOUS
  <2>5. ASSUME NEW j \in Jobs, Exchange(j) \/ ExchangeFailed(j) \/ SelectIdentity(j) \/ InsertIdentity(j)
        PROVE  UNCHANGED entered
    BY <2>5 DEF Exchange, ExchangeFailed, SelectIdentity, InsertIdentity
  <2>6. ASSUME NEW e \in Emails, NEW p \in Passwords, Register(e, p) PROVE UNCHANGED entered
    BY <2>6 DEF Register
  <2>7. ASSUME NEW b \in Browsers, NEW f \in Flows, StartFlow(b, f)
        PROVE  UNCHANGED entered
    BY <2>7 DEF StartFlow
  <2>8. ASSUME NEW f \in Flows, NEW i \in Identities, Grant(f, i) PROVE UNCHANGED entered
    BY <2>8 DEF Grant
  <2>9. ASSUME NEW j \in Jobs, NEW b \in Browsers, NEW f \in Flows, Callback(j, b, f)
        PROVE  UNCHANGED entered
    BY <2>9 DEF Callback
  <2>10. ASSUME NEW b \in Browsers, CallbackRefused(b) PROVE UNCHANGED entered
    BY <2>10 DEF CallbackRefused
  <2> HIDE DEF Owned
  <2> QED BY <1>1, <2>1, <2>2, <2>3, <2>4, <2>5, <2>6, <2>7, <2>8, <2>9, <2>10 DEF Next, Work
<1>2. OwnersInvariant /\ [Next]_vars => [Owned]_vars
  BY <1>1
<1> QED BY <1>2, OwnersHold, PTL DEF Spec, OwnersOnly
=============================================================================
