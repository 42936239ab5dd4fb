--------------------------- MODULE RefreshSession ---------------------------
(***************************************************************************)
(* The BFF's rotating refresh sessions and the access tokens minted under   *)
(* them: apps/bff/src/session.ts, token.ts, auth.ts and the /auth routes    *)
(* (routes/auth.ts, routes/twitch.ts), for one user.  Users share no key.   *)
(*                                                                          *)
(* Redis is the shared state: every command, MULTI block and Lua script is  *)
(* one atomic step; a request handler is split where it awaits one.  Keys   *)
(* carry the time they expire; a key exists while now is earlier.  Redis    *)
(* runs without persistence and with allkeys-lru, so keys may also be lost. *)
(*                                                                          *)
(* A request may present any sid or access token ever handed out: a cookie  *)
(* replayed late, by a second tab, or copied, is not told from a fresh one. *)
(***************************************************************************)
EXTENDS Integers, FiniteSets

CONSTANTS Sids, Families, Tokens,   \* pools of UUIDs: sids, families, jtis
          Handlers,                 \* concurrent HTTP requests
          None,                     \* an absent key, field or argument
          Sliding, AbsMax, Grace,   \* REFRESH_TTL_DAYS, REFRESH_ABS_MAX_DAYS, REFRESH_GRACE_MS
          AccessTtl,                \* ACCESS_TTL
          Losses,                   \* the kinds of keys Redis may lose
          MaxTime, MaxFaults, MaxChanges   \* bounds of the exploration

KeyKinds == {"sid", "fam", "usess", "famrev", "deny", "restart"}

ASSUME Durations == {Sliding, AbsMax, Grace, AccessTtl} \subseteq Nat
ASSUME CapCoversWindow == Sliding <= AbsMax   \* env.ts:79-81
ASSUME NoneIsNoId == None \notin Sids \union Families \union Tokens
ASSUME LossKinds == Losses \subseteq KeyKinds
ASSUME BoundsAreNat == MaxChanges \in Nat

VARIABLES
  now,        \* the clock
  sess,       \* refresh:{sid}
  fam,        \* fam:{family}, with its expiry
  usess,      \* usess:{userId}, with its expiry
  denyFam,    \* deny:fam:{family}: when the marker expires
  famrev,     \* famrev:{family}: when the marker expires
  denyJti,    \* deny:jti:{jti}: when the marker expires
  access,     \* the access tokens minted
  req,        \* where each request stands
  up,         \* Redis answers
  password,   \* svc-core: how many times the password has changed
  issued,     \* history: the sids ever created
  lineage,    \* history: when a family began and which password it proved
  revokedAt,  \* history: when a family was last revoked, -1 if never
  forgotten,  \* history: families whose deny:fam marker Redis has lost
  faults      \* how many outages and losses Redis has had

store   == <<sess, fam, usess, denyFam, famrev, revokedAt>>
history == <<issued, lineage, forgotten>>
world   == <<now, up, faults>>
vars    == <<store, history, world, denyJti, access, req, password>>

Phases == {"idle", "verified", "mint", "revoke", "denyJti", "change", "list", "kill"}

Session == [family : Families, born : Nat, used : BOOLEAN, usedAt : Nat,
            next : Sids \union {None}, expire : Nat]
Lineage == [born : Nat, proved : Nat]
Access  == [family : Families \union {None}, iat : Nat]
Request == [phase : Phases, family : Families \union {None}, token : Tokens \union {None},
            proved : Nat, todo : SUBSET Families]

ASSUME NoneIsNoRecord == None \notin Session /\ None \notin Lineage /\ None \notin Access

StoreTypes ==
  /\ sess \in [Sids -> Session \union {None}]
  /\ fam \in [Families -> [members : SUBSET Sids, expire : Nat]]
  /\ usess \in [members : SUBSET Families, expire : Nat]
  /\ denyFam \in [Families -> Nat]
  /\ famrev \in [Families -> Nat]
  /\ revokedAt \in [Families -> Nat \union {-1}]
  /\ issued \subseteq Sids
  /\ lineage \in [Families -> Lineage \union {None}]
  /\ forgotten \subseteq Families

ServiceTypes ==
  /\ now \in Nat /\ up \in BOOLEAN /\ faults \in Nat /\ password \in Nat
  /\ denyJti \in [Tokens -> Nat]
  /\ access \in [Tokens -> Access \union {None}]
  /\ req \in [Handlers -> Request]

TypeOK == StoreTypes /\ ServiceTypes

Idle == [phase |-> "idle", family |-> None, token |-> None, proved |-> 0, todo |-> {}]
Gone == [members |-> {}, expire |-> 0]

Init ==
  /\ now = 0 /\ up = TRUE /\ password = 0 /\ faults = 0
  /\ sess = [s \in Sids |-> None]
  /\ fam = [f \in Families |-> Gone]
  /\ usess = Gone
  /\ denyFam = [f \in Families |-> 0]
  /\ famrev = [f \in Families |-> 0]
  /\ denyJti = [t \in Tokens |-> 0]
  /\ access = [t \in Tokens |-> None]
  /\ req = [h \in Handlers |-> Idle]
  /\ issued = {}
  /\ lineage = [f \in Families |-> None]
  /\ revokedAt = [f \in Families |-> -1]
  /\ forgotten = {}
-----------------------------------------------------------------------------
(* What Redis answers now.                                                  *)

Exists(s)     == sess[s] # None /\ now < sess[s].expire
SidsOf(f)     == IF now < fam[f].expire THEN fam[f].members ELSE {}
FamiliesNow   == IF now < usess.expire THEN usess.members ELSE {}
Revoked(f)    == now < famrev[f]
FamDenied(f)  == now < denyFam[f]
JtiDenied(t)  == now < denyJti[t]

Expiry(t)     == IF access[t] = None THEN 0 ELSE access[t].iat + AccessTtl

FreshSid(s)    == s \notin issued
FreshFamily(f) == lineage[f] = None

\* auth.ts verifyAccessToken: signature and expiry, then the two denylists,
\* which fail open while Redis is down.
Accepted(t) ==
  /\ now < Expiry(t)
  /\ up => /\ ~ JtiDenied(t)
           /\ access[t].family # None => ~ FamDenied(access[t].family)
-----------------------------------------------------------------------------
(* The atomic scripts.                                                      *)

\* createSession's MULTI block.
CreateSession(f, s, proved) ==
  /\ FreshFamily(f) /\ FreshSid(s)
  /\ sess' = [sess EXCEPT ![s] = [family |-> f, born |-> now, used |-> FALSE, usedAt |-> 0,
                                  next |-> None, expire |-> now + Sliding]]
  /\ fam' = [fam EXCEPT ![f] = [members |-> {s}, expire |-> now + Sliding]]
  /\ usess' = [members |-> FamiliesNow \union {f}, expire |-> now + Sliding]
  /\ issued' = issued \union {s}
  /\ lineage' = [lineage EXCEPT ![f] = [born |-> now, proved |-> proved]]
  /\ UNCHANGED <<denyFam, famrev, revokedAt, forgotten>>

\* Slip: a revocation that only deletes what the family set lists.
RevokeWithoutGuard(f, also) ==
  /\ sess' = [s \in Sids |-> IF s \in SidsOf(f) \union also THEN None ELSE sess[s]]
  /\ fam' = [fam EXCEPT ![f] = Gone]
  /\ usess' = [usess EXCEPT !.members = FamiliesNow \ {f}]
  /\ denyFam' = [denyFam EXCEPT ![f] = now + AccessTtl]
  /\ revokedAt' = [revokedAt EXCEPT ![f] = now]
  /\ forgotten' = forgotten \ {f}
  /\ UNCHANGED <<famrev, issued, lineage>>

\* Slip: a revocation that leaves the access tokens alone.
RevokeRefreshOnly(f, also) ==
  /\ sess' = [s \in Sids |-> IF s \in SidsOf(f) \union also THEN None ELSE sess[s]]
  /\ fam' = [fam EXCEPT ![f] = Gone]
  /\ usess' = [usess EXCEPT !.members = FamiliesNow \ {f}]
  /\ famrev' = [famrev EXCEPT ![f] = now + Sliding]
  /\ revokedAt' = [revokedAt EXCEPT ![f] = now]
  /\ forgotten' = forgotten \ {f}
  /\ UNCHANGED <<denyFam, issued, lineage>>

\* REVOKE_LUA, and the same lines inside ROTATE_LUA, which also unlinks the
\* presented sid: `also' are the sids unlinked besides the family's members.
RevokeFamily(f, also) ==
  /\ sess' = [s \in Sids |-> IF s \in SidsOf(f) \union also THEN None ELSE sess[s]]
  /\ fam' = [fam EXCEPT ![f] = Gone]
  /\ usess' = [usess EXCEPT !.members = FamiliesNow \ {f}]
  /\ denyFam' = [denyFam EXCEPT ![f] = now + AccessTtl]
  /\ famrev' = [famrev EXCEPT ![f] = now + Sliding]
  /\ revokedAt' = [revokedAt EXCEPT ![f] = now]
  /\ forgotten' = forgotten \ {f}
  /\ UNCHANGED <<issued, lineage>>

\* Slip: the user's index is not renewed.
ExtendUnindexed(s, n) ==
  LET f == sess[s].family IN
  /\ FreshSid(n)
  /\ fam' = [fam EXCEPT ![f] = [members |-> SidsOf(f) \union {n}, expire |-> now + Sliding]]
  /\ issued' = issued \union {n}
  /\ UNCHANGED <<usess, denyFam, famrev, revokedAt, lineage, forgotten>>

\* What ROTATE_LUA does to every key but the two sids when n succeeds s.
Extend(s, n) ==
  LET f == sess[s].family IN
  /\ FreshSid(n)
  /\ fam' = [fam EXCEPT ![f] = [members |-> SidsOf(f) \union {n}, expire |-> now + Sliding]]
  /\ usess' = [members |-> FamiliesNow, expire |-> now + Sliding]
  /\ issued' = issued \union {n}
  /\ UNCHANGED <<denyFam, famrev, revokedAt, lineage, forgotten>>

Spent(s, n) ==
  [sess[s] EXCEPT !.used = TRUE, !.usedAt = now, !.next = n, !.expire = now + Sliding]
Successor(s) ==
  [sess[s] EXCEPT !.expire = now + Sliding]

\* Slips: the old sid is not marked; the successor restarts the absolute cap,
\* or keeps the old expiry.
SucceedUnmarked(s, n) ==
  Extend(s, n) /\ sess' = [sess EXCEPT ![n] = Successor(s)]
SucceedReborn(s, n) ==
  Extend(s, n) /\ sess' = [sess EXCEPT ![s] = Spent(s, n),
                                       ![n] = [Successor(s) EXCEPT !.born = now]]
SucceedUnrenewed(s, n) ==
  Extend(s, n) /\ sess' = [sess EXCEPT ![s] = Spent(s, n), ![n] = sess[s]]

\* ROTATE_LUA, its last part: s is spent and n succeeds it.
Succeed(s, n) ==
  Extend(s, n) /\ sess' = [sess EXCEPT ![s] = Spent(s, n), ![n] = Successor(s)]

\* The replay of a spent sid that still earns its successor.
InGrace(s) ==
  /\ sess[s].used
  /\ sess[s].next # None
  /\ now - sess[s].usedAt <= Grace
  /\ Exists(sess[s].next)

TooOld(s) == now - sess[s].born > AbsMax
-----------------------------------------------------------------------------
(* Requests.                                                                *)

Become(h, r) == req' = [req EXCEPT ![h] = r]
Mint(h, f)   == Become(h, [Idle EXCEPT !.phase = "mint", !.family = f])
End(h)       == Become(h, Idle)

\* POST /auth/login: svc-core has checked the current password.
LoginVerified(h) ==
  /\ req[h].phase = "idle"
  /\ Become(h, [Idle EXCEPT !.phase = "verified", !.proved = password])
  /\ UNCHANGED <<store, history, world, denyJti, access, password>>

\* login: createSession, or null on an outage and a token without a family.
LoginSession(h) ==
  /\ req[h].phase = "verified"
  /\ \/ /\ up
        /\ \E f \in Families, s \in Sids :
             CreateSession(f, s, req[h].proved) /\ Mint(h, f)
     \/ ~ up /\ Mint(h, None) /\ UNCHANGED <<store, history>>
  /\ UNCHANGED <<world, denyJti, access, password>>

\* GET /auth/twitch/callback: a session without a password or a token.
OauthSession(h) ==
  /\ req[h].phase = "idle" /\ up
  /\ \E f \in Families, s \in Sids : CreateSession(f, s, MaxChanges)
  /\ UNCHANGED <<req, world, denyJti, access, password>>

\* login and refresh: mintAccess signs after the session step has returned.
MintAccess(h) ==
  /\ req[h].phase = "mint"
  /\ \E t \in Tokens :
       /\ access[t] = None
       /\ access' = [access EXCEPT ![t] = [family |-> req[h].family, iat |-> now]]
  /\ End(h)
  /\ UNCHANGED <<store, history, world, denyJti, password>>

\* POST /auth/refresh up to the script's answer.
RotateInvalid(h, s) ==
  /\ ~ Exists(s)
  /\ End(h) /\ UNCHANGED <<store, history>>

RotateRevoked(h, s) ==
  /\ Exists(s) /\ Revoked(sess[s].family)
  /\ sess' = [sess EXCEPT ![s] = None]
  /\ End(h) /\ UNCHANGED <<fam, usess, denyFam, famrev, revokedAt, history>>

RotateReplay(h, s) ==
  /\ Exists(s) /\ ~ Revoked(sess[s].family) /\ sess[s].used
  /\ IF InGrace(s)
     THEN Mint(h, sess[s].family) /\ UNCHANGED <<store, history>>
     ELSE RevokeFamily(sess[s].family, {s}) /\ End(h)

RotateUnused(h, s) ==
  /\ Exists(s) /\ ~ Revoked(sess[s].family) /\ ~ sess[s].used
  /\ IF TooOld(s)
     THEN RevokeFamily(sess[s].family, {s}) /\ End(h)
     ELSE \E n \in Sids : Succeed(s, n) /\ Mint(h, sess[s].family)

Refresh(h) ==
  /\ req[h].phase = "idle" /\ up
  /\ \E s \in issued :
       \/ RotateInvalid(h, s) \/ RotateRevoked(h, s)
       \/ RotateReplay(h, s) \/ RotateUnused(h, s)
  /\ UNCHANGED <<world, denyJti, access, password>>

\* POST /auth/logout, revokeSession's HGETALL: the family it will revoke.
LogoutRead(h) ==
  /\ req[h].phase = "idle"
  /\ \E s \in issued, t \in {u \in Tokens : access[u] # None} \union {None} :
       Become(h, IF up /\ Exists(s)
                 THEN [Idle EXCEPT !.phase = "revoke", !.family = sess[s].family, !.token = t]
                 ELSE [Idle EXCEPT !.phase = "denyJti", !.token = t])
  /\ UNCHANGED <<store, history, world, denyJti, access, password>>

\* logout: revokeSession's revokeFamily; an outage is swallowed.
LogoutRevoke(h) ==
  /\ req[h].phase = "revoke"
  /\ IF up THEN RevokeFamily(req[h].family, {}) ELSE UNCHANGED <<store, history>>
  /\ Become(h, [Idle EXCEPT !.phase = "denyJti", !.token = req[h].token])
  /\ UNCHANGED <<world, denyJti, access, password>>

\* logout and change-password: tokenMeta and denylistJti for what is left of
\* the presented token's life; an outage is swallowed.
DenyPresented(h) ==
  LET t == req[h].token IN
  /\ req[h].phase = "denyJti"
  /\ denyJti' = IF t # None /\ up /\ now < Expiry(t)
                THEN [denyJti EXCEPT ![t] = Expiry(t)]
                ELSE denyJti
  /\ End(h)
  /\ UNCHANGED <<store, history, world, access, password>>

\* POST /auth/change-password: the presented token is accepted.
ChangeAuthorized(h) ==
  /\ req[h].phase = "idle"
  /\ \E t \in Tokens :
       Accepted(t) /\ Become(h, [Idle EXCEPT !.phase = "change", !.token = t])
  /\ UNCHANGED <<store, history, world, denyJti, access, password>>

\* svc-core commits the new password, or refuses the old one.
ChangePassword(h) ==
  /\ req[h].phase = "change"
  /\ \/ /\ password < MaxChanges
        /\ password' = password + 1
        /\ Become(h, [req[h] EXCEPT !.phase = "list"])
     \/ End(h) /\ UNCHANGED password
  /\ UNCHANGED <<store, history, world, denyJti, access>>

\* revokeUser's SMEMBERS; an outage ends revokeUser.
ListFamilies(h) ==
  /\ req[h].phase = "list"
  /\ Become(h, IF up THEN [req[h] EXCEPT !.phase = "kill", !.todo = FamiliesNow]
                     ELSE [req[h] EXCEPT !.phase = "denyJti"])
  /\ UNCHANGED <<store, history, world, denyJti, access, password>>

\* revokeUser's loop, and its DEL of the index when nothing is left to do.
KillOne(h) ==
  /\ req[h].phase = "kill" /\ up
  /\ \E f \in req[h].todo :
       RevokeFamily(f, {}) /\ Become(h, [req[h] EXCEPT !.todo = @ \ {f}])
  /\ UNCHANGED <<world, denyJti, access, password>>

DropIndex(h) ==
  /\ req[h].phase = "kill" /\ up /\ req[h].todo = {}
  /\ usess' = Gone
  /\ Become(h, [req[h] EXCEPT !.phase = "denyJti"])
  /\ UNCHANGED <<sess, fam, denyFam, famrev, revokedAt, history, world,
                 denyJti, access, password>>

KillAborted(h) ==
  /\ req[h].phase = "kill" /\ ~ up
  /\ Become(h, [req[h] EXCEPT !.phase = "denyJti", !.todo = {}])
  /\ UNCHANGED <<store, history, world, denyJti, access, password>>
-----------------------------------------------------------------------------
(* Time, outages and what Redis loses (external).                           *)

Tick ==
  /\ now < MaxTime
  /\ now' = now + 1
  /\ UNCHANGED <<store, history, up, faults, denyJti, access, req, password>>

Outage ==
  /\ up /\ faults < MaxFaults
  /\ up' = FALSE /\ faults' = faults + 1
  /\ UNCHANGED <<store, history, now, denyJti, access, req, password>>

Recover ==
  /\ ~ up /\ up' = TRUE
  /\ UNCHANGED <<store, history, now, faults, denyJti, access, req, password>>

\* allkeys-lru evicts one key.
Evict ==
  \/ /\ "sid" \in Losses
     /\ \E s \in Sids : Exists(s) /\ sess' = [sess EXCEPT ![s] = None]
     /\ UNCHANGED <<fam, usess, denyFam, famrev, forgotten>>
  \/ /\ "fam" \in Losses
     /\ \E f \in Families : SidsOf(f) # {} /\ fam' = [fam EXCEPT ![f] = Gone]
     /\ UNCHANGED <<sess, usess, denyFam, famrev, forgotten>>
  \/ /\ "usess" \in Losses
     /\ FamiliesNow # {} /\ usess' = Gone
     /\ UNCHANGED <<sess, fam, denyFam, famrev, forgotten>>
  \/ /\ "famrev" \in Losses
     /\ \E f \in Families : Revoked(f) /\ famrev' = [famrev EXCEPT ![f] = 0]
     /\ UNCHANGED <<sess, fam, usess, denyFam, forgotten>>
  \/ /\ "deny" \in Losses
     /\ \E f \in Families :
          /\ FamDenied(f)
          /\ denyFam' = [denyFam EXCEPT ![f] = 0]
          /\ forgotten' = forgotten \union {f}
     /\ UNCHANGED <<sess, fam, usess, famrev>>

\* A restart without persistence starts from an empty store.
Restart ==
  /\ "restart" \in Losses
  /\ sess' = [s \in Sids |-> None]
  /\ fam' = [f \in Families |-> Gone]
  /\ usess' = Gone
  /\ denyFam' = [f \in Families |-> 0]
  /\ famrev' = [f \in Families |-> 0]
  /\ forgotten' = forgotten \union {f \in Families : FamDenied(f)}

Lose ==
  /\ up /\ faults < MaxFaults
  /\ faults' = faults + 1
  /\ \/ Evict /\ UNCHANGED denyJti
     \/ Restart /\ denyJti' = [t \in Tokens |-> 0]
  /\ UNCHANGED <<revokedAt, issued, lineage, now, up, access, req, password>>
-----------------------------------------------------------------------------
Handle(h) ==
  \/ LoginVerified(h) \/ LoginSession(h) \/ OauthSession(h) \/ MintAccess(h)
  \/ Refresh(h)
  \/ LogoutRead(h) \/ LogoutRevoke(h) \/ DenyPresented(h)
  \/ ChangeAuthorized(h) \/ ChangePassword(h)
  \/ ListFamilies(h) \/ KillOne(h) \/ DropIndex(h) \/ KillAborted(h)

Next == (\E h \in Handlers : Handle(h)) \/ Tick \/ Outage \/ Recover \/ Lose

Spec == Init /\ [][Next]_vars
-----------------------------------------------------------------------------
\* Concurrent refreshes never leave a family with two live successors
\* (session.ts:94-97): at most one sid of a family is unspent.
OneLiveSid ==
  \A s, t \in Sids :
    (/\ Exists(s) /\ Exists(t) /\ sess[s].family = sess[t].family
     /\ ~ sess[s].used /\ ~ sess[t].used) => s = t

\* A revoked family is never resurrected (session.ts:62-66, 78-80): whatever
\* sid of it Redis still holds, famrev outlives it.
RevokedStaysDead ==
  \A s \in Sids : (Exists(s) /\ revokedAt[sess[s].family] >= 0) => Revoked(sess[s].family)

\* Revoking a family kills every access token minted under it so far, for as
\* long as any of them could still be used (token.ts:78-82), unless Redis has
\* lost the marker.
RevokedTokensDie ==
  \A t \in Tokens, f \in Families :
    (/\ now < Expiry(t) /\ access[t].family = f
     /\ revokedAt[f] >= access[t].iat /\ f \notin forgotten) => FamDenied(f)

\* However often it is refreshed and replayed, a session stops at the absolute
\* cap from its login (session.ts:10, 145): a refresh that succeeds does so no
\* later than the cap, or within a replay's grace of it.
CapHolds ==
  [][\A h \in Handlers :
       (req[h].phase = "idle" /\ req'[h].phase = "mint")
         => now <= lineage[req'[h].family].born + AbsMax + Grace]_vars

\* A double refresh within the grace window never costs the session
\* (session.ts:23-26): a spent sid of a family nobody revoked still finds its
\* successor, as long as Redis loses nothing.
GraceHarmless ==
  faults = 0 =>
    \A s \in Sids :
      (/\ Exists(s) /\ sess[s].used /\ ~ Revoked(sess[s].family)
       /\ now - sess[s].usedAt <= Grace) => InGrace(s)

\* A sid that a refresh would still accept.
Usable(s) == Exists(s) /\ ~ sess[s].used /\ ~ Revoked(sess[s].family)

\* Force-logout finds every live session in the user's index, however often it
\* has been extended (session.ts:15, 158), until the first force-logout.
IndexComplete ==
  (faults = 0 /\ password = 0) =>
    \A s \in Sids : Usable(s) => sess[s].family \in FamiliesNow

\* A password change logs every session out (routes/auth.ts:155-158): when it
\* is through, and Redis has lost nothing, no live session proved an older
\* password at its login.
Changing == \E h \in Handlers : req[h].phase \in {"list", "kill"}
PasswordChangeLogsOut ==
  (~ Changing /\ faults = 0) =>
    \A s \in Sids : Usable(s) => lineage[sess[s].family].proved >= password
=============================================================================
