------------------------ MODULE RefreshSessionProofs ------------------------
(***************************************************************************)
(* Proofs about the refresh sessions, for any number of sids, families,     *)
(* tokens and concurrent requests and any durations.                        *)
(*                                                                          *)
(* Every step changes the session store in one of five ways (StoreStep):    *)
(* not at all, by createSession, by a revocation, by a rotation, or by      *)
(* forgetting keys.  What holds of the store is proved once for each.       *)
(***************************************************************************)
EXTENDS RefreshSession, TLAPS

Stored(s) == sess[s] # None

(* Ids in use are accounted for: a stored sid was issued, and whatever names *)
(* a family names one that a login began.                                    *)
Grounded ==
  /\ \A s \in Sids : Stored(s) => s \in issued /\ lineage[sess[s].family] # None
  /\ \A f \in Families : revokedAt[f] # -1 => lineage[f] # None
  /\ \A f \in usess.members : lineage[f] # None
GroundedRequests ==
  \A h \in Handlers :
    /\ \A f \in req[h].todo : lineage[f] # None
    /\ req[h].phase = "revoke" =>
         req[h].family \in Families /\ lineage[req[h].family] # None

(* OneLiveSid without the clock. *)
OneUnspent ==
  \A s, t \in Sids :
    (/\ Stored(s) /\ Stored(t) /\ sess[s].family = sess[t].family
     /\ ~ sess[s].used /\ ~ sess[t].used) => s = t

(* No sid outlives the durable marker of its revoked family. *)
Guarded ==
  \A s \in Sids : Stored(s) =>
    /\ sess[s].expire <= now + Sliding
    /\ revokedAt[sess[s].family] >= 0 => sess[s].expire <= famrev[sess[s].family]

(* The access-token marker of a revoked family lasts for one token life. *)
Marked ==
  \A f \in Families : (revokedAt[f] >= 0 /\ f \notin forgotten) =>
    \/ denyFam[f] >= revokedAt[f] + AccessTtl
    \/ now >= revokedAt[f] + AccessTtl

(* Every sid carries its family's birth and was spent before the cap. *)
Aged ==
  \A s \in Sids : Stored(s) =>
    /\ sess[s].born = lineage[sess[s].family].born
    /\ sess[s].used => sess[s].usedAt <= sess[s].born + AbsMax
-----------------------------------------------------------------------------
(* Types.                                                                   *)

LEMMA CreateTypes ==
  ASSUME TypeOK, NEW f \in Families, NEW s \in Sids, NEW p \in Nat, CreateSession(f, s, p)
  PROVE  StoreTypes'
<1> USE Durations DEF TypeOK, StoreTypes, ServiceTypes, CreateSession
<1>1. sess' \in [Sids -> Session \union {None}]
  BY DEF Session
<1>2. usess' \in [members : SUBSET Families, expire : Nat]
  BY DEF FamiliesNow
<1>3. lineage' \in [Families -> Lineage \union {None}]
  BY DEF Lineage
<1> QED BY <1>1, <1>2, <1>3

LEMMA RevokeTypes ==
  ASSUME TypeOK, NEW f \in Families, NEW also, RevokeFamily(f, also)
  PROVE  StoreTypes'
<1> USE Durations DEF TypeOK, StoreTypes, ServiceTypes, RevokeFamily
<1>1. sess' \in [Sids -> Session \union {None}]
  OBVIOUS
<1>2. fam' \in [Families -> [members : SUBSET Sids, expire : Nat]]
  BY DEF Gone
<1>3. usess' \in [members : SUBSET Families, expire : Nat]
  BY DEF FamiliesNow
<1> QED BY <1>1, <1>2, <1>3

LEMMA SessionUpdates ==
  ASSUME NEW r \in Session, NEW e \in Nat, NEW u \in Nat, NEW n \in Sids
  PROVE  /\ [r EXCEPT !.expire = e] \in Session
         /\ [r EXCEPT !.used = TRUE, !.usedAt = u, !.next = n, !.expire = e] \in Session
BY DEF Session

LEMMA SucceedTypes ==
  ASSUME TypeOK, NEW s \in Sids, NEW n \in Sids, Stored(s), Succeed(s, n)
  PROVE  StoreTypes'
<1>1. sess[s] \in Session /\ now \in Nat /\ now + Sliding \in Nat
  BY Durations DEF Stored, TypeOK, StoreTypes, ServiceTypes
<1>2. Spent(s, n) \in Session /\ Successor(s) \in Session
  BY <1>1, SessionUpdates DEF Spent, Successor
<1>3. sess' \in [Sids -> Session \union {None}]
  BY <1>2 DEF TypeOK, StoreTypes, Succeed
<1>4. fam' \in [Families -> [members : SUBSET Sids, expire : Nat]]
  BY <1>1 DEF TypeOK, StoreTypes, Succeed, Extend, SidsOf, Session
<1>5. usess' \in [members : SUBSET Families, expire : Nat]
  BY <1>1 DEF TypeOK, StoreTypes, Succeed, Extend, FamiliesNow
<1> QED BY <1>3, <1>4, <1>5 DEF TypeOK, StoreTypes, Succeed, Extend

LEMMA EvictTypes ==
  ASSUME TypeOK, Evict, UNCHANGED <<revokedAt, issued, lineage>>
  PROVE  StoreTypes'
<1> USE DEF TypeOK, StoreTypes, Gone
<1>1. CASE /\ \E s \in Sids : Exists(s) /\ sess' = [sess EXCEPT ![s] = None]
           /\ UNCHANGED <<fam, usess, denyFam, famrev, forgotten>>
  BY <1>1
<1>2. CASE /\ \E f \in Families : SidsOf(f) # {} /\ fam' = [fam EXCEPT ![f] = Gone]
           /\ UNCHANGED <<sess, usess, denyFam, famrev, forgotten>>
  BY <1>2
<1>3. CASE usess' = Gone /\ UNCHANGED <<sess, fam, denyFam, famrev, forgotten>>
  BY <1>3
<1>4. CASE /\ \E f \in Families : Revoked(f) /\ famrev' = [famrev EXCEPT ![f] = 0]
           /\ UNCHANGED <<sess, fam, usess, denyFam, forgotten>>
  BY <1>4
<1>5. CASE /\ \E f \in Families : /\ denyFam' = [denyFam EXCEPT ![f] = 0]
                                  /\ forgotten' = forgotten \union {f}
           /\ UNCHANGED <<sess, fam, usess, famrev>>
  BY <1>5
<1> QED BY <1>1, <1>2, <1>3, <1>4, <1>5 DEF Evict

LEMMA RestartTypes ==
  ASSUME TypeOK, Restart, UNCHANGED <<revokedAt, issued, lineage>>
  PROVE  StoreTypes'
BY DEF TypeOK, StoreTypes, Restart, Gone

\* The requests that handlers turn into.
LEMMA RequestRecords ==
  /\ Idle \in Request
  /\ \A p \in Phases, f \in Families \union {None} :
       [Idle EXCEPT !.phase = p, !.family = f] \in Request
  /\ \A p \in Phases, n \in Nat : [Idle EXCEPT !.phase = p, !.proved = n] \in Request
  /\ \A p \in Phases, t \in Tokens \union {None} :
       [Idle EXCEPT !.phase = p, !.token = t] \in Request
  /\ \A p \in Phases, f \in Families \union {None}, t \in Tokens \union {None} :
       [Idle EXCEPT !.phase = p, !.family = f, !.token = t] \in Request
  /\ \A r \in Request, p \in Phases : [r EXCEPT !.phase = p] \in Request
  /\ \A r \in Request, p \in Phases, F \in SUBSET Families :
       [r EXCEPT !.phase = p, !.todo = F] \in Request
  /\ \A r \in Request, F \in SUBSET Families : [r EXCEPT !.todo = F] \in Request
BY DEF Idle, Request, Phases

LEMMA BecomeTypes ==
  ASSUME req \in [Handlers -> Request], NEW h \in Handlers, NEW r \in Request, Become(h, r)
  PROVE  req' \in [Handlers -> Request]
BY DEF Become

LEMMA HandleTypes ==
  ASSUME TypeOK, NEW h \in Handlers, Handle(h)
  PROVE  TypeOK'
<1>1. req[h] \in Request /\ now \in Nat /\ req \in [Handlers -> Request]
  BY DEF TypeOK, ServiceTypes
<1>2. /\ req[h].proved \in Nat /\ req[h].family \in Families \union {None}
      /\ req[h].token \in Tokens \union {None} /\ req[h].todo \subseteq Families
  BY <1>1 DEF Request
<1>p. {"idle", "verified", "mint", "revoke", "denyJti", "change", "list", "kill"} \subseteq Phases
  BY DEF Phases
<1>s. ASSUME UNCHANGED <<store, history>> PROVE StoreTypes'
  BY <1>s DEF TypeOK, StoreTypes, store, history
<1>q. ASSUME NEW r \in Request, Become(h, r), StoreTypes',
             UNCHANGED <<world, denyJti, access, password>>
      PROVE  TypeOK'
  <2>1. req' \in [Handlers -> Request]
    BY <1>1, <1>q, BecomeTypes
  <2> QED BY <1>q, <2>1 DEF TypeOK, ServiceTypes, world
<1>3. CASE LoginVerified(h)
  <2>1. password \in Nat
    BY DEF TypeOK, ServiceTypes
  <2> QED BY <1>3, <2>1, <1>s, <1>q, <1>p, RequestRecords DEF LoginVerified
<1>4. CASE LoginSession(h)
  <2>1. ASSUME NEW f \in Families, NEW s \in Sids, CreateSession(f, s, req[h].proved), Mint(h, f)
        PROVE  TypeOK'
    BY <1>4, <1>2, <2>1, <1>q, <1>p, CreateTypes, RequestRecords DEF LoginSession, Mint
  <2>2. CASE Mint(h, None) /\ UNCHANGED <<store, history>>
    BY <1>4, <2>2, <1>s, <1>q, <1>p, RequestRecords DEF LoginSession, Mint
  <2> QED BY <1>4, <2>1, <2>2 DEF LoginSession
<1>5. CASE OauthSession(h)
  <2>1. PICK f \in Families, s \in Sids : CreateSession(f, s, MaxChanges)
    BY <1>5 DEF OauthSession
  <2>2. StoreTypes'
    BY <2>1, CreateTypes, BoundsAreNat
  <2> QED BY <1>5, <2>2 DEF OauthSession, TypeOK, ServiceTypes, world
<1>6. CASE MintAccess(h)
  <2>1. req' \in [Handlers -> Request]
    BY <1>1, <1>6, BecomeTypes, RequestRecords DEF MintAccess, End
  <2>2. access' \in [Tokens -> Access \union {None}]
    BY <1>1, <1>2, <1>6 DEF MintAccess, TypeOK, ServiceTypes, Access
  <2>3. StoreTypes'
    BY <1>6, <1>s DEF MintAccess
  <2> QED BY <1>6, <2>1, <2>2, <2>3 DEF MintAccess, TypeOK, ServiceTypes, world
<1>7. CASE Refresh(h)
  <2>1. PICK s \in issued : \/ RotateInvalid(h, s) \/ RotateRevoked(h, s)
                            \/ RotateReplay(h, s) \/ RotateUnused(h, s)
    BY <1>7 DEF Refresh
  <2>2. s \in Sids /\ UNCHANGED <<world, denyJti, access, password>>
    BY <1>7 DEF Refresh, TypeOK, StoreTypes
  <2>3. Exists(s) => Stored(s) /\ sess[s].family \in Families
    BY <2>2 DEF Exists, Stored, TypeOK, StoreTypes, Session
  <2>4. CASE RotateInvalid(h, s)
    BY <2>2, <2>4, <1>s, <1>q, RequestRecords DEF RotateInvalid, End
  <2>5. CASE RotateRevoked(h, s)
    <3>1. StoreTypes'
      BY <2>5 DEF RotateRevoked, TypeOK, StoreTypes, history
    <3> QED BY <2>2, <2>5, <3>1, <1>q, RequestRecords DEF RotateRevoked, End
  <2>6. CASE RotateReplay(h, s)
    <3>1. CASE Mint(h, sess[s].family) /\ UNCHANGED <<store, history>>
      BY <2>2, <2>3, <2>6, <3>1, <1>s, <1>q, <1>p, RequestRecords DEF RotateReplay, Mint
    <3>2. CASE RevokeFamily(sess[s].family, {s}) /\ End(h)
      BY <2>2, <2>3, <2>6, <3>2, <1>q, RevokeTypes, RequestRecords DEF RotateReplay, End
    <3> QED BY <2>6, <3>1, <3>2 DEF RotateReplay
  <2>7. CASE RotateUnused(h, s)
    <3>1. CASE RevokeFamily(sess[s].family, {s}) /\ End(h)
      BY <2>2, <2>3, <2>7, <3>1, <1>q, RevokeTypes, RequestRecords DEF RotateUnused, End
    <3>2. ASSUME NEW n \in Sids, Succeed(s, n), Mint(h, sess[s].family)
          PROVE  TypeOK'
      BY <2>2, <2>3, <2>7, <3>2, <1>q, <1>p, SucceedTypes, RequestRecords
         DEF RotateUnused, Mint
    <3> QED BY <2>7, <3>1, <3>2 DEF RotateUnused
  <2> QED BY <2>1, <2>4, <2>5, <2>6, <2>7
<1>8. CASE LogoutRead(h)
  <2>1. PICK s \in issued, t \in {u \in Tokens : access[u] # None} \union {None} :
          Become(h, IF up /\ Exists(s)
                    THEN [Idle EXCEPT !.phase = "revoke", !.family = sess[s].family, !.token = t]
                    ELSE [Idle EXCEPT !.phase = "denyJti", !.token = t])
    BY <1>8 DEF LogoutRead
  <2>2. t \in Tokens \union {None} /\ (Exists(s) => sess[s].family \in Families)
    BY DEF Exists, TypeOK, StoreTypes, Session
  <2>3. CASE up /\ Exists(s)
    <3>1. [Idle EXCEPT !.phase = "revoke", !.family = sess[s].family, !.token = t] \in Request
      BY <2>2, <2>3, <1>p, RequestRecords
    <3> QED BY <1>8, <2>1, <2>3, <3>1, <1>s, <1>q DEF LogoutRead
  <2>4. CASE ~ (up /\ Exists(s))
    <3>1. [Idle EXCEPT !.phase = "denyJti", !.token = t] \in Request
      BY <2>2, <1>p, RequestRecords
    <3> QED BY <1>8, <2>1, <2>4, <3>1, <1>s, <1>q DEF LogoutRead
  <2> QED BY <2>3, <2>4
<1>9. CASE LogoutRevoke(h)
  <2>1. [Idle EXCEPT !.phase = "denyJti", !.token = req[h].token] \in Request
    BY <1>2, <1>p, RequestRecords
  <2>2. req[h].family \in Families => (RevokeFamily(req[h].family, {}) => StoreTypes')
    BY RevokeTypes
  <2>3. RevokeFamily(req[h].family, {}) => StoreTypes'
    <3>1. SUFFICES ASSUME RevokeFamily(req[h].family, {}), req[h].family \notin Families
                   PROVE  StoreTypes'
      BY <2>2
    <3> QED BY <3>1, Durations
            DEF RevokeFamily, TypeOK, StoreTypes, ServiceTypes, FamiliesNow
  <2> QED BY <1>9, <2>1, <2>3, <1>s, <1>q DEF LogoutRevoke
<1>10. CASE DenyPresented(h)
  <2>1. denyJti' \in [Tokens -> Nat]
    <3>1. CASE denyJti' = denyJti
      BY <3>1 DEF TypeOK, ServiceTypes
    <3>2. CASE req[h].token # None /\ denyJti' = [denyJti EXCEPT ![req[h].token] = Expiry(req[h].token)]
      <4>1. Expiry(req[h].token) \in Nat
        BY <1>2, <3>2, Durations DEF Expiry, TypeOK, ServiceTypes, Access
      <4> QED BY <3>2, <4>1 DEF TypeOK, ServiceTypes
    <3> QED BY <1>10, <3>1, <3>2 DEF DenyPresented
  <2>2. req' \in [Handlers -> Request]
    BY <1>1, <1>10, BecomeTypes, RequestRecords DEF DenyPresented, End
  <2> QED BY <1>10, <2>1, <2>2, <1>s DEF DenyPresented, TypeOK, ServiceTypes, world
<1>11. CASE ChangeAuthorized(h)
  BY <1>11, <1>s, <1>q, <1>p, RequestRecords DEF ChangeAuthorized
<1>12. CASE ChangePassword(h)
  <2>1. req' \in [Handlers -> Request]
    BY <1>1, <1>12, <1>p, BecomeTypes, RequestRecords DEF ChangePassword, End
  <2>2. password' \in Nat
    BY <1>12 DEF ChangePassword, TypeOK, ServiceTypes
  <2> QED BY <1>12, <2>1, <2>2, <1>s DEF ChangePassword, TypeOK, ServiceTypes, world
<1>13. CASE ListFamilies(h)
  <2>1. FamiliesNow \subseteq Families
    BY DEF FamiliesNow, TypeOK, StoreTypes
  <2>2. /\ [req[h] EXCEPT !.phase = "kill", !.todo = FamiliesNow] \in Request
        /\ [req[h] EXCEPT !.phase = "denyJti"] \in Request
    BY <1>1, <2>1, <1>p, RequestRecords
  <2> QED BY <1>13, <2>2, <1>s, <1>q DEF ListFamilies
<1>14. CASE KillOne(h)
  <2>1. PICK f \in req[h].todo :
          RevokeFamily(f, {}) /\ Become(h, [req[h] EXCEPT !.todo = @ \ {f}])
    BY <1>14 DEF KillOne
  <2>2. f \in Families /\ req[h].todo \ {f} \in SUBSET Families
    BY <1>2
  <2>3. [req[h] EXCEPT !.todo = @ \ {f}] \in Request
    BY <1>1, <2>2, RequestRecords
  <2> QED BY <1>14, <2>1, <2>2, <2>3, <1>q, RevokeTypes DEF KillOne
<1>15. CASE DropIndex(h)
  <2>1. StoreTypes'
    BY <1>15 DEF DropIndex, TypeOK, StoreTypes, Gone, history
  <2>2. [req[h] EXCEPT !.phase = "denyJti"] \in Request
    BY <1>1, <1>p, RequestRecords
  <2> QED BY <1>15, <2>1, <2>2, <1>q DEF DropIndex
<1>16. CASE KillAborted(h)
  BY <1>1, <1>16, <1>s, <1>q, <1>p, RequestRecords DEF KillAborted
<1> QED BY <1>3, <1>4, <1>5, <1>6, <1>7, <1>8, <1>9, <1>10, <1>11, <1>12, <1>13,
           <1>14, <1>15, <1>16 DEF Handle

LEMMA TypeStep == TypeOK /\ [Next]_vars => TypeOK'
<1> SUFFICES ASSUME TypeOK, [Next]_vars PROVE TypeOK'
  OBVIOUS
<1>1. CASE \E h \in Handlers : Handle(h)
  BY <1>1, HandleTypes
<1>2. CASE Tick \/ Outage \/ Recover \/ UNCHANGED vars
  <2>1. StoreTypes'
    BY <1>2 DEF Tick, Outage, Recover, vars, TypeOK, StoreTypes, store, history
  <2>2. now' \in Nat /\ faults' \in Nat
    BY <1>2 DEF Tick, Outage, Recover, vars, TypeOK, ServiceTypes, world
  <2>3. up' \in BOOLEAN
    BY <1>2 DEF Tick, Outage, Recover, vars, TypeOK, ServiceTypes, world
  <2>4. UNCHANGED <<denyJti, access, req, password>>
    BY <1>2 DEF Tick, Outage, Recover, vars
  <2> QED BY <2>1, <2>2, <2>3, <2>4 DEF TypeOK, ServiceTypes
<1>3. CASE Lose
  <2>1. StoreTypes'
    BY <1>3, EvictTypes, RestartTypes DEF Lose
  <2>2. denyJti' \in [Tokens -> Nat]
    BY <1>3 DEF Lose, TypeOK, ServiceTypes
  <2> QED BY <1>3, <2>1, <2>2 DEF Lose, TypeOK, ServiceTypes
<1> QED BY <1>1, <1>2, <1>3 DEF Next

LEMMA TypeInit == Init => TypeOK
<1> SUFFICES ASSUME Init PROVE TypeOK
  OBVIOUS
<1>1. StoreTypes
  BY DEF Init, StoreTypes, Gone
<1>2. ServiceTypes
  BY RequestRecords DEF Init, ServiceTypes
<1> QED BY <1>1, <1>2 DEF TypeOK

\* The session store and the requests keep their types.
THEOREM TypeCorrect == Spec => []TypeOK
BY TypeInit, TypeStep, PTL DEF Spec
-----------------------------------------------------------------------------
(* The five ways a step changes the session store.                          *)

\* Keys disappear: sids, index entries and markers, but only sids of no
\* further use lose a marker that has not expired, unless it is noted.
Forget ==
  /\ \A s \in Sids : sess'[s] \in {sess[s], None}
  /\ usess'.members \subseteq usess.members
  /\ \A f \in Families : f \notin forgotten' =>
       f \notin forgotten /\ (denyFam'[f] = denyFam[f] \/ denyFam[f] <= now)
  /\ \/ famrev' = famrev
     \/ "famrev" \in Losses
     \/ \A s \in Sids : sess'[s] = None
  /\ UNCHANGED <<issued, lineage, revokedAt>>

\* What forgets keys when Redis does not: a refresh with a sid of a revoked
\* family, and the end of a force-logout.
Discard ==
  /\ \E s \in Sids : Stored(s) /\ Revoked(sess[s].family) /\ sess' = [sess EXCEPT ![s] = None]
  /\ UNCHANGED <<fam, usess, famrev, issued, lineage>>
Drop ==
  /\ \E h \in Handlers : req[h].phase = "kill"
  /\ UNCHANGED <<sess, fam, famrev, issued, lineage>>

Rotatable(s) ==
  Exists(s) /\ ~ Revoked(sess[s].family) /\ ~ sess[s].used /\ ~ TooOld(s)

StoreStep ==
  \/ UNCHANGED <<store, history>> /\ now' \in {now, now + 1}
  \/ /\ now' = now
     /\ \/ \E f \in Families, s \in Sids, p \in Nat : CreateSession(f, s, p)
        \/ \E f \in Families :
             /\ lineage[f] # None
             /\ \E also : /\ \A x \in also : sess[x].family = f
                         /\ RevokeFamily(f, also)
        \/ \E s \in Sids, n \in Sids : Rotatable(s) /\ Succeed(s, n)
        \/ Forget /\ (faults' = faults => Discard \/ Drop)

LEMMA HandleStoreStep ==
  ASSUME TypeOK, Grounded, GroundedRequests, NEW h \in Handlers, Handle(h)
  PROVE  StoreStep
<1>t. /\ req[h] \in Request /\ issued \subseteq Sids /\ usess.members \subseteq Families
      /\ \A s \in Sids : Exists(s) => sess[s].family \in Families
      /\ \A s \in Sids : Exists(s) => lineage[sess[s].family] # None
  BY DEF TypeOK, StoreTypes, ServiceTypes, Session, Exists, Grounded, Stored
<1>n. UNCHANGED world => now' = now
  BY DEF world
<1>1. CASE \/ LoginVerified(h) \/ MintAccess(h) \/ LogoutRead(h) \/ DenyPresented(h)
           \/ ChangeAuthorized(h) \/ ChangePassword(h) \/ ListFamilies(h) \/ KillAborted(h)
  BY <1>1, <1>n DEF LoginVerified, MintAccess, LogoutRead, DenyPresented, ChangeAuthorized,
                    ChangePassword, ListFamilies, KillAborted, StoreStep
<1>2. CASE LoginSession(h) \/ OauthSession(h)
  <2>1. req[h].proved \in Nat
    BY <1>t DEF Request
  <2> QED BY <1>2, <1>n, <2>1, BoundsAreNat DEF LoginSession, OauthSession, StoreStep
<1>3. CASE Refresh(h)
  <2>1. PICK s \in issued : \/ RotateInvalid(h, s) \/ RotateRevoked(h, s)
                            \/ RotateReplay(h, s) \/ RotateUnused(h, s)
    BY <1>3 DEF Refresh
  <2>2. s \in Sids /\ now' = now
    BY <1>3, <1>t, <1>n DEF Refresh
  <2>3. CASE RotateInvalid(h, s)
    BY <2>2, <2>3 DEF RotateInvalid, StoreStep
  <2>4. CASE RotateRevoked(h, s)
    <3>1. Forget
      BY <2>2, <2>4 DEF RotateRevoked, Forget, history, TypeOK, StoreTypes
    <3>2. Discard
      BY <2>2, <2>4 DEF RotateRevoked, Discard, history, Exists, Stored
    <3> QED BY <2>2, <3>1, <3>2 DEF StoreStep
  <2>5. CASE RotateReplay(h, s)
    BY <2>2, <2>5, <1>t DEF RotateReplay, StoreStep
  <2>6. CASE RotateUnused(h, s)
    BY <2>2, <2>6, <1>t DEF RotateUnused, StoreStep, Rotatable
  <2> QED BY <2>1, <2>3, <2>4, <2>5, <2>6
<1>4. CASE LogoutRevoke(h)
  <2>1. req[h].family \in Families /\ lineage[req[h].family] # None
    BY <1>4 DEF LogoutRevoke, GroundedRequests
  <2> QED BY <1>4, <1>n, <2>1 DEF LogoutRevoke, StoreStep
<1>5. CASE KillOne(h)
  <2>1. \A f \in req[h].todo : f \in Families /\ lineage[f] # None
    BY <1>t DEF GroundedRequests, Request
  <2> QED BY <1>5, <1>n, <2>1 DEF KillOne, StoreStep
<1>6. CASE DropIndex(h)
  <2>1. Forget
    BY <1>6, <1>t DEF DropIndex, Forget, Gone, history
  <2>2. Drop
    BY <1>6 DEF DropIndex, Drop, history
  <2> QED BY <1>6, <1>n, <2>1, <2>2 DEF DropIndex, StoreStep
<1> QED BY <1>1, <1>2, <1>3, <1>4, <1>5, <1>6 DEF Handle

LEMMA LoseStoreStep ==
  ASSUME TypeOK, Lose
  PROVE  StoreStep
<1>1. now' = now /\ UNCHANGED <<revokedAt, issued, lineage>> /\ faults' # faults
  BY DEF Lose, TypeOK, ServiceTypes
<1>2. CASE Evict
  <2> SUFFICES Forget
    BY <1>1 DEF StoreStep
  <2> USE <1>1 DEF Forget, TypeOK, StoreTypes, Gone
  <2>1. CASE /\ \E s \in Sids : Exists(s) /\ sess' = [sess EXCEPT ![s] = None]
             /\ UNCHANGED <<fam, usess, denyFam, famrev, forgotten>>
    BY <2>1
  <2>2. CASE /\ \E f \in Families : SidsOf(f) # {} /\ fam' = [fam EXCEPT ![f] = Gone]
             /\ UNCHANGED <<sess, usess, denyFam, famrev, forgotten>>
    BY <2>2
  <2>3. CASE usess' = Gone /\ UNCHANGED <<sess, fam, denyFam, famrev, forgotten>>
    BY <2>3
  <2>4. CASE /\ "famrev" \in Losses
             /\ UNCHANGED <<sess, fam, usess, denyFam, forgotten>>
    BY <2>4
  <2>5. CASE /\ \E f \in Families : /\ denyFam' = [denyFam EXCEPT ![f] = 0]
                                    /\ forgotten' = forgotten \union {f}
             /\ UNCHANGED <<sess, fam, usess, famrev>>
    BY <2>5
  <2> QED BY <1>2, <2>1, <2>2, <2>3, <2>4, <2>5 DEF Evict
<1>3. CASE Restart
  <2>1. \A s \in Sids : sess'[s] = None
    BY <1>3 DEF Restart
  <2>2. usess'.members = {}
    BY <1>3 DEF Restart, Gone
  <2>3. \A f \in Families : f \notin forgotten' => f \notin forgotten /\ denyFam[f] <= now
    BY <1>3 DEF Restart, FamDenied, TypeOK, StoreTypes, ServiceTypes
  <2> QED BY <1>1, <2>1, <2>2, <2>3 DEF StoreStep, Forget
<1> QED BY <1>2, <1>3 DEF Lose

LEMMA NextStoreStep ==
  ASSUME TypeOK, Grounded, GroundedRequests, [Next]_vars
  PROVE  StoreStep
<1>1. CASE Tick \/ Outage \/ Recover \/ UNCHANGED vars
  BY <1>1 DEF Tick, Outage, Recover, vars, world, StoreStep
<1> QED BY <1>1, HandleStoreStep, LoseStoreStep DEF Next
-----------------------------------------------------------------------------
(* What each of the five ways preserves.                                    *)

\* What a created session, a rotation and a revocation leave behind.
LEMMA CreateEffect ==
  ASSUME TypeOK, NEW f \in Families, NEW s \in Sids, NEW p \in Nat, CreateSession(f, s, p)
  PROVE  /\ sess'[s].family = f /\ sess'[s].born = now /\ ~ sess'[s].used
         /\ sess'[s].expire = now + Sliding
         /\ \A x \in Sids : x # s => sess'[x] = sess[x]
         /\ lineage[f] = None /\ lineage'[f].born = now /\ lineage'[f] # None
         /\ \A g \in Families : g # f => lineage'[g] = lineage[g]
         /\ s \notin issued /\ issued' = issued \union {s}
         /\ usess'.members \subseteq usess.members \union {f}
         /\ UNCHANGED <<denyFam, famrev, revokedAt, forgotten>>
<1> USE DEF TypeOK, StoreTypes, ServiceTypes, CreateSession, FreshFamily, FreshSid
<1>1. lineage'[f] = [born |-> now, proved |-> p] /\ lineage'[f] \in Lineage
  BY DEF Lineage
<1>2. lineage'[f] # None
  BY <1>1, NoneIsNoRecord
<1>3. usess'.members \subseteq usess.members \union {f}
  BY DEF FamiliesNow
<1> QED BY <1>1, <1>2, <1>3

LEMMA RevokeEffect ==
  ASSUME TypeOK, NEW f \in Families, NEW also, RevokeFamily(f, also)
  PROVE  /\ \A x \in Sids : sess'[x] \in {sess[x], None}
         /\ famrev'[f] = now + Sliding /\ denyFam'[f] = now + AccessTtl
         /\ revokedAt'[f] = now /\ forgotten' = forgotten \ {f}
         /\ \A g \in Families : g # f =>
              famrev'[g] = famrev[g] /\ denyFam'[g] = denyFam[g] /\ revokedAt'[g] = revokedAt[g]
         /\ usess'.members \subseteq usess.members
         /\ UNCHANGED <<issued, lineage>>
BY DEF TypeOK, StoreTypes, RevokeFamily, FamiliesNow

LEMMA SucceedEffect ==
  ASSUME TypeOK, Grounded, NEW s \in Sids, NEW n \in Sids, Rotatable(s), Succeed(s, n)
  PROVE  /\ Stored(s) /\ ~ Stored(n) /\ n # s /\ sess[s] \in Session
         /\ sess'[s] = Spent(s, n) /\ sess'[n] = Successor(s)
         /\ \A x \in Sids : x # s /\ x # n => sess'[x] = sess[x]
         /\ n \notin issued /\ issued' = issued \union {n}
         /\ usess'.members \subseteq usess.members
         /\ UNCHANGED <<denyFam, famrev, revokedAt, forgotten, lineage>>
<1>1. Stored(s) /\ sess[s] \in Session
  BY DEF Rotatable, Exists, Stored, TypeOK, StoreTypes
<1>2. n \notin issued /\ ~ Stored(n) /\ n # s
  BY <1>1 DEF Succeed, Extend, FreshSid, Grounded
<1>3. usess'.members \subseteq usess.members
  BY DEF Succeed, Extend, FamiliesNow, TypeOK, StoreTypes
<1> QED BY <1>1, <1>2, <1>3 DEF Succeed, Extend, TypeOK, StoreTypes

LEMMA SpentFields ==
  ASSUME NEW s \in Sids, NEW n \in Sids, sess[s] \in Session
  PROVE  /\ Spent(s, n).family = sess[s].family /\ Spent(s, n).born = sess[s].born
         /\ Spent(s, n).used /\ Spent(s, n).usedAt = now
         /\ Spent(s, n).expire = now + Sliding
         /\ Successor(s).family = sess[s].family /\ Successor(s).born = sess[s].born
         /\ Successor(s).used = sess[s].used /\ Successor(s).usedAt = sess[s].usedAt
         /\ Successor(s).expire = now + Sliding
BY DEF Spent, Successor, Session

LEMMA GroundedStep ==
  ASSUME TypeOK, Grounded, StoreStep
  PROVE  Grounded' /\ \A f \in Families : lineage[f] # None => lineage'[f] = lineage[f]
<1>1. CASE UNCHANGED <<store, history>>
  BY <1>1 DEF store, history, Grounded, Stored
<1>2. ASSUME NEW f \in Families, NEW s \in Sids, NEW p \in Nat, CreateSession(f, s, p)
      PROVE  Grounded' /\ \A g \in Families : lineage[g] # None => lineage'[g] = lineage[g]
  <2>1. ASSUME NEW x \in Sids, Stored(x)'
        PROVE  x \in issued' /\ lineage'[sess'[x].family] # None
    <3>1. CASE x = s
      BY <1>2, <3>1, CreateEffect
    <3>2. CASE x # s
      <4>1. sess[x].family \in Families /\ lineage[sess[x].family] # None /\ x \in issued
        BY <1>2, <2>1, <3>2, CreateEffect
           DEF Grounded, Stored, TypeOK, StoreTypes, Session
      <4> QED BY <1>2, <3>2, <4>1, CreateEffect
    <3> QED BY <3>1, <3>2
  <2>2. /\ lineage'[f] # None /\ lineage[f] = None /\ revokedAt' = revokedAt
        /\ \A g \in Families : g # f => lineage'[g] = lineage[g]
        /\ usess'.members \subseteq usess.members \union {f}
    BY <1>2, CreateEffect
  <2>3. \A g \in Families : lineage[g] # None => lineage'[g] = lineage[g]
    BY <2>2
  <2>4. \A g \in Families : revokedAt'[g] # -1 => lineage'[g] # None
    BY <2>2 DEF Grounded
  <2>5. \A g \in usess'.members : lineage'[g] # None
    BY <2>2, <2>3 DEF Grounded, TypeOK, StoreTypes
  <2> QED BY <2>1, <2>3, <2>4, <2>5 DEF Grounded, Stored
<1>3. ASSUME NEW f \in Families, lineage[f] # None, NEW also, RevokeFamily(f, also)
      PROVE  Grounded' /\ \A g \in Families : lineage[g] # None => lineage'[g] = lineage[g]
  BY <1>3, RevokeEffect DEF Grounded, Stored, TypeOK, StoreTypes
<1>4. ASSUME NEW s \in Sids, NEW n \in Sids, Rotatable(s), Succeed(s, n)
      PROVE  Grounded' /\ \A g \in Families : lineage[g] # None => lineage'[g] = lineage[g]
  <2>1. sess'[s].family = sess[s].family /\ sess'[n].family = sess[s].family
    BY <1>4, SucceedEffect, SpentFields
  <2> QED BY <1>4, <2>1, SucceedEffect DEF Grounded, Stored, TypeOK, StoreTypes
<1>5. CASE Forget
  BY <1>5 DEF Forget, Grounded, Stored, TypeOK, StoreTypes
<1> QED BY <1>1, <1>2, <1>3, <1>4, <1>5 DEF StoreStep

LEMMA OneUnspentStep ==
  ASSUME TypeOK, Grounded, OneUnspent, StoreStep
  PROVE  OneUnspent'
<1>1. CASE UNCHANGED <<store, history>>
  BY <1>1 DEF store, OneUnspent, Stored
<1>2. ASSUME NEW f \in Families, NEW s \in Sids, NEW p \in Nat, CreateSession(f, s, p)
      PROVE  OneUnspent'
  <2>1. \A x \in Sids : Stored(x) => sess[x].family # f
    BY <1>2, CreateEffect DEF Grounded
  <2>2. sess'[s].family = f /\ \A x \in Sids : x # s => sess'[x] = sess[x]
    BY <1>2, CreateEffect
  <2> QED BY <2>1, <2>2 DEF OneUnspent, Stored
<1>3. ASSUME NEW f \in Families, NEW also, RevokeFamily(f, also)
      PROVE  OneUnspent'
  BY <1>3, RevokeEffect DEF OneUnspent, Stored
<1>4. ASSUME NEW s \in Sids, NEW n \in Sids, Rotatable(s), Succeed(s, n)
      PROVE  OneUnspent'
  <2>1. sess'[s].used /\ sess'[n].family = sess[s].family /\ ~ sess[s].used
    BY <1>4, SucceedEffect, SpentFields DEF Rotatable
  <2> QED BY <1>4, <2>1, SucceedEffect DEF OneUnspent, Stored
<1>5. CASE Forget
  BY <1>5 DEF Forget, OneUnspent, Stored
<1> QED BY <1>1, <1>2, <1>3, <1>4, <1>5 DEF StoreStep

LEMMA GuardedStep ==
  ASSUME TypeOK, Grounded, Guarded, StoreStep, "famrev" \notin Losses
  PROVE  Guarded'
<1>t. /\ now \in Nat /\ Sliding \in Nat /\ now + Sliding \in Nat
      /\ \A s \in Sids : Stored(s) =>
           sess[s].expire \in Nat /\ sess[s].family \in Families
      /\ \A f \in Families : famrev[f] \in Nat /\ revokedAt[f] \in Nat \union {-1}
  BY Durations DEF TypeOK, StoreTypes, ServiceTypes, Stored, Session
<1>1. CASE UNCHANGED <<store, history>> /\ now' \in {now, now + 1}
  BY <1>1, <1>t DEF store, Guarded, Stored
<1>2. ASSUME now' = now, NEW f \in Families, NEW s \in Sids, NEW p \in Nat,
             CreateSession(f, s, p)
      PROVE  Guarded'
  <2>1. /\ sess'[s].family = f /\ sess'[s].expire = now + Sliding
        /\ \A x \in Sids : x # s => sess'[x] = sess[x]
        /\ UNCHANGED <<famrev, revokedAt>> /\ lineage[f] = None
    BY <1>2, CreateEffect
  <2>2. revokedAt[f] = -1
    BY <2>1 DEF Grounded
  <2> QED BY <1>2, <1>t, <2>1, <2>2 DEF Guarded, Stored
<1>3. ASSUME now' = now, NEW f \in Families, NEW also, RevokeFamily(f, also)
      PROVE  Guarded'
  <2>1. /\ \A x \in Sids : sess'[x] \in {sess[x], None}
        /\ famrev'[f] = now + Sliding
        /\ \A g \in Families : g # f => famrev'[g] = famrev[g] /\ revokedAt'[g] = revokedAt[g]
    BY <1>3, RevokeEffect
  <2> QED BY <1>3, <1>t, <2>1 DEF Guarded, Stored
<1>4. ASSUME now' = now, NEW s \in Sids, NEW n \in Sids, Rotatable(s), Succeed(s, n)
      PROVE  Guarded'
  <2>1. /\ Stored(s) /\ sess'[s].family = sess[s].family /\ sess'[n].family = sess[s].family
        /\ sess'[s].expire = now + Sliding /\ sess'[n].expire = now + Sliding
        /\ \A x \in Sids : x # s /\ x # n => sess'[x] = sess[x]
        /\ UNCHANGED <<famrev, revokedAt>>
    BY <1>4, SucceedEffect, SpentFields
  <2>2. ~ (revokedAt[sess[s].family] >= 0)
    BY <1>4, <1>t, <2>1 DEF Guarded, Rotatable, Exists, Revoked
  <2> QED BY <1>4, <1>t, <2>1, <2>2 DEF Guarded, Stored
<1>5. CASE Forget /\ now' = now
  BY <1>5, <1>t DEF Forget, Guarded, Stored
<1> QED BY <1>1, <1>2, <1>3, <1>4, <1>5 DEF StoreStep

LEMMA MarkedStep ==
  ASSUME TypeOK, Grounded, Marked, StoreStep
  PROVE  Marked'
<1>t. /\ now \in Nat /\ AccessTtl \in Nat
      /\ \A f \in Families : denyFam[f] \in Nat /\ revokedAt[f] \in Nat \union {-1}
  BY Durations DEF TypeOK, StoreTypes, ServiceTypes
<1>1. CASE UNCHANGED <<store, history>> /\ now' \in {now, now + 1}
  BY <1>1, <1>t DEF store, history, Marked
<1>2. ASSUME now' = now, NEW f \in Families, NEW s \in Sids, NEW p \in Nat,
             CreateSession(f, s, p)
      PROVE  Marked'
  <2>1. UNCHANGED <<denyFam, revokedAt, forgotten>>
    BY <1>2, CreateEffect
  <2> QED BY <1>2, <2>1 DEF Marked
<1>3. ASSUME now' = now, NEW f \in Families, NEW also, RevokeFamily(f, also)
      PROVE  Marked'
  <2>1. /\ denyFam'[f] = now + AccessTtl /\ revokedAt'[f] = now /\ forgotten' = forgotten \ {f}
        /\ \A g \in Families : g # f => denyFam'[g] = denyFam[g] /\ revokedAt'[g] = revokedAt[g]
    BY <1>3, RevokeEffect
  <2> QED BY <1>3, <1>t, <2>1 DEF Marked
<1>4. ASSUME now' = now, NEW s \in Sids, NEW n \in Sids, Rotatable(s), Succeed(s, n)
      PROVE  Marked'
  <2>1. UNCHANGED <<denyFam, revokedAt, forgotten>>
    BY <1>4, SucceedEffect
  <2> QED BY <1>4, <2>1 DEF Marked
<1>5. CASE Forget /\ now' = now
  BY <1>5, <1>t DEF Forget, Marked
<1> QED BY <1>1, <1>2, <1>3, <1>4, <1>5 DEF StoreStep

LEMMA AgedStep ==
  ASSUME TypeOK, Grounded, Aged, StoreStep
  PROVE  Aged'
<1>t. /\ now \in Nat /\ AbsMax \in Nat
      /\ \A s \in Sids : Stored(s) =>
           sess[s].family \in Families /\ lineage[sess[s].family] # None
  BY Durations DEF TypeOK, StoreTypes, ServiceTypes, Stored, Session, Grounded
<1>g. \A f \in Families : lineage[f] # None => lineage'[f] = lineage[f]
  BY GroundedStep
<1>1. CASE UNCHANGED <<store, history>>
  BY <1>1 DEF store, history, Aged, Stored
<1>2. ASSUME NEW f \in Families, NEW s \in Sids, NEW p \in Nat, CreateSession(f, s, p)
      PROVE  Aged'
  <2>1. /\ sess'[s].family = f /\ sess'[s].born = now /\ ~ sess'[s].used
        /\ lineage'[f].born = now
        /\ \A x \in Sids : x # s => sess'[x] = sess[x]
    BY <1>2, CreateEffect
  <2> QED BY <1>t, <1>g, <2>1 DEF Aged, Stored
<1>3. ASSUME NEW f \in Families, NEW also, RevokeFamily(f, also)
      PROVE  Aged'
  <2>1. (\A x \in Sids : sess'[x] \in {sess[x], None}) /\ UNCHANGED lineage
    BY <1>3, RevokeEffect
  <2> QED BY <2>1 DEF Aged, Stored
<1>4. ASSUME NEW s \in Sids, NEW n \in Sids, Rotatable(s), Succeed(s, n)
      PROVE  Aged'
  <2>1. /\ Stored(s) /\ sess[s] \in Session
        /\ sess'[s] = Spent(s, n) /\ sess'[n] = Successor(s)
        /\ \A x \in Sids : x # s /\ x # n => sess'[x] = sess[x]
        /\ UNCHANGED lineage
    BY <1>4, SucceedEffect
  <2>2. /\ sess'[s].family = sess[s].family /\ sess'[n].family = sess[s].family
        /\ sess'[s].born = sess[s].born /\ sess'[n].born = sess[s].born
        /\ sess'[s].usedAt = now /\ ~ sess'[n].used
    BY <1>4, <2>1, SpentFields DEF Rotatable
  <2>3. now <= sess[s].born + AbsMax
    BY <1>4, <1>t, <2>1 DEF Rotatable, TooOld, Session
  <2> QED BY <2>1, <2>2, <2>3 DEF Aged, Stored
<1>5. CASE Forget
  BY <1>5 DEF Forget, Aged, Stored
<1> QED BY <1>1, <1>2, <1>3, <1>4, <1>5 DEF StoreStep
-----------------------------------------------------------------------------
(* The requests keep naming families that began.                            *)

\* A family a request would name after becoming r has begun.
Begun(r) ==
  /\ \A f \in r.todo : lineage'[f] # None
  /\ r.phase = "revoke" => r.family \in Families /\ lineage'[r.family] # None

LEMMA BegunRequests ==
  ASSUME TypeOK, GroundedRequests, Grounded, StoreStep,
         NEW h \in Handlers, NEW r, Become(h, r), Begun(r)
  PROVE  GroundedRequests'
<1>1. \A f \in Families : lineage[f] # None => lineage'[f] = lineage[f]
  BY GroundedStep
<1>2. \A g \in Handlers : req[g].todo \subseteq Families
  BY DEF TypeOK, ServiceTypes, Request
<1>3. req'[h] = r /\ \A g \in Handlers : g # h => req'[g] = req[g]
  BY DEF Become, TypeOK, ServiceTypes
<1> QED BY <1>1, <1>2, <1>3 DEF GroundedRequests, Begun

LEMMA RequestFields ==
  /\ Idle.phase = "idle" /\ Idle.todo = {}
  /\ \A f : /\ [Idle EXCEPT !.phase = "mint", !.family = f].todo = {}
            /\ [Idle EXCEPT !.phase = "mint", !.family = f].phase # "revoke"
  /\ \A n : /\ [Idle EXCEPT !.phase = "verified", !.proved = n].todo = {}
            /\ [Idle EXCEPT !.phase = "verified", !.proved = n].phase # "revoke"
  /\ \A f, t : /\ [Idle EXCEPT !.phase = "revoke", !.family = f, !.token = t].todo = {}
               /\ [Idle EXCEPT !.phase = "revoke", !.family = f, !.token = t].family = f
  /\ \A t : /\ [Idle EXCEPT !.phase = "denyJti", !.token = t].todo = {}
            /\ [Idle EXCEPT !.phase = "denyJti", !.token = t].phase # "revoke"
  /\ \A t : /\ [Idle EXCEPT !.phase = "change", !.token = t].todo = {}
            /\ [Idle EXCEPT !.phase = "change", !.token = t].phase # "revoke"
BY DEF Idle

LEMMA RequestMoves ==
  ASSUME NEW r \in Request, NEW p, p # "revoke", NEW F
  PROVE  /\ [r EXCEPT !.phase = p].phase # "revoke"
         /\ [r EXCEPT !.phase = p].todo = r.todo
         /\ [r EXCEPT !.phase = p, !.todo = F].phase # "revoke"
         /\ [r EXCEPT !.phase = p, !.todo = F].todo = F
         /\ [r EXCEPT !.todo = F].phase = r.phase
         /\ [r EXCEPT !.todo = F].todo = F
BY DEF Request

LEMMA GroundedRequestsStep ==
  ASSUME TypeOK, Grounded, GroundedRequests, [Next]_vars
  PROVE  GroundedRequests'
<1>s. StoreStep
  BY NextStoreStep
<1>m. \A f \in Families : lineage[f] # None => lineage'[f] = lineage[f]
  BY <1>s, GroundedStep
<1>t. /\ issued \subseteq Sids /\ usess.members \subseteq Families
      /\ \A s \in Sids : Exists(s) => sess[s].family \in Families
      /\ \A s \in Sids : Exists(s) => lineage[sess[s].family] # None
  BY DEF TypeOK, StoreTypes, Session, Exists, Grounded, Stored
<1>1. CASE UNCHANGED req
  BY <1>1, <1>m DEF GroundedRequests, TypeOK, ServiceTypes, Request
<1>2. ASSUME NEW h \in Handlers, Handle(h)
      PROVE  GroundedRequests'
  <2>1. /\ req[h] \in Request /\ req[h].todo \subseteq Families
        /\ \A f \in req[h].todo : lineage'[f] # None
    BY <1>m DEF TypeOK, ServiceTypes, Request, GroundedRequests
  <2>q. ASSUME NEW r, Become(h, r), r.todo = {}, r.phase # "revoke"
        PROVE  GroundedRequests'
    BY <1>s, <2>q, BegunRequests DEF Begun
  <2>e. End(h) => GroundedRequests'
    BY <2>q, RequestFields DEF End
  <2>f. ASSUME NEW f, Mint(h, f) PROVE GroundedRequests'
    BY <2>q, <2>f, RequestFields, Zenon DEF Mint
  <2>d. ASSUME NEW t, Become(h, [Idle EXCEPT !.phase = "denyJti", !.token = t])
        PROVE  GroundedRequests'
    BY <2>q, <2>d, RequestFields, Zenon
  <2>k. ASSUME NEW r, Become(h, r), r.todo \subseteq req[h].todo \union FamiliesNow,
               r.phase # "revoke"
        PROVE  GroundedRequests'
    <3>1. \A f \in FamiliesNow : f \in Families /\ lineage'[f] # None
      BY <1>t, <1>m DEF FamiliesNow, Grounded
    <3> QED BY <1>s, <2>1, <2>k, <3>1, BegunRequests DEF Begun
  <2>m. ASSUME NEW p, p # "revoke", Become(h, [req[h] EXCEPT !.phase = p])
        PROVE  GroundedRequests'
    <3>1. /\ [req[h] EXCEPT !.phase = p].phase # "revoke"
          /\ [req[h] EXCEPT !.phase = p].todo = req[h].todo
      BY <2>1, <2>m, RequestMoves
    <3> QED BY <2>k, <2>m, <3>1
  <2>2. CASE LoginVerified(h)
    BY <2>2, <2>q, RequestFields, Zenon DEF LoginVerified
  <2>3. CASE LoginSession(h) \/ MintAccess(h)
    BY <2>3, <2>e, <2>f DEF LoginSession, MintAccess
  <2>4. CASE OauthSession(h)
    BY <2>4, <1>1 DEF OauthSession
  <2>5. CASE Refresh(h)
    BY <2>5, <2>e, <2>f DEF Refresh, RotateInvalid, RotateRevoked, RotateReplay, RotateUnused
  <2>6. CASE LogoutRead(h)
    <3>1. PICK s \in issued, t \in {u \in Tokens : access[u] # None} \union {None} :
            Become(h, IF up /\ Exists(s)
                      THEN [Idle EXCEPT !.phase = "revoke", !.family = sess[s].family, !.token = t]
                      ELSE [Idle EXCEPT !.phase = "denyJti", !.token = t])
      BY <2>6 DEF LogoutRead
    <3>2. CASE up /\ Exists(s)
      <4>1. sess[s].family \in Families /\ lineage'[sess[s].family] # None
        BY <1>t, <1>m, <3>2
      <4>2. Begun([Idle EXCEPT !.phase = "revoke", !.family = sess[s].family, !.token = t])
        BY <4>1, RequestFields DEF Begun
      <4> QED BY <1>s, <3>1, <3>2, <4>2, BegunRequests
    <3> QED BY <2>d, <3>1, <3>2
  <2>7. CASE LogoutRevoke(h)
    BY <2>7, <2>d DEF LogoutRevoke
  <2>8. CASE DenyPresented(h)
    BY <2>8, <2>e DEF DenyPresented
  <2>9. CASE ChangeAuthorized(h)
    BY <2>9, <2>q, RequestFields, Zenon DEF ChangeAuthorized
  <2>10. CASE ChangePassword(h)
    BY <2>10, <2>e, <2>m DEF ChangePassword
  <2>11. CASE ListFamilies(h)
    <3>1. CASE Become(h, [req[h] EXCEPT !.phase = "kill", !.todo = FamiliesNow])
      <4>1. /\ [req[h] EXCEPT !.phase = "kill", !.todo = FamiliesNow].phase # "revoke"
            /\ [req[h] EXCEPT !.phase = "kill", !.todo = FamiliesNow].todo = FamiliesNow
        BY <2>1, RequestMoves
      <4> QED BY <2>k, <3>1, <4>1, Zenon
    <3>2. CASE Become(h, [req[h] EXCEPT !.phase = "denyJti"])
      BY <2>m, <3>2
    <3> QED BY <2>11, <3>1, <3>2 DEF ListFamilies
  <2>12. CASE KillOne(h)
    <3>1. PICK f \in req[h].todo : Become(h, [req[h] EXCEPT !.todo = @ \ {f}])
      BY <2>12 DEF KillOne
    <3>2. /\ [req[h] EXCEPT !.todo = @ \ {f}].phase = "kill"
          /\ [req[h] EXCEPT !.todo = @ \ {f}].todo = req[h].todo \ {f}
      BY <2>1, <2>12 DEF KillOne, Request
    <3> QED BY <2>k, <3>1, <3>2
  <2>13. CASE DropIndex(h)
    BY <2>13, <2>m DEF DropIndex
  <2>14. CASE KillAborted(h)
    <3>1. /\ [req[h] EXCEPT !.phase = "denyJti", !.todo = {}].phase # "revoke"
          /\ [req[h] EXCEPT !.phase = "denyJti", !.todo = {}].todo = {}
      BY <2>1, RequestMoves
    <3>2. Become(h, [req[h] EXCEPT !.phase = "denyJti", !.todo = {}])
      BY <2>14 DEF KillAborted
    <3> QED BY <2>q, <3>1, <3>2, Zenon
  <2> QED BY <1>2, <2>2, <2>3, <2>4, <2>5, <2>6, <2>7, <2>8, <2>9, <2>10, <2>11, <2>12,
             <2>13, <2>14 DEF Handle
<1>3. CASE Tick \/ Outage \/ Recover \/ Lose \/ UNCHANGED vars
  BY <1>1, <1>3 DEF Tick, Outage, Recover, Lose, vars
<1> QED BY <1>2, <1>3 DEF Next
-----------------------------------------------------------------------------
(* The inductive invariant and what follows from it.                        *)

\* Inductive: OneLiveSid, RevokedTokensDie and CapHolds follow from it.
SessionInvariant ==
  TypeOK /\ Grounded /\ GroundedRequests /\ OneUnspent /\ Marked /\ Aged

LEMMA SessionInit == Init => SessionInvariant /\ Guarded
<1> SUFFICES ASSUME Init PROVE SessionInvariant /\ Guarded
  OBVIOUS
<1>1. TypeOK
  BY TypeInit
<1>2. \A s \in Sids : ~ Stored(s)
  BY DEF Init, Stored
<1>3. /\ usess.members = {} /\ \A f \in Families : revokedAt[f] = -1
      /\ \A h \in Handlers : req[h].todo = {} /\ req[h].phase = "idle"
  BY DEF Init, Gone, Idle
<1> QED BY <1>1, <1>2, <1>3
        DEF SessionInvariant, Grounded, GroundedRequests, OneUnspent, Marked, Aged, Guarded

LEMMA SessionStep == SessionInvariant /\ [Next]_vars => SessionInvariant'
<1> SUFFICES ASSUME SessionInvariant, [Next]_vars PROVE SessionInvariant'
  OBVIOUS
<1>1. TypeOK /\ Grounded /\ GroundedRequests /\ OneUnspent /\ Marked /\ Aged
  BY DEF SessionInvariant
<1>2. StoreStep
  BY <1>1, NextStoreStep
<1> QED BY <1>1, <1>2, TypeStep, GroundedStep, GroundedRequestsStep, OneUnspentStep,
           MarkedStep, AgedStep DEF SessionInvariant

LEMMA SessionInvariantHolds == Spec => []SessionInvariant
BY SessionInit, SessionStep, PTL DEF Spec

\* However requests interleave, and whatever Redis loses, no family has two
\* sids that could still be rotated: a double refresh has one successor.
THEOREM OneSuccessor == Spec => []OneLiveSid
<1>1. SessionInvariant => OneLiveSid
  BY DEF SessionInvariant, OneUnspent, OneLiveSid, Exists, Stored
<1> QED BY <1>1, SessionInvariantHolds, PTL

\* Once a family is revoked its access tokens are refused until they expire,
\* unless Redis loses the marker.
THEOREM RevocationReachesTokens == Spec => []RevokedTokensDie
<1>1. ASSUME SessionInvariant PROVE RevokedTokensDie
  <2>1. SUFFICES ASSUME NEW t \in Tokens, NEW f \in Families,
                        now < Expiry(t), access[t].family = f,
                        revokedAt[f] >= access[t].iat, f \notin forgotten
                 PROVE  FamDenied(f)
    BY DEF RevokedTokensDie
  <2>2. /\ now \in Nat /\ AccessTtl \in Nat /\ revokedAt[f] \in Nat \union {-1}
        /\ denyFam[f] \in Nat /\ access[t] \in Access \union {None}
    BY <1>1, Durations DEF SessionInvariant, TypeOK, StoreTypes, ServiceTypes
  <2>3. access[t].iat \in Nat /\ now < access[t].iat + AccessTtl
    BY <2>1, <2>2 DEF Expiry, Access
  <2>4. revokedAt[f] >= 0 /\ now < revokedAt[f] + AccessTtl
    BY <2>1, <2>2, <2>3
  <2> QED BY <1>1, <2>1, <2>2, <2>4 DEF SessionInvariant, Marked, FamDenied
<1> QED BY <1>1, SessionInvariantHolds, PTL

\* As long as Redis does not lose the durable marker, no sid of a revoked
\* family can be rotated again, for all the time that sid exists.
THEOREM NoResurrection ==
  ASSUME "famrev" \notin Losses
  PROVE  Spec => []RevokedStaysDead
<1>1. SessionInvariant /\ Guarded /\ [Next]_vars => Guarded'
  <2> SUFFICES ASSUME SessionInvariant, Guarded, [Next]_vars PROVE Guarded'
    OBVIOUS
  <2>1. TypeOK /\ Grounded /\ GroundedRequests
    BY DEF SessionInvariant
  <2> QED BY <2>1, NextStoreStep, GuardedStep
<1>2. SessionInvariant /\ Guarded => RevokedStaysDead
  <2> SUFFICES ASSUME SessionInvariant, Guarded, NEW s \in Sids, Exists(s),
                      revokedAt[sess[s].family] >= 0
               PROVE  Revoked(sess[s].family)
    BY DEF RevokedStaysDead
  <2>1. /\ Stored(s) /\ now \in Nat /\ sess[s].expire \in Nat /\ now < sess[s].expire
        /\ famrev[sess[s].family] \in Nat
    BY DEF SessionInvariant, TypeOK, StoreTypes, ServiceTypes, Exists, Stored, Session
  <2> QED BY <2>1 DEF Guarded, Revoked
<1> QED BY <1>1, <1>2, SessionInit, SessionInvariantHolds, PTL DEF Spec

\* Only a refresh takes a request from idle to minting, for the family it
\* presents, and only in time.
LEMMA RefreshInTime ==
  ASSUME SessionInvariant, NEW h \in Handlers, Refresh(h), req'[h].phase = "mint"
  PROVE  now <= lineage[req'[h].family].born + AbsMax + Grace
<1>t. /\ TypeOK /\ Grounded /\ Aged /\ now \in Nat /\ AbsMax \in Nat /\ Grace \in Nat
      /\ issued \subseteq Sids /\ req \in [Handlers -> Request]
  BY Durations DEF SessionInvariant, TypeOK, StoreTypes, ServiceTypes
<1>1. PICK s \in issued : \/ RotateInvalid(h, s) \/ RotateRevoked(h, s)
                          \/ RotateReplay(h, s) \/ RotateUnused(h, s)
  BY DEF Refresh
<1>2. ~ End(h)
  <2> SUFFICES ASSUME End(h) PROVE FALSE
    OBVIOUS
  <2>1. req'[h] = Idle
    BY <1>t DEF End, Become
  <2> QED BY <2>1 DEF Idle
<1>3. Mint(h, sess[s].family) /\ Exists(s)
  BY <1>1, <1>2 DEF RotateInvalid, RotateRevoked, RotateReplay, RotateUnused
<1>4. req'[h].family = sess[s].family
  <2>1. req'[h] = [Idle EXCEPT !.phase = "mint", !.family = sess[s].family]
    BY <1>3, <1>t DEF Mint, Become
  <2> QED BY <2>1 DEF Idle
<1>5. /\ Stored(s) /\ sess[s].born \in Nat /\ sess[s].usedAt \in Nat
      /\ sess[s].born = lineage[sess[s].family].born
      /\ sess[s].used => sess[s].usedAt <= sess[s].born + AbsMax
  BY <1>t, <1>3 DEF Exists, Stored, TypeOK, StoreTypes, Session, Aged
<1>6. CASE sess[s].used
  <2>1. InGrace(s)
    BY <1>1, <1>2, <1>6 DEF RotateInvalid, RotateRevoked, RotateReplay, RotateUnused
  <2>2. now - sess[s].usedAt <= Grace
    BY <2>1 DEF InGrace
  <2> QED BY <1>t, <1>4, <1>5, <1>6, <2>2
<1>7. CASE ~ sess[s].used
  <2>1. ~ TooOld(s)
    BY <1>1, <1>2, <1>7 DEF RotateInvalid, RotateRevoked, RotateReplay, RotateUnused
  <2> QED BY <1>t, <1>4, <1>5, <2>1 DEF TooOld
<1> QED BY <1>6, <1>7

LEMMA OnlyRefreshMints ==
  ASSUME TypeOK, [Next]_vars, NEW h \in Handlers,
         req[h].phase = "idle", req'[h].phase = "mint"
  PROVE  Refresh(h)
<1>t. req \in [Handlers -> Request]
  BY DEF TypeOK, ServiceTypes
<1>b. ASSUME NEW g \in Handlers, NEW r, Become(g, r)
      PROVE  g = h /\ r.phase = "mint"
  BY <1>b, <1>t DEF Become
<1>u. req' # req
  BY <1>t
<1>1. PICK g \in Handlers : Handle(g)
  BY <1>u DEF Next, Tick, Outage, Recover, Lose, vars
<1>2. ~ LoginVerified(g)
  <2>1. [Idle EXCEPT !.phase = "verified", !.proved = password].phase = "verified"
    BY DEF Idle
  <2> QED BY <1>b, <2>1 DEF LoginVerified
<1>3. ~ LogoutRead(g)
  <2>1. \A f, t : [Idle EXCEPT !.phase = "revoke", !.family = f, !.token = t].phase = "revoke"
    BY DEF Idle
  <2>2. \A t : [Idle EXCEPT !.phase = "denyJti", !.token = t].phase = "denyJti"
    BY DEF Idle
  <2> SUFFICES ASSUME NEW s, NEW t,
                      Become(g, IF up /\ Exists(s)
                        THEN [Idle EXCEPT !.phase = "revoke", !.family = sess[s].family, !.token = t]
                        ELSE [Idle EXCEPT !.phase = "denyJti", !.token = t])
               PROVE  FALSE
    BY DEF LogoutRead
  <2>3. CASE up /\ Exists(s)
    BY <1>b, <2>1, <2>3
  <2>4. CASE ~ (up /\ Exists(s))
    BY <1>b, <2>2, <2>4
  <2> QED BY <2>3, <2>4
<1>4. ~ ChangeAuthorized(g)
  <2>1. \A t : [Idle EXCEPT !.phase = "change", !.token = t].phase = "change"
    BY DEF Idle
  <2> QED BY <1>b, <2>1, Zenon DEF ChangeAuthorized
<1>5. ~ OauthSession(g)
  BY <1>u DEF OauthSession
<1>6. ASSUME \/ LoginSession(g) \/ MintAccess(g) \/ LogoutRevoke(g) \/ DenyPresented(g)
             \/ ChangePassword(g) \/ ListFamilies(g) \/ KillOne(g) \/ DropIndex(g)
             \/ KillAborted(g)
      PROVE  FALSE
  <2>1. req[g].phase # "idle"
    BY <1>6 DEF LoginSession, MintAccess, LogoutRevoke, DenyPresented, ChangePassword,
                ListFamilies, KillOne, DropIndex, KillAborted
  <2>2. \E r : Become(g, r)
    BY <1>6, Zenon DEF LoginSession, MintAccess, LogoutRevoke, DenyPresented, ChangePassword,
                ListFamilies, KillOne, DropIndex, KillAborted, Mint, End
  <2> QED BY <1>b, <2>1, <2>2
<1>7. Refresh(g)
  BY <1>1, <1>2, <1>3, <1>4, <1>5, <1>6 DEF Handle
<1>8. \E r : Become(g, r)
  BY <1>7, Zenon DEF Refresh, RotateInvalid, RotateRevoked, RotateReplay, RotateUnused, Mint, End
<1> QED BY <1>b, <1>7, <1>8

\* No chain of refreshes and replays carries a session past its absolute cap
\* and one grace window.
THEOREM CapEnforced == Spec => CapHolds
<1>1. SessionInvariant /\ [Next]_vars =>
        [\A h \in Handlers :
           (req[h].phase = "idle" /\ req'[h].phase = "mint")
             => now <= lineage[req'[h].family].born + AbsMax + Grace]_vars
  BY OnlyRefreshMints, RefreshInTime DEF SessionInvariant
<1> QED BY <1>1, SessionInvariantHolds, PTL DEF Spec, CapHolds
-----------------------------------------------------------------------------
(* What holds while Redis loses nothing.                                    *)

\* A family's set lists sids that were issued, and none of another family.
MembersOwn ==
  \A f \in Families : \A s \in fam[f].members :
    s \in issued /\ (Stored(s) => sess[s].family = f)

\* No sid outlives the marker of its revoked family; only families that began
\* are marked.
Outlived ==
  /\ \A s \in Sids : Stored(s) =>
       /\ sess[s].expire <= now + Sliding
       /\ famrev[sess[s].family] # 0 => sess[s].expire <= famrev[sess[s].family]
  /\ \A f \in Families : famrev[f] # 0 => lineage[f] # None

\* A spent sid's successor is there for as long as the spent one.
Followed ==
  \A s \in Sids : (Exists(s) /\ sess[s].used /\ famrev[sess[s].family] = 0) =>
    /\ sess[s].next \in Sids /\ Stored(sess[s].next)
    /\ sess[sess[s].next].family = sess[s].family
    /\ sess[sess[s].next].expire >= sess[s].expire

\* The user's index lists whoever could be rotated, and expires no sooner.
Indexed ==
  \A s \in Sids : (Exists(s) /\ ~ sess[s].used /\ famrev[sess[s].family] = 0) =>
    sess[s].family \in usess.members /\ sess[s].expire <= usess.expire

\* A force-logout follows a password change.
Counted == \A h \in Handlers : req[h].phase \in {"list", "kill"} => password > 0

Kept == MembersOwn /\ Outlived /\ Followed
Calm == Kept /\ (password = 0 => Indexed)

LEMMA StoreFacts ==
  ASSUME TypeOK
  PROVE  /\ now \in Nat /\ Sliding \in Nat /\ now + Sliding \in Nat /\ usess.expire \in Nat
         /\ \A s \in Sids : Stored(s) => /\ sess[s] \in Session /\ sess[s].expire \in Nat
                                       /\ sess[s].family \in Families
         /\ \A f \in Families : famrev[f] \in Nat
BY Durations DEF TypeOK, StoreTypes, ServiceTypes, Stored, Session

LEMMA CalmCreate ==
  ASSUME TypeOK, Grounded, Kept, now' = now,
         NEW f \in Families, NEW s \in Sids, NEW p \in Nat, CreateSession(f, s, p)
  PROVE  Kept' /\ (Indexed => Indexed')
<1>1. /\ sess'[s].family = f /\ ~ sess'[s].used /\ sess'[s].expire = now + Sliding
      /\ \A x \in Sids : x # s => sess'[x] = sess[x]
      /\ UNCHANGED famrev /\ s \notin issued /\ issued' = issued \union {s}
      /\ lineage[f] = None /\ lineage'[f] # None
      /\ \A g \in Families : g # f => lineage'[g] = lineage[g]
  BY CreateEffect
<1>2. /\ \A g \in Families : fam'[g].members = IF g = f THEN {s} ELSE fam[g].members
      /\ usess'.members = FamiliesNow \union {f} /\ usess'.expire = now + Sliding
  BY DEF CreateSession, TypeOK, StoreTypes
<1>3. famrev[f] = 0
  BY <1>1 DEF Kept, Outlived
<1>4. ~ Stored(s)
  BY <1>1 DEF Grounded
<1>5. MembersOwn'
  BY <1>1, <1>2 DEF Kept, MembersOwn, Stored, TypeOK, StoreTypes
<1>6. Outlived'
  BY <1>1, <1>3, StoreFacts DEF Kept, Outlived, Stored
<1>7. Followed'
  BY <1>1, <1>4 DEF Kept, Followed, Stored, Exists
<1>8. ASSUME Indexed PROVE Indexed'
  <2>1. ASSUME NEW x \in Sids, x # s, Exists(x), ~ sess[x].used, famrev[sess[x].family] = 0
        PROVE  sess[x].family \in FamiliesNow /\ sess[x].expire <= now + Sliding
    BY <1>8, <2>1, StoreFacts DEF Indexed, FamiliesNow, Exists, Stored, Kept, Outlived
  <2> QED BY <1>1, <1>2, <2>1, StoreFacts DEF Indexed, Exists
<1> QED BY <1>5, <1>6, <1>7, <1>8 DEF Kept

LEMMA CalmRevoke ==
  ASSUME TypeOK, Grounded, Kept, now' = now, NEW f \in Families, lineage[f] # None,
         NEW also, \A x \in also : sess[x].family = f, RevokeFamily(f, also)
  PROVE  Kept' /\ (Indexed => Indexed')
<1>1. /\ \A x \in Sids : sess'[x] \in {sess[x], None}
      /\ famrev'[f] = now + Sliding
      /\ \A g \in Families : g # f => famrev'[g] = famrev[g]
      /\ UNCHANGED <<issued, lineage>>
  BY RevokeEffect
<1>2. \A x \in Sids : Stored(x) /\ sess[x].family # f => sess'[x] = sess[x]
  BY DEF RevokeFamily, Kept, MembersOwn, SidsOf, TypeOK, StoreTypes
<1>3. /\ \A g \in Families : fam'[g].members \subseteq fam[g].members
      /\ usess'.members = FamiliesNow \ {f} /\ usess'.expire = usess.expire
  BY DEF RevokeFamily, Gone, TypeOK, StoreTypes
<1>4. MembersOwn'
  BY <1>1, <1>3 DEF Kept, MembersOwn, Stored, TypeOK, StoreTypes
<1>5. Outlived'
  BY <1>1, StoreFacts DEF Kept, Outlived, Stored
<1>6. Followed'
  <2> SUFFICES ASSUME NEW x \in Sids, Exists(x)', sess'[x].used, famrev'[sess'[x].family] = 0
               PROVE  LET n == sess'[x].next IN
                      /\ n \in Sids /\ sess'[n] # None /\ sess'[n].family = sess'[x].family
                      /\ sess'[n].expire >= sess'[x].expire
    BY DEF Followed, Stored
  <2>1. Exists(x) /\ sess'[x] = sess[x]
    BY <1>1 DEF Exists
  <2>2. sess[x].family # f
    BY <1>1, <2>1, StoreFacts DEF Exists, Stored, Kept, Outlived
  <2>3. sess[x].family \in Families /\ famrev[sess[x].family] = 0
    BY <1>1, <2>1, <2>2, StoreFacts DEF Exists, Stored
  <2>4. sess[x].next \in Sids /\ sess'[sess[x].next] = sess[sess[x].next]
    BY <1>2, <2>1, <2>2, <2>3 DEF Kept, Followed
  <2> QED BY <2>1, <2>3, <2>4 DEF Kept, Followed, Stored
<1>7. ASSUME Indexed PROVE Indexed'
  <2> SUFFICES ASSUME NEW x \in Sids, Exists(x)', ~ sess'[x].used, famrev'[sess'[x].family] = 0
               PROVE  sess'[x].family \in usess'.members /\ sess'[x].expire <= usess'.expire
    BY DEF Indexed
  <2>1. Exists(x) /\ sess'[x] = sess[x]
    BY <1>1 DEF Exists
  <2>2. sess[x].family # f
    BY <1>1, <2>1, StoreFacts DEF Exists, Stored, Kept, Outlived
  <2>3. sess[x].family \in Families /\ famrev[sess[x].family] = 0
    BY <1>1, <2>1, <2>2, StoreFacts DEF Exists, Stored
  <2>4. sess[x].family \in usess.members /\ sess[x].expire <= usess.expire
    BY <1>7, <2>1, <2>3 DEF Indexed
  <2>5. now < usess.expire
    BY <2>1, <2>4, StoreFacts DEF Exists, Stored
  <2> QED BY <1>3, <2>1, <2>2, <2>4, <2>5 DEF FamiliesNow
<1> QED BY <1>4, <1>5, <1>6, <1>7 DEF Kept

LEMMA CalmSucceed ==
  ASSUME TypeOK, Grounded, Kept, now' = now,
         NEW s \in Sids, NEW n \in Sids, Rotatable(s), Succeed(s, n)
  PROVE  Kept' /\ (Indexed => Indexed')
<1> DEFINE f == sess[s].family
<1>1. /\ Stored(s) /\ ~ Stored(n) /\ n # s /\ Exists(s) /\ ~ sess[s].used
      /\ \A x \in Sids : x # s /\ x # n => sess'[x] = sess[x]
      /\ n \notin issued /\ issued' = issued \union {n}
      /\ UNCHANGED <<famrev, lineage>> /\ f \in Families
  BY SucceedEffect, StoreFacts DEF Rotatable
<1>2. /\ sess'[s].family = f /\ sess'[s].used /\ sess'[s].next = n
      /\ sess'[s].expire = now + Sliding
      /\ sess'[n].family = f /\ ~ sess'[n].used /\ sess'[n].expire = now + Sliding
      /\ sess'[s] # None /\ sess'[n] # None
  <2>1. sess'[s] = Spent(s, n) /\ sess'[n] = Successor(s) /\ sess[s] \in Session
    BY SucceedEffect
  <2>2. Spent(s, n).next = n
    BY <2>1 DEF Spent, Session
  <2>3. Spent(s, n) \in Session /\ Successor(s) \in Session
    BY <2>1, SessionUpdates, StoreFacts DEF Spent, Successor
  <2> QED BY <1>1, <2>1, <2>2, <2>3, SpentFields, NoneIsNoRecord
<1>3. /\ \A g \in Families : fam'[g].members = IF g = f THEN SidsOf(f) \union {n}
                                                     ELSE fam[g].members
      /\ usess'.members = FamiliesNow /\ usess'.expire = now + Sliding
  BY <1>1 DEF Succeed, Extend, TypeOK, StoreTypes
<1>4. famrev[f] = 0
  BY <1>1, StoreFacts DEF Rotatable, Revoked, Exists, Kept, Outlived
<1> HIDE DEF f
<1>5. MembersOwn'
  <2>1. SidsOf(f) \subseteq fam[f].members
    BY DEF SidsOf
  <2>2. \A g \in Families : \A x \in fam[g].members : x \in Sids /\ x # n
    BY <1>1 DEF Kept, MembersOwn, TypeOK, StoreTypes
  <2>3. \A x \in Sids : Stored(x) /\ x # n => sess'[x].family = sess[x].family
    BY <1>1, <1>2 DEF f
  <2>4. sess[n] = None /\ \A x \in Sids : sess'[x] # None => sess[x] # None \/ x = n
    BY <1>1, <1>2 DEF Stored
  <2> QED BY <1>1, <1>2, <1>3, <2>1, <2>2, <2>3, <2>4 DEF Kept, MembersOwn, Stored
<1>6. Outlived'
  BY <1>1, <1>2, <1>4, StoreFacts DEF Kept, Outlived, Stored
<1>7. Followed'
  <2> SUFFICES ASSUME NEW x \in Sids, Exists(x)', sess'[x].used, famrev'[sess'[x].family] = 0
               PROVE  LET y == sess'[x].next IN
                      /\ y \in Sids /\ sess'[y] # None /\ sess'[y].family = sess'[x].family
                      /\ sess'[y].expire >= sess'[x].expire
    BY DEF Followed, Stored
  <2>1. CASE x = s
    BY <1>2, <2>1, StoreFacts DEF Stored
  <2>2. CASE x # s
    <3>1. x # n /\ sess'[x] = sess[x] /\ Exists(x)
      BY <1>1, <1>2, <2>2 DEF Exists
    <3>2. LET y == sess[x].next IN
          /\ y \in Sids /\ Stored(y) /\ sess[y].family = sess[x].family
          /\ sess[y].expire >= sess[x].expire
      BY <1>1, <3>1 DEF Kept, Followed
    <3>3. sess[x].next # n
      BY <1>1, <3>2
    <3>4. CASE sess[x].next = s
      <4>1. sess[s].expire \in Nat /\ sess[x].expire \in Nat /\ sess[s].expire <= now + Sliding
        BY <1>1, <3>1, StoreFacts DEF Exists, Stored, Kept, Outlived
      <4> QED BY <1>2, <3>1, <3>2, <3>4, <4>1, StoreFacts DEF f, Stored
    <3>5. CASE sess[x].next # s
      BY <1>1, <3>1, <3>2, <3>3, <3>5 DEF Stored
    <3> QED BY <3>4, <3>5
  <2> QED BY <2>1, <2>2
<1>8. ASSUME Indexed PROVE Indexed'
  <2>1. ASSUME NEW x \in Sids, Exists(x), ~ sess[x].used, famrev[sess[x].family] = 0
        PROVE  sess[x].family \in FamiliesNow /\ sess[x].expire <= now + Sliding
    BY <1>8, <2>1, StoreFacts DEF Indexed, FamiliesNow, Exists, Stored, Kept, Outlived
  <2>2. f \in FamiliesNow
    BY <1>1, <1>4, <2>1 DEF f
  <2> QED BY <1>1, <1>2, <1>3, <2>1, <2>2, StoreFacts DEF Indexed, Exists
<1> QED BY <1>5, <1>6, <1>7, <1>8 DEF Kept

LEMMA CalmForget ==
  ASSUME TypeOK, Grounded, Kept, Counted, now' = now, Discard \/ Drop
  PROVE  Kept' /\ (password = 0 /\ Indexed => Indexed')
<1>1. CASE Discard
  <2>1. PICK s \in Sids : Stored(s) /\ Revoked(sess[s].family) /\ sess' = [sess EXCEPT ![s] = None]
    BY <1>1 DEF Discard
  <2>2. /\ sess'[s] = None /\ \A x \in Sids : x # s => sess'[x] = sess[x]
        /\ UNCHANGED <<fam, usess, famrev, issued, lineage>>
        /\ famrev[sess[s].family] # 0
    BY <1>1, <2>1, StoreFacts DEF Discard, Revoked, TypeOK, StoreTypes
  <2>3. MembersOwn' /\ Outlived' /\ (Indexed => Indexed')
    BY <1>1, <2>2 DEF Kept, MembersOwn, Outlived, Indexed, Stored, Exists, TypeOK, StoreTypes
  <2>4. Followed'
    BY <1>1, <2>2 DEF Kept, Followed, Stored, Exists
  <2> QED BY <2>3, <2>4 DEF Kept
<1>2. CASE Drop
  <2>1. password # 0
    BY <1>2, StoreFacts DEF Drop, Counted, TypeOK, ServiceTypes
  <2> QED BY <1>2, <2>1 DEF Drop, Kept, MembersOwn, Outlived, Followed, Stored, Exists
<1> QED BY <1>1, <1>2

LEMMA CalmStep ==
  ASSUME TypeOK, Grounded, Calm, Counted, StoreStep, faults' = faults,
         password' = 0 => password = 0
  PROVE  Calm'
<1> SUFFICES Kept' /\ (password = 0 /\ Indexed => Indexed')
  BY DEF Calm
<1>k. Kept
  BY DEF Calm
<1>1. CASE UNCHANGED <<store, history>> /\ now' \in {now, now + 1}
  <2>1. UNCHANGED <<sess, fam, usess, famrev, issued, lineage>>
    BY <1>1 DEF store, history
  <2>2. \A x \in Sids : Exists(x)' => Exists(x)
    BY <1>1, <2>1, StoreFacts DEF Exists, Stored
  <2>3. MembersOwn' /\ Outlived'
    BY <1>1, <1>k, <2>1, StoreFacts DEF Kept, MembersOwn, Outlived, Stored
  <2>4. Followed' /\ (Indexed => Indexed')
    BY <1>k, <2>1, <2>2 DEF Kept, Followed, Indexed, Stored
  <2> QED BY <2>3, <2>4 DEF Kept
<1>2. ASSUME now' = now, NEW f \in Families, NEW s \in Sids, NEW p \in Nat, CreateSession(f, s, p)
      PROVE  Kept' /\ (Indexed => Indexed')
  BY <1>2, <1>k, CalmCreate
<1>3. ASSUME now' = now, NEW f \in Families, lineage[f] # None,
             NEW also, \A x \in also : sess[x].family = f, RevokeFamily(f, also)
      PROVE  Kept' /\ (Indexed => Indexed')
  BY <1>3, <1>k, CalmRevoke
<1>4. ASSUME now' = now, NEW s \in Sids, NEW n \in Sids, Rotatable(s), Succeed(s, n)
      PROVE  Kept' /\ (Indexed => Indexed')
  BY <1>4, <1>k, CalmSucceed
<1>5. ASSUME now' = now, Discard \/ Drop
      PROVE  Kept' /\ (password = 0 /\ Indexed => Indexed')
  BY <1>5, <1>k, CalmForget
<1> QED BY <1>1, <1>2, <1>3, <1>4, <1>5 DEF StoreStep

\* Only a changed password puts a request into the phases of a force-logout.
LEMMA CountedStep ==
  ASSUME TypeOK, Counted, [Next]_vars
  PROVE  Counted' /\ password' \in Nat /\ (password' = 0 => password = 0)
<1>t. password \in Nat /\ req \in [Handlers -> Request]
  BY DEF TypeOK, ServiceTypes
<1>p. password' \in {password, password + 1}
  BY DEF Next, Handle, LoginVerified, LoginSession, OauthSession, MintAccess, Refresh, LogoutRead,
         LogoutRevoke, DenyPresented, ChangeAuthorized, ChangePassword, ListFamilies, KillOne,
         DropIndex, KillAborted, Tick, Outage, Recover, Lose, vars
<1>b. ASSUME NEW h \in Handlers, NEW r, Become(h, r),
             r.phase \in {"list", "kill"} => password' > 0
      PROVE  Counted'
  BY <1>b, <1>t, <1>p DEF Become, Counted
<1>i. \A p, f, t, n : /\ [Idle EXCEPT !.phase = p, !.family = f].phase = p
                      /\ [Idle EXCEPT !.phase = p, !.token = t].phase = p
                      /\ [Idle EXCEPT !.phase = p, !.proved = n].phase = p
                      /\ [Idle EXCEPT !.phase = p, !.family = f, !.token = t].phase = p
                      /\ Idle.phase = "idle"
  BY DEF Idle
<1>u. UNCHANGED req => Counted'
  BY <1>t, <1>p DEF Counted
<1>e. ASSUME NEW h \in Handlers, End(h) PROVE Counted'
  BY <1>b, <1>e, <1>i DEF End
<1>m. ASSUME NEW h \in Handlers, NEW f, Mint(h, f) PROVE Counted'
  <2>1. [Idle EXCEPT !.phase = "mint", !.family = f].phase = "mint"
    BY <1>i
  <2> QED BY <1>b, <1>m, <2>1 DEF Mint
<1>d. ASSUME NEW h \in Handlers, NEW t, Become(h, [Idle EXCEPT !.phase = "denyJti", !.token = t])
      PROVE  Counted'
  <2>1. [Idle EXCEPT !.phase = "denyJti", !.token = t].phase = "denyJti"
    BY <1>i
  <2> QED BY <1>b, <1>d, <2>1
<1>1. ASSUME NEW h \in Handlers, Handle(h) PROVE Counted'
  <2>r. req[h] \in Request
    BY <1>t
  <2>1. LoginVerified(h) => Counted'
    <3>1. [Idle EXCEPT !.phase = "verified", !.proved = password].phase = "verified"
      BY <1>i
    <3> QED BY <1>b, <3>1 DEF LoginVerified
  <2>2. LoginSession(h) \/ MintAccess(h) \/ DenyPresented(h) => Counted'
    BY <1>e, <1>m DEF LoginSession, MintAccess, DenyPresented
  <2>3. OauthSession(h) => Counted'
    BY <1>u DEF OauthSession
  <2>4. Refresh(h) => Counted'
    BY <1>e, <1>m DEF Refresh, RotateInvalid, RotateRevoked, RotateReplay, RotateUnused
  <2>5. LogoutRead(h) => Counted'
    <3> SUFFICES ASSUME NEW s, NEW t,
                        Become(h, IF up /\ Exists(s)
                          THEN [Idle EXCEPT !.phase = "revoke", !.family = sess[s].family, !.token = t]
                          ELSE [Idle EXCEPT !.phase = "denyJti", !.token = t])
                 PROVE  Counted'
      BY DEF LogoutRead
    <3>1. CASE up /\ Exists(s)
      <4>1. [Idle EXCEPT !.phase = "revoke", !.family = sess[s].family, !.token = t].phase = "revoke"
        BY <1>i
      <4> QED BY <1>b, <3>1, <4>1
    <3>2. CASE ~ (up /\ Exists(s))
      BY <1>d, <3>2
    <3> QED BY <3>1, <3>2
  <2>6. LogoutRevoke(h) => Counted'
    BY <1>d DEF LogoutRevoke
  <2>7. ChangeAuthorized(h) => Counted'
    <3>1. \A t : [Idle EXCEPT !.phase = "change", !.token = t].phase = "change"
      BY <1>i
    <3> QED BY <1>b, <3>1 DEF ChangeAuthorized
  <2>8. ChangePassword(h) => Counted'
    <3>1. [req[h] EXCEPT !.phase = "list"].phase = "list"
      BY <2>r DEF Request
    <3> QED BY <1>b, <1>e, <1>t, <3>1 DEF ChangePassword
  <2>9. ListFamilies(h) => Counted'
    <3>1. /\ [req[h] EXCEPT !.phase = "kill", !.todo = FamiliesNow].phase = "kill"
          /\ [req[h] EXCEPT !.phase = "denyJti"].phase = "denyJti"
      BY <2>r DEF Request
    <3>2. req[h].phase = "list" => password' > 0
      BY <1>t, <1>p DEF Counted
    <3> QED BY <1>b, <3>1, <3>2 DEF ListFamilies
  <2>10. KillOne(h) => Counted'
    <3>1. \A f : [req[h] EXCEPT !.todo = @ \ {f}].phase = req[h].phase
      BY <2>r DEF Request
    <3>2. req[h].phase = "kill" => password' > 0
      BY <1>t, <1>p DEF Counted
    <3> QED BY <1>b, <3>1, <3>2 DEF KillOne
  <2>11. DropIndex(h) \/ KillAborted(h) => Counted'
    <3>1. /\ [req[h] EXCEPT !.phase = "denyJti", !.todo = {}].phase = "denyJti"
          /\ [req[h] EXCEPT !.phase = "denyJti"].phase = "denyJti"
      BY <2>r DEF Request
    <3> QED BY <1>b, <3>1 DEF DropIndex, KillAborted
  <2> QED BY <1>1, <2>1, <2>2, <2>3, <2>4, <2>5, <2>6, <2>7, <2>8, <2>9, <2>10, <2>11 DEF Handle
<1>2. Tick \/ Outage \/ Recover \/ Lose \/ UNCHANGED vars => Counted'
  BY <1>u DEF Tick, Outage, Recover, Lose, vars
<1> QED BY <1>t, <1>p, <1>1, <1>2 DEF Next

\* Outages and losses are counted and nothing takes the count back.
LEMMA FaultsCounted ==
  ASSUME TypeOK, [Next]_vars, faults' = 0
  PROVE  faults' = faults
<1>1. ASSUME NEW h \in Handlers, Handle(h) PROVE UNCHANGED faults
  BY <1>1 DEF Handle, world, LoginVerified, LoginSession, OauthSession, MintAccess, Refresh,
         LogoutRead, LogoutRevoke, DenyPresented, ChangeAuthorized, ChangePassword, ListFamilies,
         KillOne, DropIndex, KillAborted
<1>2. faults \in Nat
  BY DEF TypeOK, ServiceTypes
<1> QED BY <1>1, <1>2 DEF Next, Tick, Outage, Recover, Lose, vars, world

\* Inductive with SessionInvariant.
CalmInvariant == Counted /\ (faults = 0 => Calm)

LEMMA CalmInit == Init => CalmInvariant
<1> SUFFICES ASSUME Init PROVE CalmInvariant
  OBVIOUS
<1>1. /\ \A s \in Sids : ~ Stored(s) /\ ~ Exists(s)
      /\ \A f \in Families : fam[f].members = {} /\ famrev[f] = 0
      /\ \A h \in Handlers : req[h].phase = "idle"
  BY DEF Init, Stored, Exists, Gone, Idle
<1> QED BY <1>1 DEF CalmInvariant, Counted, Calm, Kept, MembersOwn, Outlived, Followed, Indexed

LEMMA CalmPreserved == SessionInvariant /\ CalmInvariant /\ [Next]_vars => CalmInvariant'
<1> SUFFICES ASSUME SessionInvariant, CalmInvariant, [Next]_vars PROVE CalmInvariant'
  OBVIOUS
<1>1. TypeOK /\ Grounded /\ StoreStep
  BY NextStoreStep DEF SessionInvariant
<1>2. Counted' /\ (password' = 0 => password = 0)
  BY <1>1, CountedStep DEF CalmInvariant
<1>3. ASSUME faults' = 0 PROVE Calm'
  <2>1. faults' = faults /\ Calm /\ Counted
    BY <1>1, <1>3, FaultsCounted DEF CalmInvariant
  <2> QED BY <1>1, <1>2, <2>1, CalmStep
<1> QED BY <1>2, <1>3 DEF CalmInvariant

LEMMA CalmHolds == Spec => []CalmInvariant
BY CalmInit, CalmPreserved, SessionInvariantHolds, PTL DEF Spec

\* A sid that exists and whose family nobody revoked has no marker at all.
LEMMA Unmarked ==
  ASSUME TypeOK, Kept, NEW s \in Sids, Exists(s), ~ Revoked(sess[s].family)
  PROVE  famrev[sess[s].family] = 0
BY StoreFacts DEF Exists, Stored, Revoked, Kept, Outlived

\* A double refresh never costs the session: while Redis loses nothing a spent
\* sid of a family nobody revoked finds its successor, for the whole grace and
\* for any interleaving of refreshes, logouts and force-logouts
\* (session.ts:23-26).
THEOREM GraceCostsNothing == Spec => []GraceHarmless
<1>1. SessionInvariant /\ CalmInvariant => GraceHarmless
  <2> SUFFICES ASSUME SessionInvariant, CalmInvariant, faults = 0, NEW s \in Sids, Exists(s),
                      sess[s].used, ~ Revoked(sess[s].family), now - sess[s].usedAt <= Grace
               PROVE  InGrace(s)
    BY DEF GraceHarmless
  <2>1. TypeOK /\ Kept
    BY DEF SessionInvariant, CalmInvariant, Calm
  <2>2. LET n == sess[s].next IN
        n \in Sids /\ Stored(n) /\ sess[n].expire >= sess[s].expire
    BY <2>1, Unmarked DEF Kept, Followed
  <2>3. Exists(sess[s].next) /\ sess[s].next # None
    BY <2>1, <2>2, StoreFacts, NoneIsNoId DEF Exists, Stored
  <2> QED BY <2>3 DEF InGrace
<1> QED BY <1>1, SessionInvariantHolds, CalmHolds, PTL

\* Until the first force-logout, and while Redis loses nothing, the user's index
\* lists the family of every sid that a refresh would accept: no extension lets
\* the index expire before the session (session.ts:15, 158).
THEOREM IndexIsComplete == Spec => []IndexComplete
<1>1. SessionInvariant /\ CalmInvariant => IndexComplete
  <2> SUFFICES ASSUME SessionInvariant, CalmInvariant, faults = 0, password = 0,
                      NEW s \in Sids, Usable(s)
               PROVE  sess[s].family \in FamiliesNow
    BY DEF IndexComplete
  <2>1. TypeOK /\ Kept /\ Indexed
    BY DEF SessionInvariant, CalmInvariant, Calm
  <2>2. sess[s].family \in usess.members /\ sess[s].expire <= usess.expire
    BY <2>1, Unmarked DEF Usable, Indexed
  <2> QED BY <2>1, <2>2, StoreFacts DEF Usable, Exists, Stored, FamiliesNow
<1> QED BY <1>1, SessionInvariantHolds, CalmHolds, PTL
=============================================================================
