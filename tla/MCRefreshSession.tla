-------------------------- MODULE MCRefreshSession --------------------------
EXTENDS RefreshSession, TLC
CONSTANTS s1, s2, s3, f1, f2, t1, h1, h2
MCSids == {s1, s2, s3}
MCFamilies == {f1, f2}
MCTokens == {t1}
MCHandlers == {h1, h2}
PoolSymmetry == Permutations(MCSids) \union Permutations(MCFamilies)
                \union Permutations(MCTokens) \union Permutations(MCHandlers)
-----------------------------------------------------------------------------
\* Two states that differ only by a shift of the clock, or in keys and tokens
\* that have expired, have the same future.
Left(expire) == IF now < expire THEN expire - now ELSE 0
Age(since, cap) == IF now - since > cap THEN cap + 1 ELSE now - since
TokenView(t) ==
  IF access[t] = None THEN <<>>
  ELSE IF Left(Expiry(t)) = 0 THEN <<0>>
  ELSE <<access[t].family, now - access[t].iat>>
SessView(s) ==
  IF ~ Exists(s) THEN <<>>
  ELSE <<sess[s].family, Age(sess[s].born, AbsMax), sess[s].used, sess[s].next,
         IF sess[s].used THEN Age(sess[s].usedAt, Grace) ELSE 0, Left(sess[s].expire)>>
Alive(f) == \E s \in Sids : Exists(s) /\ sess[s].family = f
FamilyView(f) ==
  <<lineage[f] = None,
    Left(denyFam[f]), IF revokedAt[f] = -1 THEN -1 ELSE Age(revokedAt[f], AccessTtl),
    IF Alive(f) THEN <<SidsOf(f), IF SidsOf(f) = {} THEN 0 ELSE Left(fam[f].expire),
                       Left(famrev[f]), lineage[f].proved,
                       Age(lineage[f].born, AbsMax + Grace)>>
                ELSE <<>> >>
ReqView(h) ==
  IF req[h].token = None \/ TokenView(req[h].token) # <<0>> THEN req[h]
  ELSE [req[h] EXCEPT !.token = None]
Shifted ==
  <<up, faults, password, [h \in Handlers |-> ReqView(h)], issued, forgotten,
    [s \in Sids |-> SessView(s)], [f \in Families |-> FamilyView(f)],
    [t \in Tokens |-> <<TokenView(t), Left(denyJti[t])>>],
    FamiliesNow, IF FamiliesNow = {} THEN 0 ELSE Left(usess.expire)>>
=============================================================================
