-------------------------- MODULE LiveStreamProofs --------------------------
(***************************************************************************)
(* Proofs about the live state of a channel, for any set of keys, any TTL   *)
(* of at least two heartbeat periods and any number of overlapping polls:   *)
(* as long as nothing fails, one session at a time, and it is listed.       *)
(***************************************************************************)
EXTENDS LiveStream, FiniteSetTheorems, TLAPS

Granted  == {p \in Paths : starts[p] \in {"insert", "ok"}}
Owners   == sessions \union Granted
Stopping == stops["update"] + stops["delete"]

(* A call of startStream is one svc-media waits for. *)
ClaimsAwaited == \A p \in Paths : starts[p] # "none" => p \in claiming
(* The key is granted to one path, or to none; *)
OneOwner == \A p, q \in Owners : p = q
(* its owner holds the key, and nobody is releasing it; *)
OwnerHolds == Owners # {} => (live > 0 /\ Stopping = 0)
(* one release at a time, and the key is there until it is over; *)
OneRelease == Stopping <= 1 /\ (Stopping > 0 => live > 0)
(* at the end of a heartbeat period the key has a period left to spare; *)
KeyLasts ==
  (Granted # {} \/ (sessions # {} /\ due = {} /\ ~ beats)) => live > 1
(* and a row is live. *)
RowLasts == (sessions # {} \/ \E p \in Paths : starts[p] = "ok") => rows > 0

Undisturbed ==
  ClaimsAwaited /\ OneOwner /\ OwnerHolds /\ OneRelease /\ KeyLasts /\ RowLasts

LiveInvariant == TypeOK /\ (faults = 0 => Undisturbed)
-----------------------------------------------------------------------------
(* The types.                                                               *)

LEMMA MediaTypes ==
  ASSUME TypeOK,
         \/ PollRead \/ (\E seen \in polls : PollApply(seen)) \/ MediaRestart
         \/ \E p \in Paths : StartOk(p) \/ StartRefused(p) \/ StartUnheard(p) \/ HeartbeatFires(p)
  PROVE  TypeOK'
<1> USE DEF TypeOK, StartStages
<1>1. CASE PollRead
  BY <1>1 DEF PollRead, outer, core
<1>2. ASSUME NEW seen \in polls, PollApply(seen) PROVE TypeOK'
  <2>1. seen \subseteq Paths /\ IsFiniteSet(sessions \ seen)
    BY PathsFinite, FS_Subset
  <2>2. Cardinality(sessions \ seen) \in Nat
    BY <2>1, FS_CardinalityType
  <2>3. stops' \in [{"update", "delete"} -> Nat]
    BY <1>2, <2>2 DEF PollApply
  <2> QED BY <1>2, <2>1, <2>3 DEF PollApply, outer
<1>3. ASSUME NEW p \in Paths, StartOk(p) PROVE TypeOK'
  BY <1>3 DEF StartOk, outer
<1>4. ASSUME NEW p \in Paths, StartRefused(p) PROVE TypeOK'
  BY <1>4 DEF StartRefused
<1>5. ASSUME NEW p \in Paths, StartUnheard(p) PROVE TypeOK'
  BY <1>5 DEF StartUnheard, outer, media
<1>6. ASSUME NEW p \in Paths, HeartbeatFires(p) PROVE TypeOK'
  BY <1>6 DEF HeartbeatFires, outer
<1>7. CASE MediaRestart
  BY <1>7 DEF MediaRestart, Fault, outer, core
<1> QED BY <1>1, <1>2, <1>3, <1>4, <1>5, <1>6, <1>7

LEMMA CoreTypes ==
  ASSUME TypeOK,
         \/ StopUpdate \/ StopDelete \/ Heartbeat \/ KeyLost \/ Tick
         \/ \E p \in Paths : StartClaim(p) \/ StartInsert(p)
  PROVE  TypeOK'
<1> USE TtlOutlivesBeat DEF TypeOK, StartStages
<1>1. ASSUME NEW p \in Paths, StartClaim(p) PROVE TypeOK'
  BY <1>1 DEF StartClaim, Fault, outer, media
<1>2. ASSUME NEW p \in Paths, StartInsert(p) PROVE TypeOK'
  BY <1>2 DEF StartInsert, Fault, outer, media
<1>3. CASE StopUpdate
  BY <1>3 DEF StopUpdate, Fault, outer, media
<1>4. CASE StopDelete
  BY <1>4 DEF StopDelete, Fault, outer, media
<1>5. CASE Heartbeat
  <2>1. live' \in 0..LiveTtl /\ faults' \in Nat
    BY <1>5 DEF Heartbeat, Fault
  <2> QED BY <1>5, <2>1 DEF Heartbeat, outer, media
<1>6. CASE KeyLost
  BY <1>6 DEF KeyLost, Fault, outer, media
<1>7. CASE Tick
  BY <1>7 DEF Tick, Expire, outer
<1> QED BY <1>1, <1>2, <1>3, <1>4, <1>5, <1>6, <1>7

LEMMA OuterTypes ==
  ASSUME TypeOK,
         \/ Decide \/ MtxCrash \/ MtxRecover
         \/ \E p \in Paths : IssueKey(p) \/ RetireKey(p) \/ Publish(p) \/ Unpublish(p)
  PROVE  TypeOK'
<1> USE DEF TypeOK, StartStages, media, core
<1>1. CASE Decide
  BY <1>1 DEF Decide
<1>2. CASE MtxCrash
  <2>1. faults' \in Nat
    BY <1>2 DEF MtxCrash, Fault
  <2> QED BY <1>2, <2>1 DEF MtxCrash
<1>3. CASE MtxRecover
  BY <1>3 DEF MtxRecover
<1>4. ASSUME NEW p \in Paths, IssueKey(p) PROVE TypeOK'
  BY <1>4 DEF IssueKey
<1>5. ASSUME NEW p \in Paths, RetireKey(p) PROVE TypeOK'
  BY <1>5 DEF RetireKey
<1>6. ASSUME NEW p \in Paths, Publish(p) PROVE TypeOK'
  BY <1>6 DEF Publish
<1>7. ASSUME NEW p \in Paths, Unpublish(p) PROVE TypeOK'
  BY <1>7 DEF Unpublish
<1> QED BY <1>1, <1>2, <1>3, <1>4, <1>5, <1>6, <1>7

\* The steps of Next, each with the path it serves.
LEMMA Steps ==
  ASSUME [Next]_vars
  PROVE  \/ Decide \/ MtxCrash \/ MtxRecover
         \/ \E p \in Paths : IssueKey(p) \/ RetireKey(p) \/ Publish(p) \/ Unpublish(p)
         \/ PollRead \/ (\E seen \in polls : PollApply(seen)) \/ MediaRestart
         \/ \E p \in Paths : StartOk(p) \/ StartRefused(p) \/ StartUnheard(p) \/ HeartbeatFires(p)
         \/ StopUpdate \/ StopDelete \/ Heartbeat \/ KeyLost \/ Tick
         \/ \E p \in Paths : StartClaim(p) \/ StartInsert(p)
         \/ UNCHANGED vars
<1>1. CASE Next
  BY <1>1, Zenon DEF Next, Claim, Poll, Stop, Beat
<1> QED BY <1>1

LEMMA TypeInit == Init => TypeOK
<1> SUFFICES ASSUME Init PROVE TypeOK
  OBVIOUS
<1>1. live \in 0..LiveTtl /\ rows \in Nat /\ faults \in Nat
  BY TtlOutlivesBeat DEF Init
<1>2. starts \in [Paths -> StartStages] /\ stops \in [{"update", "delete"} -> Nat]
  BY DEF Init, StartStages
<1> QED BY <1>1, <1>2 DEF Init, TypeOK

LEMMA TypeStep == TypeOK /\ [Next]_vars => TypeOK'
<1> SUFFICES ASSUME TypeOK, [Next]_vars PROVE TypeOK'
  OBVIOUS
<1>1. UNCHANGED vars => TypeOK'
  BY DEF TypeOK, vars, outer, media, core
<1> QED BY <1>1, Steps, MediaTypes, CoreTypes, OuterTypes

\* The state of the streams and the live key is well typed: in particular the
\* paths svc-media claims are disjoint from those it has a session for
\* (main.ts:111), and the key's life never exceeds its TTL.
THEOREM TypeCorrect == Spec => []TypeOK
<1> QED BY TypeInit, TypeStep, PTL DEF Spec
-----------------------------------------------------------------------------
(* The invariant of an undisturbed channel.                                 *)

\* A failure is never forgotten.
LEMMA FaultsGrow == ASSUME TypeOK, [Next]_vars, faults' = 0 PROVE faults = 0
<1>1. faults \in Nat
  BY DEF TypeOK
<1>2. Fault => faults' # 0
  BY <1>1 DEF Fault
<1>3. (Decide \/ MtxCrash \/ MtxRecover) => faults = 0
  BY <1>2 DEF Decide, MtxCrash, MtxRecover
<1>4. ASSUME NEW p \in Paths, IssueKey(p) \/ RetireKey(p) \/ Publish(p) \/ Unpublish(p)
      PROVE  faults = 0
  BY <1>4 DEF IssueKey, RetireKey, Publish, Unpublish
<1>5. ASSUME NEW seen \in polls, PollApply(seen) PROVE faults = 0
  BY <1>5 DEF PollApply
<1>6. (PollRead \/ MediaRestart) => faults = 0
  BY <1>2 DEF PollRead, MediaRestart
<1>7. ASSUME NEW p \in Paths,
             StartOk(p) \/ StartRefused(p) \/ StartUnheard(p) \/ HeartbeatFires(p)
      PROVE  faults = 0
  BY <1>7 DEF StartOk, StartRefused, StartUnheard, HeartbeatFires
<1>8. (StopUpdate \/ StopDelete \/ Heartbeat \/ KeyLost \/ Tick) => faults = 0
  BY <1>2 DEF StopUpdate, StopDelete, Heartbeat, KeyLost, Tick
<1>9. ASSUME NEW p \in Paths, StartClaim(p) \/ StartInsert(p) PROVE faults = 0
  BY <1>2, <1>9 DEF StartClaim, StartInsert
<1>10. UNCHANGED vars => faults = 0
  BY DEF vars
<1> QED BY <1>3, <1>4, <1>5, <1>6, <1>7, <1>8, <1>9, <1>10, Steps

Calm == TypeOK /\ faults = 0 /\ Undisturbed

\* Steps that touch neither sessions nor core's state.
LEMMA QuietStep ==
  ASSUME Calm, UNCHANGED <<sessions, claiming, due, core>>
  PROVE  Undisturbed'
BY DEF Calm, core, Undisturbed, ClaimsAwaited, OneOwner, OwnerHolds, OneRelease, KeyLasts,
       RowLasts, Owners, Granted, Stopping

\* What a path in use says of the rest.
LEMMA Exclusive ==
  ASSUME Calm
  PROVE  /\ sessions \intersect Granted = {}
         /\ sessions # {} => Granted = {}
         /\ \A p \in sessions : sessions = {p}
         /\ stops["update"] \in Nat /\ stops["delete"] \in Nat
         /\ live \in Nat /\ rows \in Nat
<1> USE DEF Calm, Undisturbed, TypeOK
<1>1. sessions \intersect Granted = {}
  BY DEF ClaimsAwaited, Granted
<1>2. sessions # {} => Granted = {}
  BY <1>1 DEF OneOwner, Owners
<1>3. \A p \in sessions : sessions = {p}
  BY DEF OneOwner, Owners
<1>4. live \in Nat
  BY TtlOutlivesBeat
<1> QED BY <1>1, <1>2, <1>3, <1>4

\* A poll ends the session, if its path is gone, and claims new paths.
LEMMA PollStep ==
  ASSUME Calm, NEW seen \in polls, PollApply(seen)
  PROVE  Undisturbed'
<1> DEFINE fresh == seen \ (sessions \union claiming)
           gone  == sessions \ seen
<1>1. /\ \A p \in fresh : starts[p] = "none"
      /\ claiming' = claiming \union fresh
      /\ starts' = [p \in Paths |-> IF p \in fresh THEN "sent" ELSE starts[p]]
      /\ sessions' = sessions \ gone /\ due' = due \ gone
      /\ stops' = [stops EXCEPT !["update"] = @ + Cardinality(gone)]
      /\ UNCHANGED <<beats, live, rows>>
  BY DEF PollApply
<1>2. Granted' = Granted /\ \A p \in Paths : starts'[p] = "ok" => starts[p] = "ok"
  BY <1>1 DEF Granted
<1>3. ClaimsAwaited'
  BY <1>1 DEF Calm, Undisturbed, ClaimsAwaited
<1>4. CASE gone = {}
  <2>1. Cardinality(gone) = 0
    BY <1>4, FS_EmptySet
  <2>2. stops' = stops
    BY <1>1, <2>1, Exclusive DEF Calm, TypeOK
  <2>3. sessions' = sessions /\ due' = due
    BY <1>1, <1>4
  <2> HIDE DEF gone, fresh
  <2> QED BY <1>1, <1>2, <1>3, <2>2, <2>3
        DEF Calm, Undisturbed, OneOwner, OwnerHolds, OneRelease, KeyLasts, RowLasts,
            Owners, Stopping
<1>5. CASE gone # {}
  <2>1. PICK p \in sessions : gone = {p} /\ sessions = {p}
    BY <1>5, Exclusive
  <2>2. Cardinality(gone) = 1
    BY <2>1, FS_Singleton
  <2>3. sessions' = {} /\ Granted' = {}
    BY <1>1, <1>2, <2>1, Exclusive
  <2>4. Stopping = 0 /\ live > 0
    BY <2>1 DEF Calm, Undisturbed, OwnerHolds, Owners
  <2>5. Stopping' = 1
    BY <1>1, <2>2, <2>4, Exclusive DEF Stopping, Calm, TypeOK
  <2>6. \A q \in Paths : starts'[q] # "ok"
    BY <2>3 DEF Granted
  <2> QED BY <1>1, <1>3, <2>3, <2>4, <2>5, <2>6
        DEF Undisturbed, OneOwner, OwnerHolds, OneRelease, KeyLasts, RowLasts, Owners
<1> QED BY <1>4, <1>5

\* The steps in which svc-media hears of a claim.
LEMMA HearStep ==
  ASSUME Calm, NEW p \in Paths, StartOk(p) \/ StartRefused(p) \/ StartUnheard(p)
  PROVE  Undisturbed'
<1> USE DEF Calm
<1>1. CASE StartOk(p)
  <2>1. /\ p \in Granted /\ sessions = {} /\ due = {} /\ Granted = {p}
        /\ live > 1 /\ rows > 0 /\ Stopping = 0
    BY <1>1, Exclusive
    DEF StartOk, Granted, Undisturbed, OneOwner, Owners, OwnerHolds, KeyLasts, RowLasts, TypeOK
  <2>2. /\ sessions' = {p} /\ claiming' = claiming \ {p}
        /\ starts' = [starts EXCEPT ![p] = "none"]
        /\ UNCHANGED <<due, stops, beats, live, rows>>
    BY <1>1, <2>1 DEF StartOk
  <2>3. Granted' = {}
    BY <2>1, <2>2 DEF Granted, TypeOK
  <2>4. ClaimsAwaited'
    BY <2>2 DEF Undisturbed, ClaimsAwaited, TypeOK
  <2>5. live > 0
    BY <2>1, Exclusive
  <2> QED BY <2>1, <2>2, <2>3, <2>4, <2>5
        DEF Undisturbed, OneOwner, Owners, OwnerHolds, OneRelease, Stopping, KeyLasts, RowLasts
<1>2. CASE StartRefused(p)
  <2>1. /\ claiming' = claiming \ {p} /\ starts[p] = "refused"
        /\ starts' = [starts EXCEPT ![p] = "none"]
        /\ UNCHANGED <<sessions, due, stops, beats, live, rows>>
    BY <1>2 DEF StartRefused
  <2>2. Granted' = Granted /\ \A q \in Paths : starts'[q] = "ok" => starts[q] = "ok"
    BY <2>1 DEF Granted, TypeOK
  <2>3. ClaimsAwaited'
    BY <2>1 DEF Undisturbed, ClaimsAwaited, TypeOK
  <2> QED BY <2>1, <2>2, <2>3
        DEF Undisturbed, OneOwner, Owners, OwnerHolds, OneRelease, Stopping, KeyLasts, RowLasts
<1>3. CASE StartUnheard(p)
  BY <1>3 DEF StartUnheard, Undisturbed, ClaimsAwaited
<1> QED BY <1>1, <1>2, <1>3

\* Core serves a claim: the key is free only when nobody owns or releases it.
LEMMA ClaimStep ==
  ASSUME Calm, faults' = 0, NEW p \in Paths, StartClaim(p) \/ StartInsert(p)
  PROVE  Undisturbed'
<1> USE DEF Calm
<1>1. ~ Fault
  BY DEF Fault
<1>2. CASE StartClaim(p) /\ starts'[p] = "insert"
  <2>1. /\ starts[p] = "sent" /\ live = 0 /\ live' = LiveTtl
        /\ starts' = [starts EXCEPT ![p] = "insert"]
        /\ UNCHANGED <<sessions, claiming, due, stops, beats, rows>>
    BY <1>1, <1>2 DEF StartClaim, media, TypeOK
  <2>2. sessions = {} /\ Granted = {} /\ Stopping = 0
    BY <2>1, Exclusive DEF Undisturbed, OwnerHolds, Owners, OneRelease, Stopping
  <2>3. Granted' = {p}
    BY <2>1, <2>2 DEF Granted, TypeOK
  <2>4. ClaimsAwaited'
    BY <2>1 DEF Undisturbed, ClaimsAwaited, TypeOK
  <2>5. \A q \in Paths : starts'[q] # "ok"
    BY <2>1, <2>2 DEF Granted, TypeOK
  <2>6. live' > 1 /\ live' > 0
    BY <2>1, TtlOutlivesBeat
  <2> QED BY <2>1, <2>2, <2>3, <2>4, <2>5, <2>6
        DEF Undisturbed, OneOwner, Owners, OwnerHolds, OneRelease, Stopping, KeyLasts, RowLasts
<1>3. CASE StartClaim(p) /\ starts'[p] # "insert"
  <2>1. /\ starts[p] = "sent" /\ starts' = [starts EXCEPT ![p] = "refused"]
        /\ UNCHANGED <<sessions, claiming, due, stops, beats, live, rows>>
    BY <1>1, <1>3 DEF StartClaim, media, TypeOK
  <2>2. Granted' = Granted /\ \A q \in Paths : starts'[q] = "ok" => starts[q] = "ok"
    BY <2>1 DEF Granted, TypeOK
  <2>3. ClaimsAwaited'
    BY <2>1 DEF Undisturbed, ClaimsAwaited, TypeOK
  <2> QED BY <2>1, <2>2, <2>3
        DEF Undisturbed, OneOwner, Owners, OwnerHolds, OneRelease, Stopping, KeyLasts, RowLasts
<1>4. CASE StartInsert(p)
  <2>1. /\ starts[p] = "insert" /\ starts' = [starts EXCEPT ![p] = "ok"]
        /\ rows' = rows + 1 /\ UNCHANGED <<sessions, claiming, due, stops, beats, live>>
    BY <1>1, <1>4 DEF StartInsert, media
  <2>2. Granted' = Granted
    BY <2>1 DEF Granted, TypeOK
  <2>3. ClaimsAwaited'
    BY <2>1 DEF Undisturbed, ClaimsAwaited, TypeOK
  <2>4. rows' > 0
    BY <2>1, Exclusive
  <2> QED BY <2>1, <2>2, <2>3, <2>4
        DEF Undisturbed, OneOwner, Owners, OwnerHolds, OneRelease, Stopping, KeyLasts, RowLasts
<1> QED BY <1>2, <1>3, <1>4

\* Core releases the key, which nobody owns.
LEMMA StopStep ==
  ASSUME Calm, faults' = 0, StopUpdate \/ StopDelete
  PROVE  Undisturbed'
<1> USE DEF Calm
<1>1. ~ Fault
  BY DEF Fault
<1>2. Stopping > 0
  BY Exclusive DEF StopUpdate, StopDelete, Stopping
<1>3. sessions = {} /\ Granted = {} /\ Stopping = 1 /\ live > 0
  BY <1>2, Exclusive DEF Undisturbed, OwnerHolds, Owners, OneRelease, Stopping
<1>4. UNCHANGED <<sessions, claiming, due, starts>>
  BY DEF StopUpdate, StopDelete, media
<1>5. sessions' = {} /\ Granted' = {} /\ ClaimsAwaited' /\ \A q \in Paths : starts'[q] # "ok"
  BY <1>3, <1>4 DEF Granted, Undisturbed, ClaimsAwaited
<1>6. Stopping' <= 1 /\ (Stopping' > 0 => live' > 0)
  <2>1. CASE StopUpdate
    <3>1. stops' = [stops EXCEPT !["update"] = @ - 1, !["delete"] = @ + 1] /\ live' = live
      BY <1>1, <2>1 DEF StopUpdate
    <3>2. Stopping' = Stopping
      BY <3>1, Exclusive DEF Stopping, TypeOK
    <3> QED BY <1>3, <3>1, <3>2
  <2>2. CASE StopDelete
    <3>1. stops' = [stops EXCEPT !["delete"] = @ - 1]
      BY <2>2 DEF StopDelete
    <3>2. Stopping' = 0
      BY <1>3, <3>1, Exclusive DEF Stopping, TypeOK
    <3> QED BY <3>2
  <2> QED BY <2>1, <2>2
<1> QED BY <1>5, <1>6
      DEF Undisturbed, OneOwner, Owners, OwnerHolds, OneRelease, KeyLasts, RowLasts

\* A heartbeat only ever lengthens the life of the key.
LEMMA BeatStep ==
  ASSUME Calm, faults' = 0, Heartbeat \/ \E p \in Paths : HeartbeatFires(p)
  PROVE  Undisturbed'
<1> USE DEF Calm
<1>1. CASE Heartbeat
  <2>1. live' = LiveTtl /\ UNCHANGED <<sessions, claiming, due, starts, stops, rows>>
    BY <1>1 DEF Heartbeat, Fault, media
  <2>2. live' > 1 /\ live' > 0
    BY <2>1, TtlOutlivesBeat
  <2> QED BY <2>1, <2>2
        DEF Undisturbed, ClaimsAwaited, OneOwner, Owners, Granted, OwnerHolds, OneRelease,
            Stopping, KeyLasts, RowLasts
<1>2. ASSUME NEW p \in Paths, HeartbeatFires(p) PROVE Undisturbed'
  <2>1. beats' /\ UNCHANGED <<sessions, claiming, starts, stops, live, rows>>
    BY <1>2 DEF HeartbeatFires
  <2> QED BY <2>1
        DEF Undisturbed, ClaimsAwaited, OneOwner, Owners, Granted, OwnerHolds, OneRelease,
            Stopping, KeyLasts, RowLasts
<1> QED BY <1>1, <1>2

\* When a period ends every session has had its heartbeat: the key outlives it.
LEMMA TickStep ==
  ASSUME Calm, Tick
  PROVE  Undisturbed'
<1> USE DEF Calm
<1>1. /\ due = {} /\ ~ beats /\ Stopping = 0 /\ Granted = {}
      /\ due' = sessions /\ live' = IF live > 0 THEN live - 1 ELSE 0
      /\ UNCHANGED <<sessions, claiming, starts, stops, rows>>
  BY DEF Tick, Expire, Stopping, Granted
<1>2. Granted' = {} /\ Stopping' = 0 /\ ClaimsAwaited'
  BY <1>1 DEF Granted, Stopping, Undisturbed, ClaimsAwaited
<1>3. sessions # {} => live' > 0
  BY <1>1, Exclusive DEF Undisturbed, KeyLasts
<1>4. RowLasts' /\ OneOwner'
  BY <1>1, <1>2 DEF Undisturbed, RowLasts, OneOwner, Owners
<1> QED BY <1>1, <1>2, <1>3, <1>4 DEF Undisturbed, OwnerHolds, Owners, OneRelease, KeyLasts

LEMMA CalmStep ==
  ASSUME Calm, faults' = 0, [Next]_vars
  PROVE  Undisturbed'
<1>1. ~ Fault
  BY DEF Calm, Fault
<1>2. (Decide \/ MtxCrash \/ MtxRecover \/ PollRead \/ UNCHANGED vars) => Undisturbed'
  BY <1>1, QuietStep DEF Decide, MtxCrash, MtxRecover, PollRead, media, vars
<1>3. ASSUME NEW p \in Paths, IssueKey(p) \/ RetireKey(p) \/ Publish(p) \/ Unpublish(p)
      PROVE  Undisturbed'
  BY <1>3, QuietStep DEF IssueKey, RetireKey, Publish, Unpublish, media
<1>4. ~ MediaRestart /\ ~ KeyLost
  BY <1>1 DEF MediaRestart, KeyLost
<1> QED BY <1>2, <1>3, <1>4, Steps, PollStep, HearStep, ClaimStep, StopStep, BeatStep, TickStep

LEMMA LiveInit == Init => LiveInvariant
<1> SUFFICES ASSUME Init PROVE Undisturbed
  BY TypeInit DEF LiveInvariant
<1>1. sessions = {} /\ Granted = {} /\ Stopping = 0 /\ \A p \in Paths : starts[p] = "none"
  BY DEF Init, Granted, Stopping
<1> QED BY <1>1 DEF Undisturbed, ClaimsAwaited, OneOwner, Owners, OwnerHolds, OneRelease,
                    KeyLasts, RowLasts

LEMMA LiveStep == LiveInvariant /\ [Next]_vars => LiveInvariant'
BY TypeStep, FaultsGrow, CalmStep DEF LiveInvariant, Calm

LEMMA LiveHolds == Spec => []LiveInvariant
<1> QED BY LiveInit, LiveStep, PTL DEF Spec
-----------------------------------------------------------------------------
\* One encoder at a time, for any number of keys and of overlapping polls,
\* claims, stops and heartbeats: while nothing has failed the channel has one
\* session (main.ts:110-134, channel.service.ts:203-212).
THEOREM OneSession == Spec => []SingleSession
<1>1. LiveInvariant => SingleSession
  <2> SUFFICES ASSUME LiveInvariant, faults = 0 PROVE Cardinality(sessions) <= 1
    BY DEF SingleSession
  <2>1. CASE sessions = {}
    <3>1. Cardinality({}) = 0
      BY FS_EmptySet
    <3> QED BY <2>1, <3>1
  <2>2. CASE sessions # {}
    <3>1. PICK p : p \in sessions
      BY <2>2
    <3>2. sessions = {p}
      BY <3>1, Exclusive DEF LiveInvariant, Calm
    <3>3. Cardinality({p}) = 1
      BY FS_Singleton
    <3> QED BY <3>2, <3>3
  <2> QED BY <2>1, <2>2
<1> QED BY <1>1, LiveHolds, PTL

\* A channel with a session is listed: the stop of an earlier session never ends
\* the rows or deletes the key of a later one, and heartbeats keep the key from
\* expiring (channel.service.ts:240-265).
THEOREM SessionListed == Spec => []SessionIsListed
<1>1. LiveInvariant => SessionIsListed
  BY DEF LiveInvariant, Undisturbed, OwnerHolds, Owners, RowLasts, SessionIsListed
<1> QED BY <1>1, LiveHolds, PTL
=============================================================================
