-------------------------- MODULE AuthRoutesProofs --------------------------
(***************************************************************************)
(* Proofs about the Argon2 gate, and about the routes over it, for every    *)
(* number of requests, permits, queue places and attempts.                  *)
(*                                                                         *)
(* The three state properties of ArgonGate support each other and are       *)
(* inductive only together: the free-permit path keeps the queue empty      *)
(* because of NoIdlePermit, a hand-over keeps the count right because of    *)
(* WaitersTracked (the head of the queue holds no permit), and NoIdlePermit *)
(* survives a release because of PermitsAccounted.                         *)
(*                                                                         *)
(* The composition is a gate: each of its steps is a step of ArgonGate or   *)
(* leaves the gate's variables alone, so what is shown of the gate holds    *)
(* behind its routes.  The throttle's bound is not inductive as it stands:  *)
(* what passed since a window ended must be bounded by what each window has *)
(* counted.                                                                 *)
(***************************************************************************)
EXTENDS AuthRoutes, TLAPS, FiniteSetTheorems, SequenceTheorems

Distinct(s) == \A i, j \in 1..Len(s) : s[i] = s[j] => i = j

\* The strengthening of type correctness that every step preserves.
IInv == TypeOK /\ PermitsAccounted /\ NoIdlePermit /\ WaitersTracked
-----------------------------------------------------------------------------
(* The queue operations, over any sequence without repetition.             *)

\* Joining the queue (gate.ts:47) adds one newcomer at its end.
LEMMA JoinFacts ==
  ASSUME NEW S, NEW s \in Seq(S), NEW e \in S, Distinct(s), e \notin ToSet(s)
  PROVE  /\ Append(s, e) \in Seq(S)
         /\ Len(Append(s, e)) = Len(s) + 1
         /\ ToSet(Append(s, e)) = ToSet(s) \union {e}
         /\ Distinct(Append(s, e))
<1>1. /\ Append(s, e) \in Seq(S)
      /\ Len(Append(s, e)) = Len(s) + 1
      /\ \A i \in 1..Len(s) : Append(s, e)[i] = s[i]
      /\ Append(s, e)[Len(s) + 1] = e
  BY AppendProperties
<1>2. DOMAIN s = 1..Len(s) /\ DOMAIN Append(s, e) = 1..(Len(s) + 1) /\ Len(s) \in Nat
  BY <1>1, LenProperties
<1>3. ToSet(Append(s, e)) = ToSet(s) \union {e}
  BY <1>1, <1>2 DEF ToSet
<1>4. Distinct(Append(s, e))
  BY <1>1, <1>2 DEF Distinct, ToSet
<1> QED BY <1>1, <1>3, <1>4

\* Serving the head of the queue (gate.ts:21) removes exactly it.
LEMMA ServeFacts ==
  ASSUME NEW S, NEW s \in Seq(S), s # <<>>, Distinct(s)
  PROVE  /\ Tail(s) \in Seq(S)
         /\ Len(Tail(s)) = Len(s) - 1
         /\ Head(s) \in S /\ Head(s) \in ToSet(s)
         /\ ToSet(Tail(s)) = ToSet(s) \ {Head(s)}
         /\ Distinct(Tail(s))
<1>1. /\ Tail(s) \in Seq(S) /\ Head(s) \in S
      /\ Len(Tail(s)) = Len(s) - 1
      /\ \A i \in 1..Len(Tail(s)) : Tail(s)[i] = s[i + 1]
  BY HeadTailProperties
<1>2. /\ DOMAIN s = 1..Len(s) /\ Len(s) \in Nat /\ Len(s) > 0 /\ Head(s) = s[1]
      /\ DOMAIN Tail(s) = 1..(Len(s) - 1)
  BY <1>1, LenProperties, EmptySeq
<1>3. ToSet(Tail(s)) = ToSet(s) \ {Head(s)}
  <2>1. ASSUME NEW x \in ToSet(Tail(s)) PROVE x \in ToSet(s) \ {Head(s)}
    <3>1. PICK i \in 1..(Len(s) - 1) : x = s[i + 1]
      BY <1>1, <1>2, <2>1 DEF ToSet
    <3>2. i + 1 \in 1..Len(s) /\ i + 1 # 1 /\ 1 \in 1..Len(s)
      BY <1>2
    <3> QED BY <1>2, <3>1, <3>2 DEF ToSet, Distinct
  <2>2. ASSUME NEW x \in ToSet(s) \ {Head(s)} PROVE x \in ToSet(Tail(s))
    <3>1. PICK i \in 1..Len(s) : x = s[i]
      BY <1>2, <2>2 DEF ToSet
    <3>2. i - 1 \in 1..(Len(s) - 1) /\ (i - 1) + 1 = i
      BY <1>2, <2>2, <3>1
    <3>3. Tail(s)[i - 1] = s[(i - 1) + 1]
      BY <1>1, <3>2
    <3> QED BY <1>2, <3>1, <3>2, <3>3 DEF ToSet
  <2> QED BY <2>1, <2>2
<1>4. Distinct(Tail(s))
  BY <1>1, <1>2 DEF Distinct
<1>5. Head(s) \in ToSet(s)
  BY <1>2 DEF ToSet
<1> QED BY <1>1, <1>3, <1>4, <1>5

\* Splicing a waiter out (gate.ts:42-43) removes exactly it, wherever it is.
LEMMA SpliceFacts ==
  ASSUME NEW S, NEW s \in Seq(S), NEW k \in 1..Len(s), Distinct(s)
  PROVE  /\ RemoveAt(s, k) \in Seq(S)
         /\ Len(RemoveAt(s, k)) = Len(s) - 1
         /\ ToSet(RemoveAt(s, k)) = ToSet(s) \ {s[k]}
         /\ Distinct(RemoveAt(s, k))
<1> DEFINE front == SubSeq(s, 1, k - 1)
           back  == SubSeq(s, k + 1, Len(s))
           rest  == RemoveAt(s, k)
<1>1. DOMAIN s = 1..Len(s) /\ Len(s) \in Nat /\ \A i \in 1..Len(s) : s[i] \in S
  BY LenProperties, ElementOfSeq
<1>2. /\ front \in Seq(S) /\ Len(front) = k - 1
      /\ \A i \in 1..(k - 1) : front[i] = s[i]
  <2>1. \A i \in 1..(k - 1) : s[i] \in S
    BY <1>1
  <2>2. /\ SubSeq(s, 1, k - 1) \in Seq(S)
        /\ Len(SubSeq(s, 1, k - 1)) = IF 1 <= k - 1 THEN (k - 1) - 1 + 1 ELSE 0
        /\ \A i \in 1..((k - 1) - 1 + 1) : SubSeq(s, 1, k - 1)[i] = s[1 + i - 1]
    BY <2>1, SubSeqProperties
  <2> QED BY <2>2
<1>3. /\ back \in Seq(S) /\ Len(back) = Len(s) - k
      /\ \A i \in 1..(Len(s) - k) : back[i] = s[k + i]
  <2>1. \A i \in (k + 1)..Len(s) : s[i] \in S
    BY <1>1
  <2>2. /\ SubSeq(s, k + 1, Len(s)) \in Seq(S)
        /\ Len(SubSeq(s, k + 1, Len(s)))
             = IF k + 1 <= Len(s) THEN Len(s) - (k + 1) + 1 ELSE 0
        /\ \A i \in 1..(Len(s) - (k + 1) + 1) :
             SubSeq(s, k + 1, Len(s))[i] = s[(k + 1) + i - 1]
    BY <1>1, <2>1, SubSeqProperties
  <2>3. Len(back) = Len(s) - k
    <3>1. Len(back) = IF k + 1 <= Len(s) THEN Len(s) - (k + 1) + 1 ELSE 0
      BY <2>2
    <3>2. Len(s) \in Nat
      BY LenProperties
    <3> HIDE DEF back
    <3> QED BY <3>1, <3>2
  <2>4. ASSUME NEW i \in 1..(Len(s) - k) PROVE back[i] = s[k + i]
    <3>1. i \in 1..(Len(s) - (k + 1) + 1) /\ (k + 1) + i - 1 = k + i
      BY <1>1
    <3> QED BY <2>2, <3>1
  <2> QED BY <2>2, <2>3, <2>4
<1> HIDE DEF front, back
<1>4. /\ rest \in Seq(S) /\ Len(rest) = Len(front) + Len(back)
      /\ \A i \in 1..(Len(front) + Len(back)) :
           rest[i] = IF i <= Len(front) THEN front[i] ELSE back[i - Len(front)]
  <2>1. rest = front \o back
    BY DEF RemoveAt, front, back
  <2>2. /\ front \o back \in Seq(S)
        /\ Len(front \o back) = Len(front) + Len(back)
        /\ \A i \in 1..(Len(front) + Len(back)) :
             (front \o back)[i] = IF i <= Len(front) THEN front[i] ELSE back[i - Len(front)]
    BY <1>2, <1>3, ConcatProperties
  <2> QED BY <2>1, <2>2
<1>5. /\ Len(rest) = Len(s) - 1 /\ DOMAIN rest = 1..(Len(s) - 1)
      /\ \A i \in 1..(Len(s) - 1) : rest[i] = IF i < k THEN s[i] ELSE s[i + 1]
  <2>1. Len(rest) = Len(s) - 1 /\ DOMAIN rest = 1..(Len(s) - 1)
    BY <1>1, <1>2, <1>3, <1>4, LenProperties
  <2>2. ASSUME NEW i \in 1..(Len(s) - 1)
        PROVE  rest[i] = IF i < k THEN s[i] ELSE s[i + 1]
    <3>1. CASE i < k
      BY <1>1, <1>2, <1>3, <1>4, <3>1
    <3>2. CASE ~ (i < k)
      <4>1. i - (k - 1) \in 1..(Len(s) - k) /\ k + (i - (k - 1)) = i + 1
        BY <1>1, <3>2
      <4>2. back[i - (k - 1)] = s[k + (i - (k - 1))]
        BY <1>3, <4>1
      <4>3. /\ Len(front) = k - 1 /\ i \in 1..(Len(front) + Len(back))
            /\ ~ (i <= Len(front))
        BY <1>1, <1>2, <1>3, <3>2
      <4>4. rest[i] = back[i - Len(front)]
        BY <1>4, <4>3
      <4> QED BY <3>2, <4>1, <4>2, <4>3, <4>4
    <3> QED BY <3>1, <3>2
  <2> QED BY <2>1, <2>2
<1> HIDE DEF rest
<1>6. ToSet(rest) = ToSet(s) \ {s[k]}
  <2>1. ASSUME NEW x \in ToSet(rest) PROVE x \in ToSet(s) \ {s[k]}
    <3>1. PICK i \in 1..(Len(s) - 1) : x = rest[i]
      BY <1>5, <2>1 DEF ToSet
    <3>2. PICK j \in 1..Len(s) : x = s[j] /\ j # k
      BY <1>1, <1>5, <3>1
    <3> QED BY <1>1, <3>2 DEF ToSet, Distinct
  <2>2. ASSUME NEW x \in ToSet(s) \ {s[k]} PROVE x \in ToSet(rest)
    <3>1. PICK j \in 1..Len(s) : x = s[j] /\ j # k
      BY <1>1, <2>2 DEF ToSet
    <3>2. PICK i \in 1..(Len(s) - 1) : i = IF j < k THEN j ELSE j - 1
      BY <1>1, <3>1
    <3>3. rest[i] = x
      BY <1>1, <1>5, <3>1, <3>2
    <3> QED BY <1>5, <3>3 DEF ToSet
  <2> QED BY <2>1, <2>2
<1>7. Distinct(rest)
  <2> SUFFICES ASSUME NEW i \in 1..(Len(s) - 1), NEW j \in 1..(Len(s) - 1),
                      rest[i] = rest[j]
               PROVE  i = j
    BY <1>5 DEF Distinct
  <2> QED BY <1>1, <1>5 DEF Distinct
<1> QED BY <1>4, <1>5, <1>6, <1>7 DEF rest
-----------------------------------------------------------------------------
(* The permit count.                                                        *)

LEMMA HoldersFinite ==
  ASSUME NEW f \in [Calls -> Stages]
  PROVE  IsFiniteSet({c \in Calls : f[c] \in {"admitted", "working"}})
BY CallsFinite, FS_Subset

\* Taking, returning and passing on a permit change the number of holders by
\* one, by minus one, and not at all.
LEMMA TakeCounts ==
  ASSUME NEW S, IsFiniteSet(S), NEW c, c \notin S
  PROVE  Cardinality(S \union {c}) = Cardinality(S) + 1
BY FS_AddElement

LEMMA ReturnCounts ==
  ASSUME NEW S, IsFiniteSet(S), NEW c \in S
  PROVE  /\ Cardinality(S \ {c}) = Cardinality(S) - 1
         /\ Cardinality(S) \in Nat /\ Cardinality(S \ {c}) \in Nat
BY FS_RemoveElement, FS_CardinalityType

LEMMA PassCounts ==
  ASSUME NEW S, IsFiniteSet(S), NEW c \in S, NEW d, d \notin S
  PROVE  Cardinality((S \ {c}) \union {d}) = Cardinality(S)
<1>1. /\ IsFiniteSet(S \ {c}) /\ Cardinality(S) \in Nat
      /\ Cardinality(S \ {c}) = Cardinality(S) - 1
  BY FS_RemoveElement, FS_CardinalityType
<1>2. Cardinality((S \ {c}) \union {d}) = Cardinality(S \ {c}) + 1
  BY <1>1, FS_AddElement
<1> QED BY <1>1, <1>2
-----------------------------------------------------------------------------
(* One lemma per operation.                                                 *)

LEMMA InitInv == Init => IInv
<1> SUFFICES ASSUME Init PROVE IInv
  OBVIOUS
<1> USE DEF Init
<1>1. TypeOK
  BY DEF TypeOK, Stages, Settled
<1>2. Holders = {} /\ Waiting = {}
  BY DEF Holders, Waiting
<1>3. PermitsAccounted
  BY <1>2, FS_EmptySet, GateBounds DEF PermitsAccounted
<1>4. NoIdlePermit
  BY DEF NoIdlePermit
<1>5. WaitersTracked
  BY <1>2, GateBounds DEF WaitersTracked, ToSet
<1> QED BY <1>1, <1>3, <1>4, <1>5 DEF IInv

LEMMA FreeInv ==
  ASSUME IInv, NEW c \in Calls, AcquireFree(c)
  PROVE  IInv'
<1> USE DEF IInv, AcquireFree
<1>1. TypeOK'
  BY DEF TypeOK, Stages
<1>2. Holders' = Holders \union {c} /\ c \notin Holders /\ Waiting' = Waiting
  BY DEF TypeOK, Holders, Waiting, Settled
<1>3. IsFiniteSet(Holders)
  BY HoldersFinite DEF TypeOK, Holders
<1>4. PermitsAccounted'
  BY <1>2, <1>3, TakeCounts, GateBounds DEF PermitsAccounted, TypeOK
<1>5. waiters = <<>>
  BY GateBounds DEF NoIdlePermit, TypeOK
<1>6. NoIdlePermit'
  BY <1>5 DEF NoIdlePermit
<1>7. WaitersTracked'
  BY <1>2 DEF WaitersTracked
<1> QED BY <1>1, <1>4, <1>6, <1>7

LEMMA RefusedInv ==
  ASSUME IInv, NEW c \in Calls, AcquireRefused(c)
  PROVE  IInv'
<1> USE DEF IInv, AcquireRefused
<1>1. TypeOK'
  BY DEF TypeOK, Stages, Settled
<1>2. Holders' = Holders /\ Waiting' = Waiting
  BY DEF TypeOK, Holders, Waiting, Settled
<1> QED BY <1>1, <1>2 DEF PermitsAccounted, NoIdlePermit, WaitersTracked

LEMMA WaitInv ==
  ASSUME IInv, NEW c \in Calls, AcquireWait(c)
  PROVE  IInv'
<1> USE DEF IInv, AcquireWait
<1>1. Holders' = Holders /\ Waiting' = Waiting \union {c} /\ c \notin Waiting
  BY DEF TypeOK, Holders, Waiting, Settled
<1>2. /\ waiters' \in Seq(Calls) /\ Len(waiters') = Len(waiters) + 1
      /\ ToSet(waiters') = ToSet(waiters) \union {c} /\ Distinct(waiters')
  BY <1>1, JoinFacts DEF TypeOK, WaitersTracked, Distinct
<1>3. TypeOK'
  BY <1>2 DEF TypeOK, Stages
<1>4. PermitsAccounted'
  BY <1>1 DEF PermitsAccounted
<1>5. NoIdlePermit'
  BY GateBounds DEF NoIdlePermit, PermitsAccounted, TypeOK
<1>6. Len(waiters) \in Nat
  BY LenProperties DEF TypeOK
<1>7. WaitersTracked'
  BY <1>1, <1>2, <1>6, GateBounds DEF WaitersTracked, Distinct
<1> QED BY <1>3, <1>4, <1>5, <1>7

LEMMA BeginInv ==
  ASSUME IInv, NEW c \in Calls, Begin(c)
  PROVE  IInv'
<1> USE DEF IInv, Begin
<1>1. TypeOK'
  BY DEF TypeOK, Stages
<1>2. Holders' = Holders /\ Waiting' = Waiting
  BY DEF TypeOK, Holders, Waiting
<1> QED BY <1>1, <1>2 DEF PermitsAccounted, NoIdlePermit, WaitersTracked

LEMMA HandOverInv ==
  ASSUME IInv, NEW c \in Calls, stage[c] = "working", HandOver(c)
  PROVE  IInv'
<1> DEFINE d == Head(waiters)
<1> USE DEF IInv, HandOver
<1>1. /\ waiters' \in Seq(Calls) /\ Len(waiters') = Len(waiters) - 1
      /\ d \in Calls /\ d \in ToSet(waiters)
      /\ ToSet(waiters') = ToSet(waiters) \ {d} /\ Distinct(waiters')
  BY ServeFacts DEF TypeOK, WaitersTracked, Distinct
<1>2. stage[d] = "waiting" /\ d # c
  BY <1>1 DEF WaitersTracked, Waiting
<1> HIDE DEF d
<1>3. stage' = [stage EXCEPT ![c] = "done", ![d] = "admitted"] /\ timers' = timers \ {d}
  BY DEF d
<1>4. /\ Holders' = (Holders \ {c}) \union {d} /\ c \in Holders /\ d \notin Holders
      /\ Waiting' = Waiting \ {d}
  BY <1>1, <1>2, <1>3 DEF TypeOK, Holders, Waiting
<1>5. TypeOK'
  BY <1>1, <1>3 DEF TypeOK, Stages, Settled
<1>6. IsFiniteSet(Holders)
  BY HoldersFinite DEF TypeOK, Holders
<1>7. PermitsAccounted'
  BY <1>4, <1>6, PassCounts DEF PermitsAccounted
<1>8. NoIdlePermit'
  BY DEF NoIdlePermit
<1>9. Len(waiters) \in Nat
  BY LenProperties DEF TypeOK
<1>10. WaitersTracked'
  BY <1>1, <1>3, <1>4, <1>9, GateBounds DEF WaitersTracked, Distinct
<1> QED BY <1>5, <1>7, <1>8, <1>10

LEMMA PutBackInv ==
  ASSUME IInv, NEW c \in Calls, stage[c] = "working", PutBack(c)
  PROVE  IInv'
<1> USE DEF IInv, PutBack
<1>1. Holders' = Holders \ {c} /\ c \in Holders /\ Waiting' = Waiting
  BY DEF TypeOK, Holders, Waiting
<1>2. IsFiniteSet(Holders)
  BY HoldersFinite DEF TypeOK, Holders
<1>3. running' = Cardinality(Holders') /\ running' \in Nat
  BY <1>1, <1>2, ReturnCounts DEF PermitsAccounted
<1>4. TypeOK'
  BY <1>3 DEF TypeOK, Stages, Settled
<1>5. PermitsAccounted'
  BY <1>3, GateBounds DEF PermitsAccounted, TypeOK
<1>6. NoIdlePermit'
  BY DEF NoIdlePermit
<1>7. WaitersTracked'
  BY <1>1 DEF WaitersTracked
<1> QED BY <1>4, <1>5, <1>6, <1>7

LEMMA TimeoutInv ==
  ASSUME IInv, NEW c \in Calls, QueueTimeout(c)
  PROVE  IInv'
<1> USE DEF IInv, QueueTimeout
<1>1. stage[c] = "waiting" /\ c \in ToSet(waiters)
  BY DEF WaitersTracked, Waiting
<1>2. PICK k \in 1..Len(waiters) : waiters[k] = c /\ waiters' = RemoveAt(waiters, k)
  <2>1. DOMAIN waiters = 1..Len(waiters)
    BY LenProperties DEF TypeOK
  <2>2. IndexOf(c) \in 1..Len(waiters) /\ waiters[IndexOf(c)] = c
    BY <1>1, <2>1 DEF IndexOf, ToSet
  <2> QED BY <1>1, <2>2 DEF Without
<1>3. /\ waiters' \in Seq(Calls) /\ Len(waiters') = Len(waiters) - 1
      /\ ToSet(waiters') = ToSet(waiters) \ {c} /\ Distinct(waiters')
  <2>1. waiters \in Seq(Calls) /\ Distinct(waiters)
    BY DEF TypeOK, WaitersTracked, Distinct
  <2>2. /\ RemoveAt(waiters, k) \in Seq(Calls)
        /\ Len(RemoveAt(waiters, k)) = Len(waiters) - 1
        /\ ToSet(RemoveAt(waiters, k)) = ToSet(waiters) \ {waiters[k]}
        /\ Distinct(RemoveAt(waiters, k))
    <3> HIDE DEF IInv, QueueTimeout
    <3> QED BY <2>1, SpliceFacts
  <2> HIDE DEF IInv, QueueTimeout
  <2> QED BY <1>2, <2>2
<1>4. stage' = [stage EXCEPT ![c] = "refused"]
  BY <1>1
<1>5. Holders' = Holders /\ Waiting' = Waiting \ {c}
  BY <1>1, <1>4 DEF TypeOK, Holders, Waiting
<1>6. TypeOK'
  BY <1>3, <1>4 DEF TypeOK, Stages, Settled
<1>7. PermitsAccounted'
  BY <1>5 DEF PermitsAccounted
<1>8. NoIdlePermit'
  <2>1. waiters # <<>>
    <3>1. c \in ToSet(waiters) => waiters # <<>>
      BY DEF ToSet
    <3> QED BY <1>1, <3>1
  <2>2. running = MaxConcurrent
    BY <2>1 DEF NoIdlePermit
  <2> QED BY <2>2 DEF NoIdlePermit
<1>9. Len(waiters) \in Nat
  BY LenProperties DEF TypeOK
<1>10. WaitersTracked'
  BY <1>3, <1>5, <1>9, GateBounds DEF WaitersTracked, Distinct
<1> QED BY <1>6, <1>7, <1>8, <1>10

LEMMA StepInv == IInv /\ [Next]_vars => IInv'
<1> SUFFICES ASSUME IInv, [Next]_vars PROVE IInv'
  OBVIOUS
<1>1. CASE UNCHANGED vars
  BY <1>1 DEF vars, IInv, TypeOK, PermitsAccounted, NoIdlePermit, WaitersTracked,
              Holders, Waiting
<1>2. CASE Next
  <2>1. PICK c \in Calls : \/ AcquireFree(c) \/ AcquireRefused(c) \/ AcquireWait(c)
                           \/ Begin(c) \/ Finish(c) \/ QueueTimeout(c)
    BY <1>2 DEF Next
  <2> QED BY <2>1, FreeInv, RefusedInv, WaitInv, BeginInv, HandOverInv, PutBackInv,
             TimeoutInv DEF Finish
<1> QED BY <1>1, <1>2

LEMMA Invariance == Spec => []IInv
BY InitInv, StepInv, PTL DEF Spec
-----------------------------------------------------------------------------
\* However many calls arrive, the gate's state keeps its types.
THEOREM TypeCorrect == Spec => []TypeOK
<1>1. IInv => TypeOK
  BY DEF IInv
<1> QED BY <1>1, Invariance, PTL

\* Never more than maxConcurrent operations hold a permit, and none is lost
\* through hand-over, queue timeout or failure (gate.ts:4-8).
THEOREM PermitsNeverLeak == Spec => []PermitsAccounted
<1>1. IInv => PermitsAccounted
  BY DEF IInv
<1> QED BY <1>1, Invariance, PTL

\* Nobody queues while a permit is free.
THEOREM PermitsNeverIdle == Spec => []NoIdlePermit
<1>1. IInv => NoIdlePermit
  BY DEF IInv
<1> QED BY <1>1, Invariance, PTL

\* A pending call is in the queue exactly once, with its timer armed.
THEOREM WaitersNeverForgotten == Spec => []WaitersTracked
<1>1. IInv => WaitersTracked
  BY DEF IInv
<1> QED BY <1>1, Invariance, PTL
-----------------------------------------------------------------------------
(* The gate implements the semaphore.                                       *)

\* Semaphore's own copies of the library operators mean the same.
LEMMA SameOperators ==
  /\ \A S : Sem!Cardinality(S) = Cardinality(S)
  /\ \A s : Sem!ToSet(s) = ToSet(s)
  /\ \A s, i : Sem!RemoveAt(s, i) = RemoveAt(s, i)
<1>1. \A S : Sem!Cardinality(S) = Cardinality(S)
  BY DEF Sem!Cardinality, Cardinality
<1>2. \A s : Sem!ToSet(s) = ToSet(s)
  BY DEF Sem!ToSet, ToSet
<1>3. \A s, i : Sem!RemoveAt(s, i) = RemoveAt(s, i)
  BY DEF Sem!RemoveAt, RemoveAt
<1> QED BY <1>1, <1>2, <1>3

LEMMA StepSimulates ==
  ASSUME IInv, [Next]_vars
  PROVE  [Sem!SNext]_(Sem!svars)
<1> USE DEF Sem!svars, Sem!SNext, Sem!Out
<1>1. CASE UNCHANGED vars
  BY <1>1 DEF vars, Holders
<1>2. ASSUME NEW c \in Calls, AcquireFree(c)
      PROVE  Sem!Take(c)
  <2>1. c \notin Holders /\ c \notin ToSet(waiters)
    BY <1>2 DEF AcquireFree, IInv, WaitersTracked, Holders, Waiting, Settled
  <2>2. Holders' = Holders \union {c} /\ UNCHANGED waiters
    BY <1>2 DEF AcquireFree, IInv, TypeOK, Holders
  <2>3. waiters = <<>> /\ Cardinality(Holders) < MaxConcurrent
    BY <1>2, GateBounds DEF AcquireFree, IInv, NoIdlePermit, PermitsAccounted, TypeOK
  <2> QED BY <2>1, <2>2, <2>3, SameOperators DEF Sem!Take
<1>3. ASSUME NEW c \in Calls, AcquireRefused(c) \/ Begin(c)
      PROVE  UNCHANGED Sem!svars
  BY <1>3 DEF AcquireRefused, Begin, IInv, TypeOK, Holders, Settled
<1>4. ASSUME NEW c \in Calls, AcquireWait(c)
      PROVE  Sem!Join(c)
  <2>1. c \notin Holders /\ c \notin ToSet(waiters)
    BY <1>4 DEF AcquireWait, IInv, WaitersTracked, Holders, Waiting, Settled
  <2>2. Holders' = Holders /\ waiters' = Append(waiters, c)
    BY <1>4 DEF AcquireWait, IInv, TypeOK, Holders, Settled
  <2>3. Cardinality(Holders) = MaxConcurrent
    BY <1>4, GateBounds DEF AcquireWait, IInv, PermitsAccounted, TypeOK
  <2> QED BY <2>1, <2>2, <2>3, SameOperators DEF Sem!Join
<1>5. ASSUME NEW c \in Calls, Finish(c)
      PROVE  Sem!GiveBack(c)
  <2>1. c \in Holders
    BY <1>5 DEF Finish, Holders
  <2>2. CASE PutBack(c)
    <3>1. Holders' = Holders \ {c}
      BY <1>5, <2>2 DEF Finish, PutBack, IInv, TypeOK, Holders
    <3> QED BY <2>1, <2>2, <3>1 DEF PutBack, Sem!GiveBack
  <2>3. CASE HandOver(c)
    <3>1. Head(waiters) \in ToSet(waiters) /\ Head(waiters) \in Calls
      BY <2>3, ServeFacts DEF HandOver, IInv, TypeOK, WaitersTracked, Distinct
    <3>2. Head(waiters) # c
      BY <1>5, <3>1 DEF Finish, IInv, WaitersTracked, Waiting
    <3>3. Holders' = (Holders \ {c}) \union {Head(waiters)}
      BY <2>3, <3>1, <3>2 DEF HandOver, IInv, TypeOK, Holders
    <3> QED BY <2>1, <2>3, <3>3 DEF HandOver, Sem!GiveBack
  <2> QED BY <1>5, <2>2, <2>3 DEF Finish
<1>6. ASSUME NEW c \in Calls, QueueTimeout(c)
      PROVE  Sem!Leave(c)
  <2>1. stage[c] = "waiting" /\ c \in ToSet(waiters)
    BY <1>6 DEF QueueTimeout, IInv, WaitersTracked, Waiting
  <2>2. DOMAIN waiters = 1..Len(waiters)
    BY LenProperties DEF IInv, TypeOK
  <2>3. IndexOf(c) \in 1..Len(waiters) /\ waiters[IndexOf(c)] = c
    BY <2>1, <2>2 DEF IndexOf, ToSet
  <2>4. waiters' = RemoveAt(waiters, IndexOf(c))
    BY <1>6, <2>1 DEF QueueTimeout, Without
  <2>5. Holders' = Holders
    BY <1>6, <2>1 DEF QueueTimeout, IInv, TypeOK, Holders
  <2> QED BY <2>3, <2>4, <2>5, SameOperators DEF Sem!Leave
<1>7. CASE Next
  <2>1. PICK c \in Calls : \/ AcquireFree(c) \/ AcquireRefused(c) \/ AcquireWait(c)
                           \/ Begin(c) \/ Finish(c) \/ QueueTimeout(c)
    BY <1>7 DEF Next
  <2> QED BY <2>1, <1>2, <1>3, <1>4, <1>5, <1>6
<1> QED BY <1>1, <1>7

\* The gate is a first-come first-served semaphore: every behaviour of it is
\* one of Semaphore, so no newcomer overtakes the queue.
THEOREM GateIsSemaphore == Spec => IsSemaphore
<1>1. Init => Sem!SInit
  BY DEF Init, Sem!SInit, Holders
<1>2. IInv /\ [Next]_vars => [Sem!SNext]_(Sem!svars)
  BY StepSimulates
<1> QED BY <1>1, <1>2, Invariance, PTL DEF Spec, IsSemaphore, Sem!SSpec
-----------------------------------------------------------------------------
(* The routes.                                                              *)

Placed == {c \in Calls : Holds(req[c])}

Capped(n) == IF n > AuthMax THEN AuthMax ELSE n

\* The history of a key is covered by what its two windows have counted.
BurstCovered == \A k \in Throttled : burst[k] <= Capped(window[k].n) + Capped(local[k])

RInv == RouteTypeOK /\ InflightExact /\ BurstCovered
-----------------------------------------------------------------------------
(* The composition is a gate.                                               *)

LEMMA RouteStepIsGateStep ==
  ASSUME RouteNext
  PROVE  [Next]_vars
<1>1. ASSUME NEW c \in Calls, NEW k \in Throttled,
             TooMany(c, k) \/ AuthBusy(c, k) \/ LetThrough(c, k)
      PROVE  UNCHANGED vars
  BY <1>1 DEF TooMany, AuthBusy, LetThrough
<1>2. ASSUME NEW c \in Calls, ChangeAsked(c) \/ Rejected(c) \/ Answer(c)
      PROVE  UNCHANGED vars
  BY <1>2 DEF ChangeAsked, Rejected, Answer
<1>3. ASSUME NEW c \in Calls, EnterGate(c) \/ EnterAgain(c)
      PROVE  Next
  BY <1>3 DEF EnterGate, EnterAgain, Enters, Next
<1>4. ASSUME NEW c \in Calls, Inside(c)
      PROVE  Next
  BY <1>4 DEF Inside, Next
<1>5. ASSUME NEW k \in Throttled, WindowEnds(k) \/ LocalEnds(k)
      PROVE  UNCHANGED vars
  BY <1>5 DEF WindowEnds, LocalEnds
<1>6. CASE Flips
  BY <1>6 DEF Flips
<1> QED BY <1>1, <1>2, <1>3, <1>4, <1>5, <1>6 DEF RouteNext, Serve

\* The routes use the gate as its specification says it is used.
THEOREM RoutesUseTheGate == RouteSpec => Spec
<1>1. RouteInit => Init
  BY DEF RouteInit
<1>2. [RouteNext]_allVars => [Next]_vars
  BY RouteStepIsGateStep DEF allVars
<1> QED BY <1>1, <1>2, PTL DEF RouteSpec, Spec

\* Behind the routes too, no permit is lost or duplicated (gate.ts:4-8).
THEOREM RoutePermits == RouteSpec => []PermitsAccounted
BY RoutesUseTheGate, PermitsNeverLeak, PTL

\* Behind the routes too, whoever waits is queued once with a timer armed.
THEOREM RouteWaiters == RouteSpec => []WaitersTracked
BY RoutesUseTheGate, WaitersNeverForgotten, PTL

\* Behind the routes too, the gate is a first-come first-served semaphore.
THEOREM RoutesSeeASemaphore == RouteSpec => IsSemaphore
BY RoutesUseTheGate, GateIsSemaphore, PTL
-----------------------------------------------------------------------------
(* The ceiling and the windows.                                             *)

LEMMA RouteInitInv == RouteInit => RInv
<1> SUFFICES ASSUME RouteInit PROVE RInv
  OBVIOUS
<1>1. RouteTypeOK
  BY DEF RouteInit, RouteTypeOK, Requests, None
<1>2. {c \in Calls : Holds(req[c])} = {}
  BY Routes DEF RouteInit, Holds, None
<1>3. InflightExact
  BY <1>2, FS_EmptySet, RouteBounds DEF InflightExact, RouteInit
<1>4. BurstCovered
  BY RouteBounds DEF BurstCovered, Capped, RouteInit
<1> QED BY <1>1, <1>3, <1>4 DEF RInv

\* One more request that holds a place, or one fewer.
LEMMA PlaceTaken ==
  ASSUME RInv, NEW c \in Calls, NEW r \in Requests, ~ Holds(req[c]), Holds(r),
         req' = [req EXCEPT ![c] = r], inflight' = inflight + 1, inflight < MaxInflight
  PROVE  InflightExact'
<1>1. Placed' = Placed \union {c} /\ c \notin Placed
  BY DEF RInv, RouteTypeOK, Placed
<1>2. IsFiniteSet(Placed)
  BY CallsFinite, FS_Subset DEF Placed
<1>3. Cardinality(Placed') = Cardinality(Placed) + 1
  BY <1>1, <1>2, FS_AddElement
<1> QED BY <1>3, RouteBounds DEF RInv, RouteTypeOK, InflightExact, Placed

LEMMA PlaceReturned ==
  ASSUME RInv, NEW c \in Calls, Answered(c)
  PROVE  InflightExact'
<1>0. ~ Holds(None)
  BY Routes DEF Holds, None
<1>1. CASE Holds(req[c])
  <2>1. Placed' = Placed \ {c} /\ c \in Placed
    BY <1>0, <1>1 DEF RInv, RouteTypeOK, Placed, Answered
  <2>2. IsFiniteSet(Placed)
    BY CallsFinite, FS_Subset DEF Placed
  <2>3. Cardinality(Placed') = Cardinality(Placed) - 1
    BY <2>1, <2>2, FS_RemoveElement
  <2>4. inflight' = inflight - 1
    BY <1>1 DEF Answered
  <2> QED BY <2>3, <2>4, RouteBounds DEF RInv, RouteTypeOK, InflightExact, Placed
<1>2. CASE ~ Holds(req[c])
  <2>1. Placed' = Placed
    BY <1>0, <1>2 DEF RInv, RouteTypeOK, Placed, Answered
  <2>2. inflight' = inflight
    BY <1>2 DEF Answered
  <2> QED BY <2>1, <2>2 DEF RInv, InflightExact, Placed
<1> QED BY <1>1, <1>2

\* A place nobody takes or gives back.
LEMMA PlacesKept ==
  ASSUME RInv, inflight' = inflight,
         \A c \in Calls : Holds(req'[c]) <=> Holds(req[c])
  PROVE  InflightExact'
<1>1. Placed' = Placed
  BY DEF Placed
<1> QED BY <1>1 DEF RInv, InflightExact, Placed

\* An attempt that passes has been counted by the window that answered it.
LEMMA ThrottleCounts ==
  ASSUME RInv, NEW k \in Throttled, NEW v \in BOOLEAN, Throttle(k, v)
  PROVE  /\ window' \in [Throttled -> [n : Nat, armed : BOOLEAN]]
         /\ local' \in [Throttled -> Nat] /\ burst' \in [Throttled -> Nat]
         /\ redisUp' \in BOOLEAN
         /\ BurstCovered'
<1> USE RouteBounds DEF RInv, RouteTypeOK, More, Capped
<1>0. \A j \in Throttled : window[j] = [n |-> window[j].n, armed |-> window[j].armed]
  OBVIOUS
<1>1. burst' \in [Throttled -> Nat]
  BY DEF Throttle
<1>2. \A j \in Throttled \ {k} : burst'[j] = burst[j]
  BY DEF Throttle
<1>3. burst'[k] = burst[k] \/ (v /\ burst'[k] = burst[k] + 1)
  BY DEF Throttle
<1>4. CASE CountInRedis(k)
  <2>1. /\ window' \in [Throttled -> [n : Nat, armed : BOOLEAN]]
        /\ local' = local /\ redisUp' = TRUE
        /\ window'[k].n = More(window[k].n)
        /\ \A j \in Throttled \ {k} : window'[j] = window[j]
    BY <1>4 DEF CountInRedis
  <2>2. v => window[k].n < AuthMax
    BY <2>1 DEF Throttle, Passes
  <2>3. BurstCovered'
    BY <1>1, <1>2, <1>3, <2>1, <2>2 DEF BurstCovered
  <2> QED BY <1>1, <2>1, <2>3
<1>5. CASE CountTwice(k)
  <2>1. /\ window' \in [Throttled -> [n : Nat, armed : BOOLEAN]]
        /\ local' \in [Throttled -> Nat] /\ redisUp' = FALSE
        /\ window'[k].n = More(window[k].n) /\ local'[k] = More(local[k])
        /\ \A j \in Throttled \ {k} : window'[j] = window[j] /\ local'[j] = local[j]
    BY <1>5 DEF CountTwice
  <2>2. v => local[k] < AuthMax
    BY <2>1 DEF Throttle, Passes
  <2>3. BurstCovered'
    BY <1>1, <1>2, <1>3, <2>1, <2>2 DEF BurstCovered
  <2> QED BY <1>1, <2>1, <2>3
<1>6. CASE CountLocally(k)
  <2>1. /\ local' \in [Throttled -> Nat] /\ window' = window /\ redisUp' = FALSE
        /\ local'[k] = More(local[k])
        /\ \A j \in Throttled \ {k} : local'[j] = local[j]
    BY <1>6 DEF CountLocally
  <2>2. v => local[k] < AuthMax
    BY <2>1 DEF Throttle, Passes
  <2>3. BurstCovered'
    BY <1>1, <1>2, <1>3, <2>1, <2>2 DEF BurstCovered
  <2> QED BY <1>1, <2>1, <2>3
<1> QED BY <1>4, <1>5, <1>6 DEF Throttle

LEMMA RouteStepInv == RInv /\ [RouteNext]_allVars => RInv'
<1> SUFFICES ASSUME RInv, [RouteNext]_allVars PROVE RInv'
  OBVIOUS
<1>0. ~ Holds(None) /\ None \in Requests
  BY Routes DEF Holds, None, Requests
<1>1. CASE UNCHANGED allVars
  BY <1>1 DEF allVars, routeVars, limits, RInv, RouteTypeOK, InflightExact, BurstCovered
<1>2. ASSUME NEW c \in Calls, NEW k \in Throttled, TooMany(c, k) \/ AuthBusy(c, k)
      PROVE  RInv'
  <2>1. PICK v \in BOOLEAN : Throttle(k, v)
    BY <1>2 DEF TooMany, AuthBusy
  <2>2. UNCHANGED <<req, inflight>>
    BY <1>2 DEF TooMany, AuthBusy
  <2>3. InflightExact'
    BY <2>2, PlacesKept
  <2>4. RouteTypeOK' /\ BurstCovered'
    BY <2>1, <2>2, ThrottleCounts DEF RInv, RouteTypeOK
  <2> QED BY <2>3, <2>4 DEF RInv
<1>3. ASSUME NEW c \in Calls, NEW k \in Throttled, LetThrough(c, k)
      PROVE  RInv'
  <2>1. Throttle(k, TRUE) /\ inflight' = inflight + 1 /\ inflight < MaxInflight
    BY <1>3 DEF LetThrough
  <2>2. [kind |-> k, at |-> "core"] \in Requests /\ Holds([kind |-> k, at |-> "core"])
    BY DEF Requests, Kinds, Holds
  <2>3. req' = [req EXCEPT ![c] = [kind |-> k, at |-> "core"]] /\ ~ Holds(req[c])
    BY <1>0, <1>3 DEF LetThrough, Forwarded, Free
  <2>4. InflightExact'
    BY <2>1, <2>2, <2>3, PlaceTaken
  <2>5. /\ window' \in [Throttled -> [n : Nat, armed : BOOLEAN]]
        /\ local' \in [Throttled -> Nat] /\ burst' \in [Throttled -> Nat]
        /\ redisUp' \in BOOLEAN /\ BurstCovered'
    BY <2>1, ThrottleCounts
  <2>6. req' \in [Calls -> Requests] /\ inflight' \in Nat
    BY <2>1, <2>2, <2>3 DEF RInv, RouteTypeOK
  <2>7. RouteTypeOK'
    BY <2>5, <2>6 DEF RouteTypeOK
  <2> QED BY <2>4, <2>5, <2>7 DEF RInv
<1>4. ASSUME NEW c \in Calls, ChangeAsked(c)
      PROVE  RInv'
  <2>1. req' = [req EXCEPT ![c] = [kind |-> "change", at |-> "core"]] /\ ~ Holds(req[c])
    BY <1>0, <1>4 DEF ChangeAsked, Forwarded, Free
  <2>2. [kind |-> "change", at |-> "core"] \in Requests /\ ~ Holds([kind |-> "change", at |-> "core"])
    BY Routes DEF Requests, Kinds, Holds
  <2>3. UNCHANGED <<inflight, limits>>
    BY <1>4 DEF ChangeAsked
  <2>4. InflightExact'
    BY <2>1, <2>2, <2>3, PlacesKept DEF RInv, RouteTypeOK
  <2>5. RouteTypeOK'
    BY <2>1, <2>2, <2>3 DEF RInv, RouteTypeOK, limits
  <2>6. BurstCovered'
    BY <2>3 DEF RInv, limits, BurstCovered
  <2> QED BY <2>4, <2>5, <2>6 DEF RInv
<1>5. ASSUME NEW c \in Calls, Rejected(c) \/ Answer(c)
      PROVE  RInv'
  <2>1. Answered(c)
    BY <1>5 DEF Rejected, Answer
  <2>2. InflightExact'
    BY <2>1, PlaceReturned
  <2>3. inflight' \in Nat
    <3>1. IsFiniteSet(Placed)
      BY CallsFinite, FS_Subset DEF Placed
    <3>2. Holds(req[c]) => inflight > 0
      <4>1. Holds(req[c]) => Placed # {}
        BY DEF Placed
      <4>2. Cardinality(Placed) \in Nat /\ (Placed # {} => Cardinality(Placed) # 0)
        BY <3>1, FS_EmptySet, FS_CardinalityType
      <4>3. inflight = Cardinality(Placed)
        BY DEF RInv, InflightExact, Placed
      <4> QED BY <4>1, <4>2, <4>3
    <3> QED BY <2>1, <3>2 DEF Answered, RInv, RouteTypeOK
  <2>4. RouteTypeOK'
    BY <1>0, <2>1, <2>3 DEF Answered, RInv, RouteTypeOK, limits
  <2>5. BurstCovered'
    BY <2>1 DEF Answered, RInv, limits, BurstCovered
  <2> QED BY <2>2, <2>4, <2>5 DEF RInv
<1>6. ASSUME NEW c \in Calls, EnterGate(c) \/ EnterAgain(c)
      PROVE  RInv'
  <2>1. PICK from \in {"core", "gate"}, to \in {"gate", "hash"} : Enters(c, from, to)
    BY <1>6 DEF EnterGate, EnterAgain
  <2>2. req[c] # None /\ req[c] \in [kind : Kinds, at : {"core", "gate", "hash"}]
    BY <2>1 DEF Enters, None, RInv, RouteTypeOK, Requests
  <2>3. /\ req' = [req EXCEPT ![c] = [kind |-> req[c].kind, at |-> to]]
        /\ [kind |-> req[c].kind, at |-> to] \in Requests
    <3>1. req[c] = [kind |-> req[c].kind, at |-> req[c].at] /\ req[c].kind \in Kinds
      BY <2>2
    <3>2. [req[c] EXCEPT !.at = to] = [kind |-> req[c].kind, at |-> to]
      BY <2>2
    <3>3. req' = [req EXCEPT ![c] = [req[c] EXCEPT !.at = to]]
      BY <2>1 DEF Enters
    <3> QED BY <3>1, <3>2, <3>3 DEF Requests
  <2>4. UNCHANGED <<inflight, limits>>
    BY <2>1 DEF Enters
  <2>5. InflightExact'
    BY <2>3, <2>4, PlacesKept DEF RInv, RouteTypeOK, Holds
  <2>6. RouteTypeOK'
    BY <2>3, <2>4 DEF RInv, RouteTypeOK, limits
  <2>7. BurstCovered'
    BY <2>4 DEF RInv, limits, BurstCovered
  <2> QED BY <2>5, <2>6, <2>7 DEF RInv
<1>7. ASSUME NEW c \in Calls, Inside(c)
      PROVE  RInv'
  BY <1>7 DEF Inside, routeVars, limits, RInv, RouteTypeOK, InflightExact, BurstCovered
<1>8. ASSUME NEW k \in Throttled, WindowEnds(k) \/ LocalEnds(k)
      PROVE  RInv'
  <2>1. UNCHANGED <<req, inflight>>
    BY <1>8 DEF WindowEnds, LocalEnds
  <2>2. InflightExact'
    BY <2>1, PlacesKept
  <2>3. RouteTypeOK'
    <3>1. [n |-> 0, armed |-> FALSE] \in [n : Nat, armed : BOOLEAN]
      OBVIOUS
    <3>2. CASE WindowEnds(k)
      BY <3>1, <3>2 DEF WindowEnds, RInv, RouteTypeOK
    <3>3. CASE LocalEnds(k)
      BY <3>3 DEF LocalEnds, RInv, RouteTypeOK
    <3> QED BY <1>8, <3>2, <3>3
  <2>4. \A j \in Throttled :
           \/ burst'[j] = 0
           \/ burst'[j] = burst[j] /\ window'[j] = window[j] /\ local'[j] = local[j]
    BY <1>8 DEF WindowEnds, LocalEnds, RInv, RouteTypeOK
  <2>5. BurstCovered'
    BY <2>3, <2>4, RouteBounds DEF RInv, RouteTypeOK, BurstCovered, Capped
  <2> QED BY <2>2, <2>3, <2>5 DEF RInv
<1>9. CASE Flips
  BY <1>9 DEF Flips, RInv, RouteTypeOK, InflightExact, BurstCovered
<1>10. CASE RouteNext
  BY <1>2, <1>3, <1>4, <1>5, <1>6, <1>7, <1>8, <1>9, <1>10 DEF RouteNext, Serve
<1> QED BY <1>1, <1>10

LEMMA RouteInvariance == RouteSpec => []RInv
BY RouteInitInv, RouteStepInv, PTL DEF RouteSpec

\* The requests, the counters and the windows are well typed.
THEOREM RouteTypeCorrect == RouteSpec => []RouteTypeOK
<1>1. RInv => RouteTypeOK
  BY DEF RInv
<1> QED BY <1>1, RouteInvariance, PTL

\* No place under the ceiling leaks or is given back twice, whatever the gate
\* and svc-core answer (routes/auth.ts:25-29).
THEOREM PlacesNeverLeak == RouteSpec => []InflightExact
<1>1. RInv => InflightExact
  BY DEF RInv
<1> QED BY <1>1, RouteInvariance, PTL

\* An outage never leaves login or registration unthrottled: whatever Redis does
\* between INCR and EXPIRE, two windows' worth pass at most (rate-limit.ts:27-29).
THEOREM NeverUnthrottled == RouteSpec => []ThrottleHolds
<1>1. RInv => ThrottleHolds
  BY RouteBounds DEF RInv, RouteTypeOK, BurstCovered, ThrottleHolds, Capped
<1> QED BY <1>1, RouteInvariance, PTL
=============================================================================
