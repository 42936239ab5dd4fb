----------------------------- MODULE ArgonGate -----------------------------
(***************************************************************************)
(* The gate that bounds concurrent Argon2 operations in svc-core           *)
(* (apps/svc-core/src/auth/gate.ts, used by password.ts).                  *)
(*                                                                         *)
(* A call of the gate is split at its awaits: acquire() runs to completion *)
(* in the caller's turn; the continuation after `await acquire()' and the  *)
(* `finally' after `await fn()' are turns of their own, and a queue        *)
(* timer's callback is another.  Calls are reused once they have settled,  *)
(* so the system runs for ever.                                            *)
(***************************************************************************)
EXTENDS Integers, Sequences, FiniteSets, SequencesExt

CONSTANTS Calls,           \* identities of concurrent gate(fn) calls
          MaxConcurrent,   \* opts.maxConcurrent
          MaxQueue         \* opts.maxQueue

ASSUME CallsFinite == IsFiniteSet(Calls)
ASSUME GateBounds == MaxConcurrent \in Nat \ {0} /\ MaxQueue \in Nat

VARIABLES running,   \* let running
          waiters,   \* const waiters, as the calls that own each waiter
          timers,    \* the calls whose setTimeout is armed
          stage      \* where each call stands

vars == <<running, waiters, timers, stage>>

Settled == {"done", "refused"}
Stages  == Settled \union {"waiting", "admitted", "working"}

TypeOK ==
  /\ running \in Nat
  /\ waiters \in Seq(Calls)
  /\ timers \subseteq Calls
  /\ stage \in [Calls -> Stages]

Init ==
  /\ running = 0
  /\ waiters = <<>>
  /\ timers = {}
  /\ stage = [c \in Calls |-> "done"]
-----------------------------------------------------------------------------
\* acquire(): a free permit is taken at once.
AcquireFree(c) ==
  /\ stage[c] \in Settled
  /\ running < MaxConcurrent
  /\ running' = running + 1
  /\ stage' = [stage EXCEPT ![c] = "admitted"]
  /\ UNCHANGED <<waiters, timers>>

\* acquire(): every permit taken and the queue full.
AcquireRefused(c) ==
  /\ stage[c] \in Settled
  /\ running >= MaxConcurrent
  /\ Len(waiters) >= MaxQueue
  /\ stage' = [stage EXCEPT ![c] = "refused"]
  /\ UNCHANGED <<running, waiters, timers>>

\* acquire(): every permit taken, room in the queue; the timer is armed.
AcquireWait(c) ==
  /\ stage[c] \in Settled
  /\ running >= MaxConcurrent
  /\ Len(waiters) < MaxQueue
  /\ waiters' = Append(waiters, c)
  /\ timers' = timers \union {c}
  /\ stage' = [stage EXCEPT ![c] = "waiting"]
  /\ UNCHANGED running

\* The continuation of `await acquire()': fn starts.
Begin(c) ==
  /\ stage[c] = "admitted"
  /\ stage' = [stage EXCEPT ![c] = "working"]
  /\ UNCHANGED <<running, waiters, timers>>

\* Slips of release() while somebody waits: the permit is given back and nobody
\* is woken; or the waiter is taken off the queue and never resolved.
KeepWaiting(c) ==
  /\ waiters # <<>>
  /\ running' = running - 1
  /\ stage' = [stage EXCEPT ![c] = "done"]
  /\ UNCHANGED <<waiters, timers>>
HandToNobody(c) ==
  /\ waiters # <<>>
  /\ waiters' = Tail(waiters)
  /\ timers' = timers \ {Head(waiters)}
  /\ stage' = [stage EXCEPT ![c] = "done"]
  /\ UNCHANGED running

\* Slip: the youngest waiter gets it.
HandToLast(c) ==
  /\ waiters # <<>>
  /\ waiters' = Front(waiters)
  /\ timers' = timers \ {Last(waiters)}
  /\ stage' = [stage EXCEPT ![c] = "done", ![Last(waiters)] = "admitted"]
  /\ UNCHANGED running

\* release() with somebody waiting: the permit is handed to the oldest waiter.
HandOver(c) ==
  /\ waiters # <<>>
  /\ waiters' = Tail(waiters)
  /\ timers' = timers \ {Head(waiters)}
  /\ stage' = [stage EXCEPT ![c] = "done", ![Head(waiters)] = "admitted"]
  /\ UNCHANGED running

\* release() with nobody waiting.
PutBack(c) ==
  /\ waiters = <<>>
  /\ running' = running - 1
  /\ stage' = [stage EXCEPT ![c] = "done"]
  /\ UNCHANGED <<waiters, timers>>

\* fn returned or threw: the `finally' releases either way.
Finish(c) ==
  /\ stage[c] = "working"
  /\ HandOver(c) \/ PutBack(c)

\* Slip: the timer's callback takes the oldest waiter off the queue, not its own.
ShiftOldest(c) == IF waiters = <<>> THEN waiters ELSE Tail(waiters)
\* waiters.indexOf and splice: the queue without c, if c is still in it.
IndexOf(c) == CHOOSE i \in 1..Len(waiters) : waiters[i] = c
Without(c) == IF c \in ToSet(waiters) THEN RemoveAt(waiters, IndexOf(c)) ELSE waiters

\* The timer's callback.  Rejecting a promise that has settled does nothing.
QueueTimeout(c) ==
  /\ c \in timers
  /\ timers' = timers \ {c}
  /\ waiters' = Without(c)
  /\ stage' = IF stage[c] = "waiting" THEN [stage EXCEPT ![c] = "refused"] ELSE stage
  /\ UNCHANGED running

Next == \E c \in Calls :
  \/ AcquireFree(c) \/ AcquireRefused(c) \/ AcquireWait(c)
  \/ Begin(c) \/ Finish(c) \/ QueueTimeout(c)

Spec == Init /\ [][Next]_vars
-----------------------------------------------------------------------------
Holders == {c \in Calls : stage[c] \in {"admitted", "working"}}
Waiting == {c \in Calls : stage[c] = "waiting"}

\* No permit is lost or duplicated through hand-over, timeout and failure
\* (gate.ts:4-8): the counter is the number of calls that hold a permit, and
\* never exceeds maxConcurrent.
PermitsAccounted == running = Cardinality(Holders) /\ running <= MaxConcurrent

\* Nobody waits while a permit is free: release() and the timeout leave no
\* waiter behind that only a later release could wake.
NoIdlePermit == waiters # <<>> => running = MaxConcurrent

\* A call whose promise is pending stands in the queue exactly once with its
\* timer armed, so something will still settle it; nobody else does.
WaitersTracked ==
  /\ ToSet(waiters) = Waiting
  /\ timers = Waiting
  /\ \A i, j \in 1..Len(waiters) : waiters[i] = waiters[j] => i = j
  /\ Len(waiters) <= MaxQueue

\* The gate is a first-come first-served semaphore that nobody overtakes.
Sem == INSTANCE Semaphore
         WITH Clients <- Calls, Permits <- MaxConcurrent,
              holders <- Holders, line <- waiters
IsSemaphore == Sem!SSpec
=============================================================================
