---------------------------- MODULE MCArgonGate ----------------------------
(***************************************************************************)
(* Two gates.  One stands behind the routes: three requests on one permit    *)
(* and a queue of one, enough for a hand-over, a full queue, a refusal and a *)
(* timeout while a newcomer arrives; two places under the ceiling, and one   *)
(* attempt to each window of one client.                                     *)
(*                                                                          *)
(* The other, the line, stands alone and is called from anywhere: six calls  *)
(* on two permits and a queue of three, so that several wait together, one   *)
(* gives up in the middle of the line, newcomers find it full, and permits   *)
(* are handed over in whatever order their holders end.  The two have        *)
(* nothing to do with each other, so each moves only while the other rests.  *)
(***************************************************************************)
EXTENDS AuthRoutes

CONSTANTS a, b, c, d, e, f
MCCalls  == {a, b, c}
MCRoutes == {"login"}

VARIABLES lineRunning, lineWaiters, lineTimers, lineStage
line == <<lineRunning, lineWaiters, lineTimers, lineStage>>

Line == INSTANCE ArgonGate
          WITH Calls <- {a, b, c, d, e, f}, MaxConcurrent <- 2, MaxQueue <- 3,
               running <- lineRunning, waiters <- lineWaiters,
               timers <- lineTimers, stage <- lineStage

MCInit == RouteInit /\ Line!Init
MCNext == \/ Line!Init /\ RouteNext /\ UNCHANGED line
          \/ RouteInit /\ Line!Next /\ UNCHANGED allVars
MCSpec == MCInit /\ [][MCNext]_<<allVars, line>> /\ Progress
-----------------------------------------------------------------------------
\* Through hand-overs, refusals, timeouts anywhere in the line and failing calls the gate
\* is a first-come first-served semaphore: permits go to whoever has waited longest,
\* nobody overtakes, and no permit is lost or doubled (gate.ts:4-8, 20-48).
LineIsSemaphore == Line!IsSemaphore
=============================================================================
