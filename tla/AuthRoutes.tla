----------------------------- MODULE AuthRoutes -----------------------------
(***************************************************************************)
(* The requests that burn Argon2 time, from the BFF's throttle to the gate: *)
(* apps/bff/src/routes/auth.ts and rate-limit.ts, and behind them           *)
(* apps/svc-core/src/auth/auth.service.ts and password.ts.  Every hash and  *)
(* every verification passes the gate, so the gate's calls are the requests *)
(* and its variables are ArgonGate's own.                                   *)
(*                                                                          *)
(* One BFF process and the windows of one client, one to each route it uses. *)
(* Whether a row exists, a password fits or an INSERT collides is arbitrary. *)
(***************************************************************************)
EXTENDS ArgonGate

CONSTANTS MaxInflight,   \* MAX_INFLIGHT_AUTH
          AuthMax,       \* RATE_LIMIT_AUTH_MAX
          Throttled      \* the throttled routes the client uses

ASSUME RouteBounds == MaxInflight \in Nat \ {0} /\ AuthMax \in Nat \ {0}
ASSUME Routes == Throttled \subseteq {"login", "register"}

Kinds == Throttled \union {"change"}

VARIABLES
  req,        \* the request each call belongs to, if any, and where it stands:
              \* "hash" is changePassword's second gate
  inflight,   \* inflightAuth
  window,     \* Redis: each key's counter, and whether it has been given a TTL
  local,      \* localWindows: each key's count, 0 if there is no entry or it is over
  redisUp,    \* Redis answers (external)
  burst       \* history: attempts let through since either window of the key ended

limits    == <<window, local, redisUp, burst>>
routeVars == <<req, inflight, limits>>
allVars   == <<vars, routeVars>>

None     == [kind |-> "none", at |-> "none"]
Requests == [kind : Kinds, at : {"core", "gate", "hash"}] \union {None}

RouteTypeOK ==
  /\ req \in [Calls -> Requests]
  /\ inflight \in Nat /\ redisUp \in BOOLEAN
  /\ window \in [Throttled -> [n : Nat, armed : BOOLEAN]]
  /\ local \in [Throttled -> Nat] /\ burst \in [Throttled -> Nat]

RouteInit ==
  /\ Init
  /\ req = [c \in Calls |-> None]
  /\ inflight = 0 /\ redisUp = TRUE
  /\ window = [k \in Throttled |-> [n |-> 0, armed |-> FALSE]]
  /\ local = [k \in Throttled |-> 0] /\ burst = [k \in Throttled |-> 0]
-----------------------------------------------------------------------------
(* rate-limit.ts: overLimitAuth.  Counters past the limit are not told apart. *)

More(n) == IF n > AuthMax THEN n ELSE n + 1

\* INCR, and EXPIRE by the attempt that made the counter.
CountInRedis(k) ==
  /\ redisUp
  /\ window' = [window EXCEPT ![k] = [n |-> More(@.n), armed |-> @.armed \/ @.n = 0]]
  /\ UNCHANGED <<local, redisUp>>

\* INCR is done and Redis goes away before EXPIRE is, or before the answer to
\* INCR is back: the attempt counts in the local window too.
CountTwice(k) ==
  /\ redisUp /\ redisUp' = FALSE
  /\ window' = [window EXCEPT ![k].n = More(@)]
  /\ local' = [local EXCEPT ![k] = More(@)]

\* Slip: the catch clause of overLimitAuth returns false, as overLimit's does.
FailOpen(k) == ~ redisUp /\ UNCHANGED <<window, local, redisUp>>

\* Redis does not answer: the process-local window.
CountLocally(k) ==
  /\ ~ redisUp
  /\ local' = [local EXCEPT ![k] = More(@)]
  /\ UNCHANGED <<window, redisUp>>

\* The verdict on the attempt: the count of the window it was answered by.
Passes(k) == IF redisUp' THEN window'[k].n <= AuthMax ELSE local'[k] <= AuthMax

\* overLimitAuth let the attempt through (v), or did not.
Throttle(k, v) ==
  /\ CountInRedis(k) \/ CountTwice(k) \/ CountLocally(k)
  /\ v <=> Passes(k)
  /\ burst' = [burst EXCEPT ![k] = IF v /\ @ <= 2 * AuthMax THEN @ + 1 ELSE @]
-----------------------------------------------------------------------------
(* routes/auth.ts: the BFF's handlers.                                      *)

Free(c)        == req[c] = None /\ stage[c] \in Settled
Forwarded(c, k) == req' = [req EXCEPT ![c] = [kind |-> k, at |-> "core"]]

\* /auth/login and /auth/register: 429, 503, or on to svc-core.
TooMany(c, k) ==
  /\ Free(c) /\ Throttle(k, FALSE)
  /\ UNCHANGED <<vars, req, inflight>>
AuthBusy(c, k) ==
  /\ Free(c) /\ Throttle(k, TRUE)
  /\ inflight >= MaxInflight
  /\ UNCHANGED <<vars, req, inflight>>
LetThrough(c, k) ==
  /\ Free(c) /\ Throttle(k, TRUE)
  /\ inflight < MaxInflight
  /\ inflight' = inflight + 1
  /\ Forwarded(c, k) /\ UNCHANGED vars

\* /auth/change-password has neither a window nor a place under the ceiling.
ChangeAsked(c) ==
  /\ Free(c) /\ Forwarded(c, "change")
  /\ UNCHANGED <<vars, inflight, limits>>

Holds(r) == r.kind \in Throttled

\* Slip: the place is given back after the handler's answer, not in `finally'.
AnsweredOk(c) ==
  /\ req' = [req EXCEPT ![c] = None]
  /\ inflight' = IF Holds(req[c]) /\ stage[c] = "done" THEN inflight - 1 ELSE inflight
  /\ UNCHANGED limits

\* The answer of svc-core, or its error, is passed on; the `finally' of the
\* handlers that took a place gives it back.
Answered(c) ==
  /\ req' = [req EXCEPT ![c] = None]
  /\ inflight' = IF Holds(req[c]) THEN inflight - 1 ELSE inflight
  /\ UNCHANGED limits
-----------------------------------------------------------------------------
(* auth.service.ts and the gate.                                            *)

\* A request turned down before it costs anything: an invalid field, or an
\* account without a password to change.
Rejected(c) == req[c].at = "core" /\ Answered(c) /\ UNCHANGED vars

Enters(c, from, to) ==
  /\ req[c].at = from
  /\ AcquireFree(c) \/ AcquireRefused(c) \/ AcquireWait(c)
  /\ req' = [req EXCEPT ![c].at = to]
  /\ UNCHANGED <<inflight, limits>>

\* hashPassword of register, verifyPassword of login (of the dummy hash when
\* there is no row, or none with a password) and of changePassword.
EnterGate(c) == Enters(c, "core", "gate")

\* changePassword: the current password was right, and the new one is hashed.
EnterAgain(c) == req[c].kind = "change" /\ stage[c] = "done" /\ Enters(c, "gate", "hash")

\* The gate refused, or Argon2 is through and so is the request.
Answer(c) ==
  /\ req[c].at \in {"gate", "hash"} /\ stage[c] \in Settled
  /\ Answered(c) /\ UNCHANGED vars

Inside(c) == (Begin(c) \/ Finish(c) \/ QueueTimeout(c)) /\ UNCHANGED routeVars
-----------------------------------------------------------------------------
(* Redis and time (external).                                               *)


\* The key expires if it was given a TTL; it may be evicted in any case.
WindowEnds(k) ==
  /\ window[k].n > 0
  /\ window' = [window EXCEPT ![k] = [n |-> 0, armed |-> FALSE]]
  /\ burst' = [burst EXCEPT ![k] = 0]
  /\ UNCHANGED <<vars, req, inflight, local, redisUp>>

LocalEnds(k) ==
  /\ local[k] > 0
  /\ local' = [local EXCEPT ![k] = 0]
  /\ burst' = [burst EXCEPT ![k] = 0]
  /\ UNCHANGED <<vars, req, inflight, window, redisUp>>

Flips ==
  /\ redisUp' = ~ redisUp
  /\ UNCHANGED <<vars, req, inflight, window, local, burst>>

Serve(c) == Rejected(c) \/ EnterGate(c) \/ EnterAgain(c) \/ Answer(c) \/ Inside(c)

RouteNext ==
  \/ \E c \in Calls :
       \/ \E k \in Throttled : TooMany(c, k) \/ AuthBusy(c, k) \/ LetThrough(c, k)
       \/ ChangeAsked(c) \/ Serve(c)
  \/ \E k \in Throttled : WindowEnds(k) \/ LocalEnds(k)
  \/ Flips

RouteSpec == RouteInit /\ [][RouteNext]_allVars

\* svc-core goes on with what it has begun; clients arrive only if they like.
Progress == \A c \in Calls :
  WF_allVars(Rejected(c) \/ EnterGate(c) \/ Answer(c)) /\ WF_allVars(Inside(c))

RouteFair == RouteSpec /\ Progress
-----------------------------------------------------------------------------
\* However attempts are split between Redis and the process's own window, and
\* whatever fails between INCR and EXPIRE, no more attempts pass than the two
\* windows allow together (rate-limit.ts:27-29: must NOT fail open).
ThrottleHolds == \A k \in Throttled : burst[k] <= 2 * AuthMax

\* The ceiling's counter is the number of logins and registrations that wait for
\* svc-core, through refusals, timeouts in the queue and errors: no place leaks,
\* none is given back twice (routes/auth.ts:25-29).
InflightExact ==
  /\ inflight = Cardinality({c \in Calls : Holds(req[c])})
  /\ inflight <= MaxInflight

\* Every request that got past the BFF is answered, queue full or not.
RequestsAnswered == \A c \in Calls : []<>(req[c] = None)
=============================================================================
