----------------------------- MODULE RateLimiter ----------------------------
(***************************************************************************)
(* The gate of Kontrak A (internal/server/auth.go): gRPC replicas share,   *)
(* in Redis, one counter per caller and window of time, and each request   *)
(* is a sequence of a clock reading, an INCR, an EXPIRE for the first one, *)
(* and, when over budget, a second clock reading for retry-after.          *)
(*                                                                         *)
(* Counters of different callers never meet, so one caller is modelled.    *)
(* A request belongs to one replica, and the replicas' clocks differ.      *)
(* Redis runs on the clock `now`; a key with a TTL vanishes in time.       *)
(***************************************************************************)
EXTENDS Naturals, FiniteSets

CONSTANTS
    Request,    \* the requests of the caller
    Offset,     \* Offset[r]: how far the clock of r's replica is ahead of now
    Window,     \* rate_limit.window, in units of time
    Requests,   \* rate_limit.requests
    Second,     \* one second, in the same units
    MaxDelay,   \* longest time from a request's clock reading to its INCR
    MaxTime,    \* bound on now
    Methods     \* Methods[r]: "submit" or "get"

Never == MaxTime + 2 * Window + 1   \* the expiry of a key without a TTL

ASSUME LimiterAssumption ==
    /\ IsFiniteSet(Request)
    /\ Offset \in [Request -> 0..2 * Window]
    /\ {Window, Requests, Second} \subseteq Nat \ {0}
    /\ MaxDelay \in Nat /\ MaxTime \in Nat
    /\ Methods \in [Request -> {"submit", "get"}]

VARIABLES
    now,        \* the time
    count,      \* count[k]: the counter of window k, 0 if the key is gone
    expireAt,   \* expireAt[k]: when the key of window k vanishes
    rpc,        \* where each request is
    win,        \* win[r]: the windowStart of request r
    age,        \* age[r]: time since r read the clock, while it has not sent INCR
    n,          \* n[r]: what INCR made the counter for r, 0 if it did not run
    hint        \* hint[r]: retry-after of a denied request, in seconds

limiterVars == <<now, count, expireAt, rpc, win, age, n, hint>>

States == {"new", "incr", "expire", "decide", "passed", "open", "denied",
           "unlimited", "unauthenticated"}

AllWindows == 0..((MaxTime + 2 * Window) \div Window)

Clock(r) == now + Offset[r]

\* The requests in one of the states that count in window k.
In(k, states) == {r \in Request : win[r] = k /\ rpc[r] \in states}

Goto(r, state) == rpc' = [rpc EXCEPT ![r] = state]

\* authenticate refuses the request before it reaches the limiter: no metadata,
\* no key, a key nobody registered.
Refuse(r) ==
    /\ rpc[r] = "new"
    /\ Goto(r, "unauthenticated")
    /\ UNCHANGED <<now, count, expireAt, win, age, n, hint>>

\* Only SubmitDocument is limited.
PassGet(r) ==
    /\ rpc[r] = "new"
    /\ Methods[r] = "get"
    /\ Goto(r, "unlimited")
    /\ UNCHANGED <<now, count, expireAt, win, age, n, hint>>

\* Mutant of Allow: the key is made of the time itself.
AllowByTime(r) ==
    /\ rpc[r] = "new"
    /\ Methods[r] = "submit"
    /\ win' = [win EXCEPT ![r] = Clock(r)]
    /\ Goto(r, "incr")
    /\ UNCHANGED <<now, count, expireAt, age, n, hint>>

\* Allow reads the clock and names the counter.
Allow(r) ==
    /\ rpc[r] = "new"
    /\ Methods[r] = "submit"
    /\ win' = [win EXCEPT ![r] = Clock(r) \div Window]
    /\ Goto(r, "incr")
    /\ UNCHANGED <<now, count, expireAt, age, n, hint>>

\* INCR creates the key when it is gone; its answer decides about EXPIRE.
Incr(r) ==
    /\ rpc[r] = "incr"
    /\ count' = [count EXCEPT ![win[r]] = @ + 1]
    /\ n' = [n EXCEPT ![r] = count[win[r]] + 1]
    /\ age' = [age EXCEPT ![r] = 0]
    /\ Goto(r, IF count[win[r]] = 0 THEN "expire" ELSE "decide")
    /\ UNCHANGED <<now, expireAt, win, hint>>

\* Redis is not there (a nil client, an error, an answer lost after INCR): the
\* request is allowed.
FailOpen(r) ==
    /\ rpc[r] = "incr"
    /\ \/ UNCHANGED <<count, n>>
       \/ /\ count' = [count EXCEPT ![win[r]] = @ + 1]
          /\ n' = [n EXCEPT ![r] = count[win[r]] + 1]
    /\ age' = [age EXCEPT ![r] = 0]
    /\ Goto(r, "open")
    /\ UNCHANGED <<now, expireAt, win, hint>>

\* Mutant of Expire: the key lives for one window.
ExpireSoon(r) ==
    /\ rpc[r] = "expire"
    /\ expireAt' = [expireAt EXCEPT ![win[r]] = now + Window]
    /\ Goto(r, "decide")
    /\ UNCHANGED <<now, count, win, age, n, hint>>

Expire(r) ==
    /\ rpc[r] = "expire"
    /\ expireAt' = IF count[win[r]] > 0
                     THEN [expireAt EXCEPT ![win[r]] = now + 2 * Window]
                     ELSE expireAt
    /\ Goto(r, "decide")
    /\ UNCHANGED <<now, count, win, age, n, hint>>

\* The failure is logged; the key stays without a TTL.
ExpireFails(r) ==
    /\ rpc[r] = "expire"
    /\ Goto(r, "decide")
    /\ UNCHANGED <<now, count, expireAt, win, age, n, hint>>

\* Mutant of RetryAfter: rounded down.
RetryAfterFloor(r) ==
    LET end  == (win[r] + 1) * Window
        down == (IF end > Clock(r) THEN end - Clock(r) ELSE 0) \div Second
    IN  IF down < 1 THEN 1 ELSE down

\* retryAfter of Allow, rounded by authenticate to whole seconds, at least one.
RetryAfter(r) ==
    LET end  == (win[r] + 1) * Window
        left == IF end > Clock(r) THEN end - Clock(r) ELSE 0
        up   == (left + Second - 1) \div Second
    IN  IF up < 1 THEN 1 ELSE up

\* Mutant of Decide: >= for >.
DecideOneLess(r) ==
    /\ rpc[r] = "decide"
    /\ IF n[r] >= Requests
         THEN Goto(r, "denied") /\ hint' = [hint EXCEPT ![r] = RetryAfter(r)]
         ELSE Goto(r, "passed") /\ UNCHANGED hint
    /\ UNCHANGED <<now, count, expireAt, win, age, n>>

Decide(r) ==
    /\ rpc[r] = "decide"
    /\ IF n[r] > Requests
         THEN Goto(r, "denied") /\ hint' = [hint EXCEPT ![r] = RetryAfter(r)]
         ELSE Goto(r, "passed") /\ UNCHANGED hint
    /\ UNCHANGED <<now, count, expireAt, win, age, n>>

\* Time passes; no INCR is later than MaxDelay, and Redis drops expired keys.
Elapse ==
    /\ now < MaxTime
    /\ \A r \in Request : rpc[r] = "incr" => age[r] < MaxDelay
    /\ now' = now + 1
    /\ age' = [r \in Request |-> IF rpc[r] = "incr" THEN age[r] + 1 ELSE age[r]]
    /\ count' = [k \in AllWindows |-> IF expireAt[k] <= now + 1 THEN 0 ELSE count[k]]
    /\ expireAt' = [k \in AllWindows |-> IF expireAt[k] <= now + 1 THEN Never ELSE expireAt[k]]
    /\ UNCHANGED <<rpc, win, n, hint>>

LimiterInit ==
    /\ now = 0
    /\ count = [k \in AllWindows |-> 0]
    /\ expireAt = [k \in AllWindows |-> Never]
    /\ rpc = [r \in Request |-> "new"]
    /\ win = [r \in Request |-> 0]
    /\ age = [r \in Request |-> 0]
    /\ n = [r \in Request |-> 0]
    /\ hint = [r \in Request |-> 0]

LimiterNext ==
    \/ \E r \in Request :
          \/ Refuse(r) \/ PassGet(r) \/ Allow(r) \/ Incr(r) \/ FailOpen(r)
          \/ Expire(r) \/ ExpireFails(r) \/ Decide(r)
    \/ Elapse

LimiterSpec == LimiterInit /\ [][LimiterNext]_limiterVars

(***************************************************************************)
(* Properties.                                                             *)
(***************************************************************************)

\* Every variable has its type.
LimiterTypeOK ==
    /\ now \in 0..MaxTime
    /\ count \in [AllWindows -> 0..Cardinality(Request)]
    /\ expireAt \in [AllWindows -> 0..Never]
    /\ rpc \in [Request -> States]
    /\ win \in [Request -> AllWindows]
    /\ age \in [Request -> 0..MaxDelay]
    /\ n \in [Request -> 0..Cardinality(Request)]
    /\ hint \in [Request -> Nat]

\* "N replicas do not multiply the budget" (RateLimiter), and "Window*2
\* comfortably covers clock skew" (Allow): while clocks and delays stay within
\* one window of each other, no window's counter is dropped under a replica that
\* still counts in it, and no more than Requests requests pass on a counter.
WithinBudget ==
    \A k \in AllWindows :
        Cardinality({r \in In(k, {"expire", "decide", "passed"}) : n[r] <= Requests}) <= Requests

\* A request is denied only when the whole budget of its window has gone to
\* others, be it to some whose answer from Redis was lost and who were let
\* through for that.
NoSpuriousDenial ==
    \A k \in AllWindows :
        In(k, {"denied"}) # {} =>
            Cardinality({r \in In(k, {"expire", "decide", "passed", "open"}) :
                            n[r] \in 1..Requests}) >= Requests

\* A caller that waits as long as retry-after says finds, at the same replica, a
\* new window: the hint is never too short and, unless it is the least of one
\* second, less than a second too long.
HintReachesNextWindow ==
    [][\A r \in Request : rpc'[r] = "denied" /\ rpc[r] # "denied" =>
          LET back == Clock(r) + hint'[r] * Second
              end  == (win[r] + 1) * Window
          IN  /\ back \div Window > win[r]
              /\ hint'[r] = 1 \/ back < end + Second]_limiterVars
=============================================================================
