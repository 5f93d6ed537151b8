------------------------- MODULE RateLimiterProofs --------------------------
(***************************************************************************)
(* Theorems about RateLimiter, for every budget, window and number of      *)
(* requests and replicas.                                                  *)
(***************************************************************************)
EXTENDS RateLimiter, FiniteSetTheorems, TLAPS

(***************************************************************************)
(* Arithmetic and counting.                                                *)
(***************************************************************************)

LEMMA DivBounds ==
    ASSUME NEW a \in Nat, NEW w \in Nat \ {0}
    PROVE  /\ a \div w \in Nat
           /\ (a \div w) * w <= a
           /\ a < (a \div w + 1) * w
OBVIOUS

LEMMA DivMonotone ==
    ASSUME NEW a \in Nat, NEW b \in Nat, a <= b, NEW w \in Nat \ {0}
    PROVE  a \div w <= b \div w
OBVIOUS

LEMMA DivAbove ==
    ASSUME NEW a \in Nat, NEW k \in Nat, NEW w \in Nat \ {0}, (k + 1) * w <= a
    PROVE  a \div w > k
OBVIOUS

\* Rounding up to whole units.
LEMMA RoundedUp ==
    ASSUME NEW a \in Nat, NEW w \in Nat \ {0}
    PROVE  LET u == (a + w - 1) \div w IN u \in Nat /\ a <= u * w /\ u * w <= a + w - 1
<1> DEFINE u == (a + w - 1) \div w
<1>1. a + w - 1 \in Nat
  OBVIOUS
<1>2. u \in Nat /\ u * w <= a + w - 1 /\ a + w - 1 < (u + 1) * w
  BY <1>1, DivBounds
<1>3. (u + 1) * w = u * w + w
  BY <1>2
<1> HIDE DEF u
<1>4. u * w \in Nat
  BY <1>2
<1>5. a <= u * w
  BY <1>2, <1>3, <1>4
<1> QED BY <1>2, <1>5 DEF u

\* As many elements as there are values they take, one each.
LEMMA ValuesTaken ==
    ASSUME NEW S, IsFiniteSet(S), NEW k \in Nat, NEW f \in [1..k -> S],
           \A u, v \in 1..k : f[u] = f[v] => u = v
    PROVE  k <= Cardinality(S)
<1>1. f \in Injection(1..k, S)
  BY DEF Injection, IsInjective
<1>2. Cardinality(1..k) <= Cardinality(S)
  BY <1>1, FS_Injection
<1>3. Cardinality(1..k) = k
  BY FS_Interval
<1> QED BY <1>2, <1>3

\* No more elements than values, where no two have the same one.
LEMMA ValuesDistinct ==
    ASSUME NEW S, NEW k \in Nat, NEW f \in [S -> 1..k],
           \A x, y \in S : f[x] = f[y] => x = y
    PROVE  Cardinality(S) <= k
<1>1. f \in Injection(S, 1..k)
  BY DEF Injection, IsInjective
<1>2. IsFiniteSet(1..k) /\ Cardinality(1..k) = k
  BY FS_Interval
<1>3. Cardinality(S) <= Cardinality(1..k)
  BY <1>1, <1>2, FS_Injection
<1> QED BY <1>2, <1>3

(***************************************************************************)
(* The inductive invariant, first what holds whatever the clocks do.       *)
(***************************************************************************)

\* LimiterTypeOK, without the bounds on the counters.
TypeInv ==
    /\ now \in 0..MaxTime
    /\ count \in [AllWindows -> Nat]
    /\ expireAt \in [AllWindows -> 0..Never]
    /\ rpc \in [Request -> States]
    /\ win \in [Request -> AllWindows]
    /\ age \in [Request -> 0..MaxDelay]
    /\ n \in [Request -> Nat]
    /\ hint \in [Request -> Nat]

\* What INCR answered, by where a request is.
Counted ==
    \A r \in Request :
        /\ n[r] > 0 => rpc[r] \in {"expire", "decide", "passed", "open", "denied"}
        /\ rpc[r] \in {"expire", "decide", "passed", "denied"} => n[r] > 0
        /\ rpc[r] = "denied" => n[r] > Requests

\* Every count up to the present one, and up to any that was answered, went to
\* a request of that window.
Covered ==
    /\ \A k \in AllWindows : \A v \in 1..count[k] : \E q \in Request : win[q] = k /\ n[q] = v
    /\ \A r \in Request : \A v \in 1..n[r] : \E q \in Request : win[q] = win[r] /\ n[q] = v

CountInv == TypeInv /\ Counted /\ Covered

LEMMA Constants ==
    /\ Window \in Nat \ {0} /\ Requests \in Nat \ {0} /\ Second \in Nat \ {0}
    /\ MaxDelay \in Nat /\ MaxTime \in Nat /\ Never \in Nat /\ MaxTime + 2 * Window < Never
    /\ \A r \in Request : Offset[r] \in Nat /\ Offset[r] <= 2 * Window
    /\ 0 \in AllWindows /\ AllWindows \subseteq Nat
<1>1. /\ Window \in Nat \ {0} /\ Requests \in Nat \ {0} /\ Second \in Nat \ {0}
      /\ MaxDelay \in Nat /\ MaxTime \in Nat
  BY LimiterAssumption
<1>2. Never \in Nat /\ MaxTime + 2 * Window < Never
  BY <1>1 DEF Never
<1>3. \A r \in Request : Offset[r] \in Nat /\ Offset[r] <= 2 * Window
  BY <1>1, LimiterAssumption
<1>4. (MaxTime + 2 * Window) \div Window \in Nat
  BY <1>1, DivBounds
<1>5. 0 \in AllWindows /\ AllWindows \subseteq Nat
  BY <1>4 DEF AllWindows
<1> QED BY <1>1, <1>2, <1>3, <1>5

\* The window of any clock that is read.
LEMMA ClockWindow ==
    ASSUME TypeInv, NEW r \in Request
    PROVE  /\ Clock(r) \in Nat
           /\ Clock(r) \div Window \in AllWindows
<1>1. now \in Nat /\ now <= MaxTime
  BY Constants DEF TypeInv
<1>2. Clock(r) \in Nat /\ Clock(r) <= MaxTime + 2 * Window
  BY <1>1, Constants DEF Clock
<1>3. MaxTime + 2 * Window \in Nat
  BY Constants
<1>4. Clock(r) \div Window \in Nat /\ Clock(r) \div Window <= (MaxTime + 2 * Window) \div Window
  BY <1>2, <1>3, Constants, DivBounds, DivMonotone
<1>5. (MaxTime + 2 * Window) \div Window \in Nat
  BY <1>3, Constants, DivBounds
<1> QED BY <1>2, <1>4, <1>5 DEF AllWindows

\* authenticate rounds retry-after up to whole seconds.
LEMMA HintFacts ==
    ASSUME TypeInv, NEW r \in Request
    PROVE  /\ RetryAfter(r) \in Nat \ {0}
           /\ (win[r] + 1) * Window \in Nat
           /\ (win[r] + 1) * Window <= Clock(r) + RetryAfter(r) * Second
           /\ RetryAfter(r) = 1 \/ Clock(r) + RetryAfter(r) * Second < (win[r] + 1) * Window + Second
<1> DEFINE end  == (win[r] + 1) * Window
           c    == Clock(r)
           left == IF end > c THEN end - c ELSE 0
           up   == (left + Second - 1) \div Second
           h    == IF up < 1 THEN 1 ELSE up
<1>1. win[r] \in Nat /\ c \in Nat /\ Second \in Nat \ {0} /\ Window \in Nat
  BY ClockWindow, Constants DEF TypeInv
<1>2. end \in Nat
  BY <1>1
<1>3. RetryAfter(r) = h
  BY DEF RetryAfter
<1> HIDE DEF end, c
<1>4. left \in Nat /\ end <= c + left /\ (left # 0 => c + left = end)
  BY <1>1, <1>2
<1> HIDE DEF left
<1>5. up \in Nat /\ left <= up * Second /\ up * Second <= left + Second - 1
  BY <1>1, <1>4, RoundedUp
<1> HIDE DEF up
<1>6. h \in Nat \ {0} /\ (h = up \/ up = 0)
  BY <1>5
<1>7. left <= h * Second
  <2>1. CASE h = up
    BY <1>5, <2>1
  <2>2. CASE up = 0
    <3>1. left <= 0
      BY <1>5, <2>2, <1>1
    <3>2. h * Second \in Nat
      BY <1>1, <1>6
    <3> QED BY <1>4, <3>1, <3>2
  <2> QED BY <1>6, <2>1, <2>2
<1>8. h = 1 \/ c + h * Second < end + Second
  <2> SUFFICES ASSUME h # 1 PROVE c + h * Second < end + Second
    OBVIOUS
  <2>1. h = up
    BY <1>5
  <2>2. left # 0
    <3> SUFFICES ASSUME left = 0 PROVE FALSE
      OBVIOUS
    <3>1. up * Second < Second
      BY <1>1, <1>5
    <3>2. up > 1
      BY <1>5, <2>1
    <3> QED BY <1>1, <1>5, <3>1, <3>2
  <2>3. up * Second \in Nat
    BY <1>1, <1>5
  <2> QED BY <1>1, <1>2, <1>4, <1>5, <2>1, <2>2, <2>3
<1>9. end <= c + h * Second
  <2>1. h * Second \in Nat
    BY <1>1, <1>6
  <2> QED BY <1>1, <1>2, <1>4, <1>7, <2>1
<1> QED BY <1>2, <1>3, <1>6, <1>8, <1>9 DEF end, c

LEMMA CountInvInit == LimiterInit => CountInv
<1> SUFFICES ASSUME LimiterInit PROVE CountInv
  OBVIOUS
<1>1. TypeInv
  BY Constants DEF LimiterInit, TypeInv, States
<1>2. Counted /\ Covered
  BY DEF LimiterInit, Counted, Covered
<1> QED BY <1>1, <1>2 DEF CountInv

LEMMA TypeInvStep == TypeInv /\ [LimiterNext]_limiterVars => TypeInv'
<1> SUFFICES ASSUME TypeInv, [LimiterNext]_limiterVars PROVE TypeInv'
  OBVIOUS
<1> USE DEF TypeInv
<1>1. CASE UNCHANGED limiterVars
  BY <1>1 DEF limiterVars
<1>2. ASSUME NEW r \in Request, Refuse(r) \/ PassGet(r) \/ ExpireFails(r)
      PROVE  TypeInv'
  BY <1>2 DEF Refuse, PassGet, ExpireFails, Goto, States
<1>3. ASSUME NEW r \in Request, Allow(r)
      PROVE  TypeInv'
  <2>1. Clock(r) \div Window \in AllWindows
    BY ClockWindow
  <2> QED BY <1>3, <2>1 DEF Allow, Goto, States
<1>4. ASSUME NEW r \in Request, Incr(r) \/ FailOpen(r)
      PROVE  TypeInv'
  <2>1. win[r] \in AllWindows /\ count[win[r]] \in Nat
    OBVIOUS
  <2>2. 0 \in 0..MaxDelay
    BY Constants
  <2> QED BY <1>4, <2>1, <2>2 DEF Incr, FailOpen, Goto, States
<1>5. ASSUME NEW r \in Request, Expire(r)
      PROVE  TypeInv'
  <2>1. now + 2 * Window \in 0..Never
    BY Constants
  <2> QED BY <1>5, <2>1 DEF Expire, Goto, States
<1>6. ASSUME NEW r \in Request, Decide(r)
      PROVE  TypeInv'
  <2>1. RetryAfter(r) \in Nat
    BY HintFacts
  <2> QED BY <1>6, <2>1 DEF Decide, Goto, States
<1>7. CASE Elapse
  <2>1. now + 1 \in 0..MaxTime /\ now' = now + 1
    BY <1>7, Constants DEF Elapse
  <2>2. age' \in [Request -> 0..MaxDelay]
    <3>1. \A r \in Request : (IF rpc[r] = "incr" THEN age[r] + 1 ELSE age[r]) \in 0..MaxDelay
      BY <1>7, Constants DEF Elapse
    <3> QED BY <1>7, <3>1 DEF Elapse
  <2>3. count' \in [AllWindows -> Nat] /\ expireAt' \in [AllWindows -> 0..Never]
    BY <1>7, Constants DEF Elapse
  <2> QED BY <1>7, <2>1, <2>2, <2>3 DEF Elapse
<1> QED BY <1>1, <1>2, <1>3, <1>4, <1>5, <1>6, <1>7 DEF LimiterNext

\* INCR has run for a request: its answer is one more than the counter was.
LEMMA IncrCovers ==
    ASSUME CountInv, NEW r \in Request, n[r] = 0, win' = win,
           count' = [count EXCEPT ![win[r]] = @ + 1],
           n' = [n EXCEPT ![r] = count[win[r]] + 1]
    PROVE  Covered'
<1>1. /\ n \in [Request -> Nat] /\ count \in [AllWindows -> Nat] /\ win \in [Request -> AllWindows]
  BY DEF CountInv, TypeInv
<1>2. PICK c \in Nat : c = count[win[r]]
  BY <1>1
<1>3. /\ \A q \in Request : n'[q] = IF q = r THEN c + 1 ELSE n[q]
      /\ \A k \in AllWindows : count'[k] = IF k = win[r] THEN c + 1 ELSE count[k]
  BY <1>1, <1>2
<1>4. ASSUME NEW k \in AllWindows, NEW v \in Nat \ {0}, NEW q \in Request, win[q] = k, n[q] = v
      PROVE  \E x \in Request : win[x] = k /\ n'[x] = v
  <2>1. q # r
    BY <1>4
  <2> QED BY <1>3, <1>4, <2>1
<1>5. ASSUME NEW v \in 1..(c + 1)
      PROVE  \E q \in Request : win[q] = win[r] /\ n'[q] = v
  <2>1. CASE v = c + 1
    BY <1>3, <2>1
  <2>2. CASE v # c + 1
    <3>1. v \in 1..c /\ v \in Nat \ {0}
      BY <2>2
    <3>2. PICK q \in Request : win[q] = win[r] /\ n[q] = v
      BY <1>1, <1>2, <3>1 DEF CountInv, Covered
    <3> QED BY <1>1, <1>4, <3>1, <3>2
  <2> QED BY <2>1, <2>2
<1>6. ASSUME NEW k \in AllWindows, NEW v \in 1..count'[k]
      PROVE  \E q \in Request : win[q] = k /\ n'[q] = v
  <2>1. CASE k = win[r]
    BY <1>3, <1>5, <1>6, <2>1
  <2>2. CASE k # win[r]
    <3>1. v \in 1..count[k] /\ v \in Nat \ {0}
      BY <1>1, <1>3, <1>6, <2>2
    <3>2. PICK q \in Request : win[q] = k /\ n[q] = v
      BY <3>1 DEF CountInv, Covered
    <3> QED BY <1>4, <3>1, <3>2
  <2> QED BY <2>1, <2>2
<1>7. ASSUME NEW x \in Request, NEW v \in 1..n'[x]
      PROVE  \E q \in Request : win[q] = win[x] /\ n'[q] = v
  <2>1. CASE x = r
    BY <1>3, <1>5, <1>7, <2>1
  <2>2. CASE x # r
    <3>1. v \in 1..n[x] /\ v \in Nat \ {0}
      BY <1>1, <1>3, <1>7, <2>2
    <3>2. PICK q \in Request : win[q] = win[x] /\ n[q] = v
      BY <3>1 DEF CountInv, Covered
    <3> QED BY <1>1, <1>4, <3>1, <3>2
  <2> QED BY <2>1, <2>2
<1> QED BY <1>6, <1>7 DEF Covered

LEMMA CountedStep == CountInv /\ [LimiterNext]_limiterVars => Counted' /\ Covered'
<1> SUFFICES ASSUME CountInv, [LimiterNext]_limiterVars PROVE Counted' /\ Covered'
  OBVIOUS
<1>1. /\ n \in [Request -> Nat] /\ count \in [AllWindows -> Nat] /\ win \in [Request -> AllWindows]
      /\ rpc \in [Request -> States] /\ Requests \in Nat \ {0}
  BY Constants DEF CountInv, TypeInv
<1>2. Counted /\ Covered
  BY DEF CountInv
<1>3. CASE UNCHANGED limiterVars
  BY <1>2, <1>3 DEF limiterVars, Counted, Covered
<1>4. ASSUME NEW r \in Request,
             Refuse(r) \/ PassGet(r) \/ Expire(r) \/ ExpireFails(r) \/ Decide(r)
      PROVE  Counted' /\ Covered'
  <2>1. UNCHANGED <<count, win, n>>
    BY <1>4 DEF Refuse, PassGet, Expire, ExpireFails, Decide
  <2>2. Covered'
    BY <1>2, <2>1 DEF Covered
  <2>3. \A q \in Request : q # r => rpc'[q] = rpc[q]
    BY <1>1, <1>4 DEF Refuse, PassGet, Expire, ExpireFails, Decide, Goto
  <2>4. \/ rpc[r] = "new" /\ rpc'[r] \in {"unauthenticated", "unlimited"}
        \/ rpc[r] = "expire" /\ rpc'[r] = "decide"
        \/ rpc[r] = "decide" /\ n[r] > Requests /\ rpc'[r] = "denied"
        \/ rpc[r] = "decide" /\ rpc'[r] = "passed"
    BY <1>1, <1>4 DEF Refuse, PassGet, Expire, ExpireFails, Decide, Goto
  <2>5. Counted'
    BY <1>1, <1>2, <2>1, <2>3, <2>4 DEF Counted
  <2> QED BY <2>2, <2>5
<1>5. ASSUME NEW r \in Request, Allow(r)
      PROVE  Counted' /\ Covered'
  <2>1. UNCHANGED <<count, n>> /\ rpc[r] = "new"
    BY <1>5 DEF Allow
  <2>2. n[r] = 0
    BY <1>1, <1>2, <2>1 DEF Counted
  <2>3. /\ \A q \in Request : q # r => rpc'[q] = rpc[q] /\ win'[q] = win[q]
        /\ rpc'[r] = "incr"
    BY <1>1, <1>5 DEF Allow, Goto
  <2>4. Counted'
    BY <1>2, <2>1, <2>2, <2>3 DEF Counted
  <2>5. \A q \in Request : n[q] # 0 => win'[q] = win[q]
    BY <2>2, <2>3
  <2>6. ASSUME NEW k \in AllWindows, NEW v \in 1..count[k]
        PROVE  \E q \in Request : win'[q] = k /\ n[q] = v
    BY <1>1, <1>2, <2>5, <2>6 DEF Covered
  <2>7. ASSUME NEW x \in Request, NEW v \in 1..n[x]
        PROVE  \E q \in Request : win'[q] = win'[x] /\ n[q] = v
    <3>1. n[x] # 0
      BY <1>1, <2>7
    <3>2. PICK q \in Request : win[q] = win[x] /\ n[q] = v
      BY <1>2, <2>7 DEF Covered
    <3>3. n[q] # 0
      BY <2>7, <3>2
    <3> QED BY <2>5, <3>1, <3>2, <3>3
  <2> QED BY <2>1, <2>4, <2>6, <2>7 DEF Covered
<1>6. ASSUME NEW r \in Request, Incr(r) \/ FailOpen(r)
      PROVE  Counted' /\ Covered'
  <2>1. rpc[r] = "incr" /\ win' = win
    BY <1>6 DEF Incr, FailOpen
  <2>2. n[r] = 0
    BY <1>1, <1>2, <2>1 DEF Counted
  <2>3. \/ UNCHANGED <<count, n>> /\ rpc' = [rpc EXCEPT ![r] = "open"]
        \/ /\ count' = [count EXCEPT ![win[r]] = @ + 1]
           /\ n' = [n EXCEPT ![r] = count[win[r]] + 1]
           /\ \E s \in {"expire", "decide", "open"} : rpc' = [rpc EXCEPT ![r] = s]
    BY <1>6 DEF Incr, FailOpen, Goto
  <2>4. CASE UNCHANGED <<count, n>> /\ rpc' = [rpc EXCEPT ![r] = "open"]
    BY <1>1, <1>2, <2>1, <2>2, <2>4 DEF Counted, Covered
  <2>5. CASE /\ count' = [count EXCEPT ![win[r]] = @ + 1]
             /\ n' = [n EXCEPT ![r] = count[win[r]] + 1]
             /\ \E s \in {"expire", "decide", "open"} : rpc' = [rpc EXCEPT ![r] = s]
    <3>1. Covered'
      BY <2>1, <2>2, <2>5, IncrCovers
    <3>2. PICK s \in {"expire", "decide", "open"} : rpc' = [rpc EXCEPT ![r] = s]
      BY <2>5
    <3>3. \A q \in Request : q # r => rpc'[q] = rpc[q] /\ n'[q] = n[q]
      BY <1>1, <2>5, <3>2
    <3>4. rpc'[r] = s /\ n'[r] = count[win[r]] + 1 /\ count[win[r]] \in Nat
      BY <1>1, <2>5, <3>2
    <3>5. n'[r] > 0
      BY <3>4
    <3>6. Counted'
      BY <1>2, <3>3, <3>4, <3>5 DEF Counted
    <3> QED BY <3>1, <3>6
  <2> QED BY <2>3, <2>4, <2>5
<1>7. CASE Elapse
  <2>1. UNCHANGED <<rpc, win, n>>
    BY <1>7 DEF Elapse
  <2>2. \A k \in AllWindows : count'[k] = 0 \/ count'[k] = count[k]
    BY <1>7 DEF Elapse
  <2>3. ASSUME NEW k \in AllWindows, NEW v \in 1..count'[k]
        PROVE  \E q \in Request : win[q] = k /\ n[q] = v
    <3>1. v \in 1..count[k]
      BY <2>2, <2>3
    <3> QED BY <1>2, <3>1 DEF Covered
  <2> QED BY <1>2, <2>1, <2>3 DEF Counted, Covered
<1> QED BY <1>3, <1>4, <1>5, <1>6, <1>7 DEF LimiterNext

LEMMA CountAlways == LimiterSpec => []CountInv
<1>1. CountInv /\ [LimiterNext]_limiterVars => CountInv'
  BY TypeInvStep, CountedStep DEF CountInv
<1> QED BY <1>1, CountInvInit, PTL DEF LimiterSpec

(***************************************************************************)
(* What holds while clocks and delays stay within a window.                *)
(***************************************************************************)

\* "Window*2 comfortably covers clock skew": a replica's clock and the way to Redis
\* are together never a window out.
SkewCovered == \A r \in Request : Offset[r] + MaxDelay <= Window

\* Windows begin and end; the steps below need of the products only this.
Opens(k) == k * Window

Closes(k) == (k + 1) * Window

\* A request on its way to INCR read the clock in its window, EXPIRE is sent when that
\* window is at hand, and no key vanishes before the last INCR of its window.
InTime ==
    /\ \A r \in Request : rpc[r] = "new" => age[r] = 0
    /\ \A r \in Request : rpc[r] = "incr" =>
          /\ Opens(win[r]) + age[r] <= Clock(r)
          /\ Clock(r) < Closes(win[r]) + age[r]
    /\ \A r \in Request : rpc[r] = "expire" => Opens(win[r]) + MaxDelay <= now + Window
    /\ \A k \in AllWindows : expireAt[k] = Never \/ Closes(k) + MaxDelay <= expireAt[k]

\* The counter of a window keeps what it has answered until nobody counts in it.
Kept ==
    \A r \in Request :
        n[r] > 0 => n[r] <= count[win[r]] \/ Closes(win[r]) + MaxDelay <= now

\* No two requests of a window were given the same count.
Distinct ==
    \A r, q \in Request : win[r] = win[q] /\ n[r] = n[q] /\ n[r] > 0 => r = q

BudgetInv == CountInv /\ InTime /\ Kept /\ Distinct

LEMMA WindowBounds ==
    ASSUME NEW k \in AllWindows
    PROVE  /\ Opens(k) \in Nat /\ Closes(k) \in Nat
           /\ Closes(k) = Opens(k) + Window
<1>1. k \in Nat /\ Window \in Nat
  BY Constants
<1> QED BY <1>1 DEF Opens, Closes

\* No request counts in a window any more once its last INCR is due.
LEMMA StillOpen ==
    ASSUME TypeInv, InTime, NEW r \in Request, rpc[r] = "incr"
    PROVE  now < Closes(win[r]) + MaxDelay
<1>1. /\ now \in Nat /\ age[r] \in Nat /\ age[r] <= MaxDelay /\ MaxDelay \in Nat
      /\ Offset[r] \in Nat /\ win[r] \in AllWindows
  BY Constants DEF TypeInv
<1>2. Closes(win[r]) \in Nat
  BY <1>1, WindowBounds, Constants
<1>3. now + Offset[r] < Closes(win[r]) + age[r]
  BY DEF InTime, Clock
<1> QED BY <1>1, <1>2, <1>3

LEMMA BudgetInvInit == LimiterInit => BudgetInv
BY CountInvInit DEF LimiterInit, BudgetInv, InTime, Kept, Distinct

LEMMA InTimeStep ==
    ASSUME SkewCovered, TypeInv, InTime, [LimiterNext]_limiterVars
    PROVE  InTime'
<1>1. /\ now \in Nat /\ now <= MaxTime
      /\ expireAt \in [AllWindows -> 0..Never] /\ rpc \in [Request -> States]
      /\ win \in [Request -> AllWindows]
      /\ Window \in Nat \ {0} /\ MaxDelay \in Nat /\ Never \in Nat
  BY Constants DEF TypeInv
<1>2. \A r \in Request : age[r] \in Nat /\ age[r] <= MaxDelay /\ Offset[r] \in Nat
                         /\ Offset[r] + MaxDelay <= Window
  BY Constants DEF TypeInv, SkewCovered
<1>3. CASE UNCHANGED limiterVars
  BY <1>3 DEF limiterVars, InTime, Clock
<1>4. ASSUME NEW r \in Request, Refuse(r) \/ PassGet(r) \/ FailOpen(r) \/ ExpireFails(r) \/ Decide(r)
      PROVE  InTime'
  <2>1. /\ UNCHANGED <<now, expireAt, win>>
        /\ \A q \in Request : q # r => rpc'[q] = rpc[q] /\ age'[q] = age[q]
        /\ rpc'[r] \notin {"new", "incr", "expire"}
    BY <1>1, <1>4 DEF TypeInv, Refuse, PassGet, FailOpen, ExpireFails, Decide, Goto
  <2> QED BY <2>1 DEF InTime, Clock
<1>5. ASSUME NEW r \in Request, Allow(r)
      PROVE  InTime'
  <2> DEFINE k == Clock(r) \div Window
  <2>1. /\ UNCHANGED <<now, expireAt, age>>
        /\ \A q \in Request : q # r => rpc'[q] = rpc[q] /\ win'[q] = win[q]
        /\ rpc'[r] = "incr" /\ win'[r] = k
    BY <1>1, <1>5 DEF Allow, Goto
  <2>2. age[r] = 0
    BY <1>5 DEF Allow, InTime
  <2>3. Opens(k) <= Clock(r) /\ Clock(r) < Closes(k) /\ k \in AllWindows /\ Clock(r) \in Nat
    BY <1>1, ClockWindow, DivBounds DEF Opens, Closes
  <2>4. Opens(k) \in Nat /\ Closes(k) \in Nat
    BY <1>1, <2>3, WindowBounds
  <2> HIDE DEF k
  <2>5. Opens(k) + age[r] <= Clock(r) /\ Clock(r) < Closes(k) + age[r]
    BY <2>2, <2>3, <2>4
  <2> QED BY <2>1, <2>5 DEF InTime, Clock
<1>6. ASSUME NEW r \in Request, Incr(r)
      PROVE  InTime'
  <2>1. /\ UNCHANGED <<now, expireAt, win>>
        /\ \A q \in Request : q # r => rpc'[q] = rpc[q] /\ age'[q] = age[q]
        /\ rpc[r] = "incr" /\ rpc'[r] \notin {"new", "incr"}
    BY <1>1, <1>6 DEF TypeInv, Incr, Goto
  <2>2. Opens(win[r]) + age[r] <= now + Offset[r]
    BY <2>1 DEF InTime, Clock
  <2>3. Opens(win[r]) \in Nat
    BY <1>1, WindowBounds
  <2>4. Opens(win[r]) + MaxDelay <= now + Window
    BY <1>1, <1>2, <2>2, <2>3
  <2> QED BY <2>1, <2>4 DEF InTime, Clock
<1>7. ASSUME NEW r \in Request, Expire(r)
      PROVE  InTime'
  <2>1. /\ UNCHANGED <<now, win, age>>
        /\ \A q \in Request : q # r => rpc'[q] = rpc[q]
        /\ rpc[r] = "expire" /\ rpc'[r] \notin {"new", "incr", "expire"}
        /\ \/ expireAt' = expireAt
           \/ expireAt' = [expireAt EXCEPT ![win[r]] = now + 2 * Window]
    BY <1>1, <1>7 DEF Expire, Goto
  <2>2. Opens(win[r]) + MaxDelay <= now + Window
    BY <2>1 DEF InTime
  <2>3. Opens(win[r]) \in Nat /\ Closes(win[r]) = Opens(win[r]) + Window
    BY <1>1, WindowBounds
  <2>4. Closes(win[r]) + MaxDelay <= now + 2 * Window
    BY <1>1, <2>2, <2>3
  <2>5. ASSUME NEW k \in AllWindows
        PROVE  expireAt'[k] = Never \/ Closes(k) + MaxDelay <= expireAt'[k]
    <3>1. CASE expireAt'[k] = expireAt[k]
      BY <3>1 DEF InTime
    <3>2. CASE k = win[r] /\ expireAt'[k] = now + 2 * Window
      BY <2>4, <3>2
    <3> QED BY <1>1, <2>1, <3>1, <3>2
  <2> QED BY <2>1, <2>5 DEF InTime, Clock
<1>8. CASE Elapse
  <2>1. /\ UNCHANGED <<rpc, win>> /\ now' = now + 1
        /\ \A r \in Request : age'[r] = IF rpc[r] = "incr" THEN age[r] + 1 ELSE age[r]
        /\ \A k \in AllWindows : expireAt'[k] = Never \/ expireAt'[k] = expireAt[k]
    BY <1>8 DEF Elapse
  <2>2. ASSUME NEW r \in Request, rpc[r] = "incr"
        PROVE  /\ Opens(win[r]) + (age[r] + 1) <= now + 1 + Offset[r]
               /\ now + 1 + Offset[r] < Closes(win[r]) + (age[r] + 1)
    <3>1. Opens(win[r]) + age[r] <= now + Offset[r] /\ now + Offset[r] < Closes(win[r]) + age[r]
      BY <2>2 DEF InTime, Clock
    <3>2. Opens(win[r]) \in Nat /\ Closes(win[r]) \in Nat
      BY <1>1, WindowBounds
    <3> QED BY <1>1, <1>2, <3>1, <3>2
  <2>3. ASSUME NEW r \in Request, rpc[r] = "expire"
        PROVE  Opens(win[r]) + MaxDelay <= now + 1 + Window
    <3>1. Opens(win[r]) + MaxDelay <= now + Window
      BY <2>3 DEF InTime
    <3>2. Opens(win[r]) \in Nat
      BY <1>1, WindowBounds
    <3> QED BY <1>1, <3>1, <3>2
  <2> QED BY <2>1, <2>2, <2>3 DEF InTime, Clock
<1> QED BY <1>3, <1>4, <1>5, <1>6, <1>7, <1>8 DEF LimiterNext

LEMMA KeptStep ==
    ASSUME SkewCovered, BudgetInv, [LimiterNext]_limiterVars
    PROVE  Kept' /\ Distinct'
<1>1. TypeInv /\ Counted /\ InTime /\ Kept /\ Distinct
  BY DEF BudgetInv, CountInv
<1>2. /\ n \in [Request -> Nat] /\ count \in [AllWindows -> Nat] /\ win \in [Request -> AllWindows]
      /\ now \in Nat /\ now <= MaxTime /\ MaxDelay \in Nat /\ MaxTime \in Nat
      /\ \A k \in AllWindows : expireAt[k] \in Nat /\ Closes(k) \in Nat
  BY <1>1, Constants, WindowBounds DEF TypeInv
<1>3. CASE UNCHANGED limiterVars
  BY <1>1, <1>3 DEF limiterVars, Kept, Distinct
<1>4. ASSUME NEW r \in Request,
             \/ Refuse(r) \/ PassGet(r) \/ Expire(r) \/ ExpireFails(r) \/ Decide(r)
      PROVE  Kept' /\ Distinct'
  <2>1. UNCHANGED <<now, count, win, n>>
    BY <1>4 DEF Refuse, PassGet, Expire, ExpireFails, Decide
  <2> QED BY <1>1, <2>1 DEF Kept, Distinct
<1>5. ASSUME NEW r \in Request, Allow(r)
      PROVE  Kept' /\ Distinct'
  <2>1. UNCHANGED <<now, count, n>> /\ rpc[r] = "new"
    BY <1>5 DEF Allow
  <2>2. n[r] = 0
    BY <1>1, <1>2, <2>1 DEF Counted
  <2>3. \A q \in Request : n[q] > 0 => win'[q] = win[q]
    BY <1>2, <1>5, <2>2 DEF Allow
  <2>4. Kept'
    BY <1>1, <2>1, <2>3 DEF Kept
  <2>5. Distinct'
    BY <1>1, <2>1, <2>3 DEF Distinct
  <2> QED BY <2>4, <2>5
<1>6. ASSUME NEW r \in Request, Incr(r) \/ FailOpen(r)
      PROVE  Kept' /\ Distinct'
  <2>1. rpc[r] = "incr" /\ UNCHANGED <<now, win>>
    BY <1>6 DEF Incr, FailOpen
  <2>2. n[r] = 0
    BY <1>1, <1>2, <2>1 DEF Counted
  <2>3. CASE UNCHANGED <<count, n>>
    BY <1>1, <2>1, <2>3 DEF Kept, Distinct
  <2>4. CASE /\ count' = [count EXCEPT ![win[r]] = @ + 1]
             /\ n' = [n EXCEPT ![r] = count[win[r]] + 1]
    <3>1. PICK c \in Nat : c = count[win[r]]
      BY <1>2
    <3>2. /\ \A q \in Request : n'[q] = IF q = r THEN c + 1 ELSE n[q]
          /\ \A k \in AllWindows : count'[k] = IF k = win[r] THEN c + 1 ELSE count[k]
      BY <1>2, <2>4, <3>1
    <3>3. now < Closes(win[r]) + MaxDelay
      BY <1>1, <2>1, StillOpen
    <3>4. ASSUME NEW q \in Request, n[q] > 0, win[q] = win[r]
          PROVE  n[q] <= c
      <4>1. Closes(win[r]) \in Nat
        BY <1>2
      <4>2. ~(Closes(win[r]) + MaxDelay <= now)
        BY <1>2, <3>3, <4>1
      <4> QED BY <1>1, <3>1, <3>4, <4>2 DEF Kept
    <3>5. ASSUME NEW q \in Request, n'[q] > 0
          PROVE  n'[q] <= count'[win[q]] \/ Closes(win[q]) + MaxDelay <= now
      <4>1. CASE q = r
        BY <1>2, <3>2, <4>1
      <4>2. CASE q # r /\ win[q] = win[r]
        <5>1. n'[q] = n[q] /\ count'[win[q]] = c + 1 /\ n[q] > 0 /\ n[q] \in Nat
          BY <1>2, <3>2, <3>5, <4>2
        <5>2. n[q] <= c
          BY <3>4, <4>2, <5>1
        <5> QED BY <5>1, <5>2
      <4>3. CASE q # r /\ win[q] # win[r]
        <5>1. n'[q] = n[q] /\ count'[win[q]] = count[win[q]] /\ n[q] > 0
          BY <1>2, <3>2, <3>5, <4>3
        <5> QED BY <1>1, <5>1 DEF Kept
      <4> QED BY <4>1, <4>2, <4>3
    <3>6. ASSUME NEW x \in Request, NEW y \in Request, win[x] = win[y], n'[x] = n'[y], n'[x] > 0
          PROVE  x = y
      <4>1. ASSUME NEW q \in Request, q # r, win[q] = win[r], n[q] > 0
            PROVE  n[q] # c + 1
        <5>1. n[q] <= c /\ n[q] \in Nat
          BY <1>2, <3>4, <4>1
        <5> QED BY <5>1
      <4>2. CASE x = r /\ y # r
        <5>1. n[y] = c + 1 /\ win[y] = win[r]
          BY <3>2, <3>6, <4>2
        <5>2. n[y] > 0
          BY <5>1
        <5> QED BY <4>1, <4>2, <5>1, <5>2
      <4>3. CASE y = r /\ x # r
        <5>1. n[x] = c + 1 /\ win[x] = win[r]
          BY <3>2, <3>6, <4>3
        <5>2. n[x] > 0
          BY <5>1
        <5> QED BY <4>1, <4>3, <5>1, <5>2
      <4>4. CASE x # r /\ y # r
        BY <1>1, <3>2, <3>6, <4>4 DEF Distinct
      <4> QED BY <4>2, <4>3, <4>4
    <3> QED BY <2>1, <3>5, <3>6 DEF Kept, Distinct
  <2> QED BY <1>6, <2>3, <2>4 DEF Incr, FailOpen
<1>7. CASE Elapse
  <2>1. /\ UNCHANGED <<win, n>> /\ now' = now + 1 /\ now + 1 <= MaxTime
        /\ \A k \in AllWindows : count'[k] = IF expireAt[k] <= now + 1 THEN 0 ELSE count[k]
    BY <1>2, <1>7 DEF Elapse
  <2>2. Distinct'
    BY <1>1, <2>1 DEF Distinct
  <2>3. ASSUME NEW q \in Request, n[q] > 0
        PROVE  n[q] <= count'[win[q]] \/ Closes(win[q]) + MaxDelay <= now + 1
    <3>1. win[q] \in AllWindows /\ expireAt[win[q]] \in Nat /\ Closes(win[q]) \in Nat
      BY <1>2
    <3>2. CASE expireAt[win[q]] <= now + 1
      <4>1. MaxTime < Never /\ Never \in Nat
        BY Constants
      <4>2. expireAt[win[q]] # Never
        BY <1>2, <2>1, <3>2, <4>1
      <4>3. Closes(win[q]) + MaxDelay <= expireAt[win[q]]
        BY <1>1, <3>1, <4>2 DEF InTime
      <4> QED BY <1>2, <3>1, <3>2, <4>3
    <3>3. CASE ~(expireAt[win[q]] <= now + 1)
      <4>1. count'[win[q]] = count[win[q]]
        BY <2>1, <3>1, <3>3
      <4>2. n[q] <= count[win[q]] \/ Closes(win[q]) + MaxDelay <= now
        BY <1>1, <2>3 DEF Kept
      <4>3. Closes(win[q]) + MaxDelay <= now => Closes(win[q]) + MaxDelay <= now + 1
        BY <1>2, <3>1
      <4> QED BY <4>1, <4>2, <4>3
    <3> QED BY <3>2, <3>3
  <2> QED BY <2>1, <2>2, <2>3 DEF Kept
<1> QED BY <1>3, <1>4, <1>5, <1>6, <1>7 DEF LimiterNext

LEMMA BudgetAlways == ASSUME SkewCovered PROVE LimiterSpec => []BudgetInv
<1>1. BudgetInv /\ [LimiterNext]_limiterVars => BudgetInv'
  BY TypeInvStep, CountedStep, InTimeStep, KeptStep DEF BudgetInv, CountInv
<1> QED BY <1>1, BudgetInvInit, PTL DEF LimiterSpec

(***************************************************************************)
(* Theorems.                                                               *)
(***************************************************************************)

\* Every variable keeps its type; no counter, and no answer of INCR in Allow, is
\* greater than the number of requests.
THEOREM LimiterTypeCorrect == LimiterSpec => []LimiterTypeOK
<1>1. CountInv => LimiterTypeOK
  <2> SUFFICES ASSUME CountInv PROVE LimiterTypeOK
    OBVIOUS
  <2>1. TypeInv /\ Covered
    BY DEF CountInv
  <2>2. IsFiniteSet(Request) /\ Cardinality(Request) \in Nat
    BY LimiterAssumption, FS_CardinalityType
  <2>3. ASSUME NEW k \in AllWindows, NEW m \in Nat,
               \A v \in 1..m : \E q \in Request : win[q] = k /\ n[q] = v
        PROVE  m \in 0..Cardinality(Request)
    <3> DEFINE f == [v \in 1..m |-> CHOOSE q \in Request : win[q] = k /\ n[q] = v]
    <3>1. \A v \in 1..m : f[v] \in Request /\ n[f[v]] = v
      BY <2>3
    <3>2. f \in [1..m -> Request]
      BY <3>1
    <3> HIDE DEF f
    <3>3. m <= Cardinality(Request)
      BY <2>2, <3>1, <3>2, ValuesTaken
    <3> QED BY <2>2, <3>3
  <2>4. \A k \in AllWindows : count[k] \in Nat /\ count[k] \in 0..Cardinality(Request)
    BY <2>1, <2>3 DEF TypeInv, Covered
  <2>5. \A r \in Request : n[r] \in 0..Cardinality(Request)
    BY <2>1, <2>3 DEF TypeInv, Covered
  <2>6. count \in [AllWindows -> 0..Cardinality(Request)]
    BY <2>1, <2>4 DEF TypeInv
  <2>7. n \in [Request -> 0..Cardinality(Request)]
    BY <2>1, <2>5 DEF TypeInv
  <2> QED BY <2>1, <2>6, <2>7 DEF LimiterTypeOK, TypeInv
<1> QED BY <1>1, CountAlways, PTL

\* Allow denies a request only when the whole budget of its window went to others,
\* whatever the clocks do, keys expire or answers get lost.
THEOREM DenialsAreDue == LimiterSpec => []NoSpuriousDenial
<1>1. CountInv => NoSpuriousDenial
  <2> SUFFICES ASSUME CountInv, NEW k \in AllWindows, NEW d \in In(k, {"denied"})
               PROVE  Cardinality({r \in In(k, {"expire", "decide", "passed", "open"}) :
                                      n[r] \in 1..Requests}) >= Requests
    BY DEF NoSpuriousDenial
  <2> DEFINE S == {r \in In(k, {"expire", "decide", "passed", "open"}) : n[r] \in 1..Requests}
             f == [v \in 1..Requests |-> CHOOSE q \in Request : win[q] = k /\ n[q] = v]
  <2>1. TypeInv /\ Counted /\ Covered /\ Requests \in Nat
    BY Constants DEF CountInv
  <2>2. d \in Request /\ win[d] = k /\ rpc[d] = "denied"
    BY DEF In
  <2>3. n[d] > Requests /\ n[d] \in Nat
    BY <2>1, <2>2 DEF Counted, TypeInv
  <2>4. 1..Requests \subseteq 1..n[d]
    BY <2>1, <2>3
  <2>5. \A v \in 1..Requests : \E q \in Request : win[q] = k /\ n[q] = v
    BY <2>1, <2>2, <2>4 DEF Covered
  <2>6. \A v \in 1..Requests : f[v] \in Request /\ win[f[v]] = k /\ n[f[v]] = v
    BY <2>5
  <2>7. ASSUME NEW q \in Request, win[q] = k, n[q] \in 1..Requests
        PROVE  q \in S
    <3>1. n[q] > 0 /\ ~(n[q] > Requests)
      BY <2>1, <2>7
    <3>2. rpc[q] \in {"expire", "decide", "passed", "open"}
      BY <2>1, <3>1 DEF Counted
    <3> QED BY <2>7, <3>2 DEF In
  <2>8. f \in [1..Requests -> S]
    BY <2>6, <2>7
  <2>9. IsFiniteSet(S)
    BY LimiterAssumption, FS_Subset DEF In
  <2> HIDE DEF S, f
  <2>10. Requests <= Cardinality(S)
    BY <2>1, <2>6, <2>8, <2>9, ValuesTaken
  <2>11. Cardinality(S) \in Nat
    BY <2>9, FS_CardinalityType
  <2> QED BY <2>1, <2>10, <2>11 DEF S
<1> QED BY <1>1, CountAlways, PTL

\* "N replicas do not multiply the budget": for any number of replicas and requests,
\* while skew and delay stay within a window, the two windows of EXPIRE keep a counter
\* as long as anyone counts in it, and no more than the budget passes on it.
THEOREM BudgetIsShared ==
    ASSUME SkewCovered PROVE LimiterSpec => []WithinBudget
<1>1. BudgetInv => WithinBudget
  <2> SUFFICES ASSUME BudgetInv, NEW k \in AllWindows
               PROVE  Cardinality({r \in In(k, {"expire", "decide", "passed"}) : n[r] <= Requests})
                          <= Requests
    BY DEF WithinBudget
  <2> DEFINE S == {r \in In(k, {"expire", "decide", "passed"}) : n[r] <= Requests}
             f == [r \in S |-> n[r]]
  <2>1. TypeInv /\ Counted /\ Distinct /\ Requests \in Nat
    BY Constants DEF BudgetInv, CountInv
  <2>2. \A r \in S : r \in Request /\ win[r] = k /\ n[r] > 0 /\ n[r] <= Requests /\ n[r] \in Nat
    BY <2>1 DEF In, Counted, TypeInv
  <2>3. \A r \in S : n[r] \in 1..Requests
    BY <2>1, <2>2
  <2>4. f \in [S -> 1..Requests]
    BY <2>3
  <2>5. \A x, y \in S : f[x] = f[y] => x = y
    BY <2>1, <2>2 DEF Distinct
  <2> HIDE DEF S, f
  <2>6. Cardinality(S) <= Requests
    BY <2>1, <2>4, <2>5, ValuesDistinct
  <2> QED BY <2>6 DEF S
<1> QED BY <1>1, BudgetAlways, PTL

\* authenticate's retry-after: for every window and unit, a caller that waits as long
\* as it says comes back in a new window, and waits less than a second too long.
THEOREM HintIsRight == LimiterSpec => HintReachesNextWindow
<1> DEFINE Right ==
        \A r \in Request : rpc'[r] = "denied" /\ rpc[r] # "denied" =>
          LET back == Clock(r) + hint'[r] * Second
              end  == (win[r] + 1) * Window
          IN  /\ back \div Window > win[r]
              /\ hint'[r] = 1 \/ back < end + Second
<1>1. CountInv /\ [LimiterNext]_limiterVars => [Right]_limiterVars
  <2> SUFFICES ASSUME CountInv, [LimiterNext]_limiterVars, NEW r \in Request,
                      rpc'[r] = "denied", rpc[r] # "denied"
               PROVE  LET back == Clock(r) + hint'[r] * Second
                          end  == (win[r] + 1) * Window
                      IN  /\ back \div Window > win[r]
                          /\ hint'[r] = 1 \/ back < end + Second
    OBVIOUS
  <2>1. TypeInv
    BY DEF CountInv
  <2>2. hint'[r] = RetryAfter(r)
    <3>1. \E q \in Request : Decide(q) /\ rpc'[q] = "denied"
      BY <2>1 DEF TypeInv, LimiterNext, limiterVars, Refuse, PassGet, Allow, Incr, FailOpen, Expire,
                  ExpireFails, Decide, Elapse, Goto
    <3>2. Decide(r)
      BY <2>1, <3>1 DEF TypeInv, Decide, Goto
    <3> QED BY <2>1, <3>2 DEF TypeInv, Decide, Goto
  <2> DEFINE h == RetryAfter(r)
             c == Clock(r)
             end == (win[r] + 1) * Window
  <2>3. /\ h \in Nat \ {0} /\ end \in Nat /\ end <= c + h * Second
        /\ h = 1 \/ c + h * Second < end + Second
    BY <2>1, HintFacts
  <2>4. c \in Nat /\ win[r] \in Nat /\ Second \in Nat /\ Window \in Nat \ {0}
    BY <2>1, ClockWindow, Constants DEF TypeInv
  <2> HIDE DEF h, c
  <2>5. c + h * Second \in Nat
    BY <2>3, <2>4
  <2>6. (c + h * Second) \div Window > win[r]
    BY <2>3, <2>4, <2>5, DivAbove
  <2> QED BY <2>2, <2>3, <2>6 DEF h, c
<1> QED BY <1>1, CountAlways, PTL DEF LimiterSpec, HintReachesNextWindow
=============================================================================
