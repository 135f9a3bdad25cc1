--------------------------- MODULE BackoffLoopProofs ---------------------------
(***************************************************************************)
(* The loop of backoff computes the closed form, whatever the cadence, the   *)
(* number of failures and the width of the integers.                        *)
(*                                                                          *)
(* Induction and recursion over the naturals are derived here for sets and   *)
(* functions, from the fact that < has no infinite descent: with those the   *)
(* recursive function of PollSchedule is known to meet its equation.         *)
(***************************************************************************)
EXTENDS BackoffLoop, WellFoundedInduction, TLAPS

-------------------------------------------------------------------------------
(* Induction and recursion *)

\* What holds at 0 and is handed on holds everywhere.
LEMMA Induction ==
    ASSUME NEW S, 0 \in S, \A n \in Nat : n \in S => n + 1 \in S
    PROVE  \A n \in Nat : n \in S
<1> DEFINE Rest == {n \in Nat : n \notin S}
<1>1. SUFFICES ASSUME Rest # {} PROVE FALSE
  OBVIOUS
<1>2. PICK x \in Rest : \A y \in Rest : <<y, x>> \notin OpToRel(<, Nat)
  BY <1>1, NatLessThanWellFounded, WFMin
<1>3. x \in Nat /\ x # 0 /\ x \notin S
  OBVIOUS
<1>4. x - 1 \in Nat /\ x - 1 < x
  BY <1>3
<1>5. x - 1 \in S
  BY <1>2, <1>3, <1>4 DEF OpToRel
<1>6. QED
  BY <1>3, <1>4, <1>5

\* A first value and a step make a function.
LEMMA Recursion ==
    ASSUME NEW V, NEW a \in V, NEW step \in [Nat -> [V -> V]]
    PROVE  \E f \in [Nat -> V] : f[0] = a /\ \A n \in Nat : f[n + 1] = step[n][f[n]]
<1> DEFINE Upto(n) == {g \in [0 .. n -> V] :
                          g[0] = a /\ \A k \in 0 .. n - 1 : g[k + 1] = step[k][g[k]]}
<1>1. \A n \in Nat : Upto(n) # {}
  <2> DEFINE S == {n \in Nat : Upto(n) # {}}
  <2>1. 0 \in S
    <3>1. [k \in 0 .. 0 |-> a] \in Upto(0)
      OBVIOUS
    <3>2. QED
      BY <3>1
  <2>2. ASSUME NEW n \in Nat, n \in S PROVE n + 1 \in S
    <3>1. PICK g \in Upto(n) : TRUE
      BY <2>2
    <3> DEFINE h == [k \in 0 .. n + 1 |-> IF k = n + 1 THEN step[n][g[n]] ELSE g[k]]
    <3>2. g \in [0 .. n -> V] /\ g[0] = a /\ \A k \in 0 .. n - 1 : g[k + 1] = step[k][g[k]]
      BY <3>1
    <3>3. h \in [0 .. n + 1 -> V]
      BY <3>2
    <3>4. h[0] = a
      BY <3>2
    <3>5. ASSUME NEW k \in 0 .. n PROVE h[k + 1] = step[k][h[k]]
      <4>1. CASE k = n
        BY <4>1
      <4>2. CASE k # n
        <5>1. k \in 0 .. n - 1 /\ h[k] = g[k] /\ h[k + 1] = g[k + 1]
          BY <4>2
        <5>2. QED
          BY <3>2, <5>1
      <4>3. QED
        BY <4>1, <4>2
    <3> HIDE DEF h
    <3>6. h \in Upto(n + 1)
      BY <3>3, <3>4, <3>5
    <3>7. QED
      BY <3>6
  <2> HIDE DEF S
  <2>3. \A n \in Nat : n \in S
    BY <2>1, <2>2, Induction
  <2>4. QED
    BY <2>3 DEF S
<1>2. \A n, m \in Nat : \A g \in Upto(n), h \in Upto(m) :
         \A k \in Nat : k <= n /\ k <= m => g[k] = h[k]
  <2> SUFFICES ASSUME NEW n \in Nat, NEW m \in Nat, NEW g \in Upto(n), NEW h \in Upto(m)
               PROVE  \A k \in Nat : k <= n /\ k <= m => g[k] = h[k]
    OBVIOUS
  <2> DEFINE S == {k \in Nat : k <= n /\ k <= m => g[k] = h[k]}
  <2>1. 0 \in S
    OBVIOUS
  <2>2. ASSUME NEW k \in Nat, k \in S PROVE k + 1 \in S
    <3>1. SUFFICES ASSUME k + 1 <= n, k + 1 <= m PROVE g[k + 1] = h[k + 1]
      OBVIOUS
    <3>2. g[k] = h[k]
      BY <2>2, <3>1
    <3>3. g[k + 1] = step[k][g[k]] /\ h[k + 1] = step[k][h[k]]
      BY <3>1
    <3>4. QED
      BY <3>2, <3>3
  <2> HIDE DEF S
  <2>3. \A k \in Nat : k \in S
    BY <2>1, <2>2, Induction
  <2>4. QED
    BY <2>3 DEF S
<1> DEFINE pick(n) == CHOOSE g \in Upto(n) : TRUE
<1>3. \A n \in Nat : pick(n) \in Upto(n)
  BY <1>1
<1>4. \A n \in Nat :
         /\ pick(n) \in [0 .. n -> V] /\ pick(n)[0] = a
         /\ \A k \in 0 .. n - 1 : pick(n)[k + 1] = step[k][pick(n)[k]]
  BY <1>3
<1> HIDE DEF pick, Upto
<1>5. ASSUME NEW n \in Nat PROVE pick(n + 1)[n] = pick(n)[n]
  <2>1. n + 1 \in Nat /\ pick(n + 1) \in Upto(n + 1) /\ pick(n) \in Upto(n)
    BY <1>3
  <2>2. QED
    BY <1>2, <2>1
<1> DEFINE f == [n \in Nat |-> pick(n)[n]]
<1>6. f \in [Nat -> V] /\ f[0] = a
  BY <1>4
<1>7. ASSUME NEW n \in Nat PROVE f[n + 1] = step[n][f[n]]
  <2>1. pick(n + 1)[n + 1] = step[n][pick(n + 1)[n]]
    BY <1>4
  <2>2. QED
    BY <1>5, <2>1
<1>8. QED
  BY <1>6, <1>7

-------------------------------------------------------------------------------
(* Doublings *)

\* The recursive function is what its definition says.
LEMMA FactorDef ==
    /\ factor \in [Nat -> Nat \ {0}]
    /\ factor[0] = 1
    /\ \A n \in Nat : factor[n + 1] = 2 * factor[n]
<1> DEFINE V == Nat \ {0}
           step == [n \in Nat |-> [x \in V |-> 2 * x]]
           Def(f) == f = [n \in Nat |-> IF n = 0 THEN 1 ELSE 2 * f[n - 1]]
<1>1. 1 \in V /\ step \in [Nat -> [V -> V]]
  OBVIOUS
<1>2. PICK f \in [Nat -> V] : f[0] = 1 /\ \A n \in Nat : f[n + 1] = step[n][f[n]]
  <2> HIDE DEF V, step, Def
  <2>1. \A a \in V : \A s \in [Nat -> [V -> V]] :
           \E f \in [Nat -> V] : f[0] = a /\ \A n \in Nat : f[n + 1] = s[n][f[n]]
    BY Recursion
  <2>2. QED
    BY <1>1, <2>1
<1>3. \A n \in Nat : f[n + 1] = 2 * f[n]
  BY <1>2
<1>4. \A n \in Nat : f[n] = IF n = 0 THEN 1 ELSE 2 * f[n - 1]
  <2> SUFFICES ASSUME NEW n \in Nat, n # 0 PROVE f[n] = 2 * f[n - 1]
    BY <1>2
  <2>1. n - 1 \in Nat /\ n = (n - 1) + 1
    OBVIOUS
  <2>2. QED
    BY <1>3, <2>1
<1>5. Def(f)
  BY <1>2, <1>4
<1>6. Def(factor)
  BY <1>5 DEF factor
<1>7. factor[0] = 1 /\ \A n \in Nat : factor[n + 1] = 2 * factor[n]
  BY <1>6
<1>8. \A n \in Nat : factor[n] \in V
  <2> DEFINE S == {n \in Nat : factor[n] \in V}
  <2>1. 0 \in S /\ \A n \in Nat : n \in S => n + 1 \in S
    BY <1>7
  <2> HIDE DEF S
  <2>2. \A n \in Nat : n \in S
    BY <2>1, Induction
  <2>3. QED
    BY <2>2 DEF S
<1>9. factor \in [Nat -> V]
  BY <1>6, <1>8
<1>10. QED
  BY <1>7, <1>9

LEMMA FactorGrows == \A m, n \in Nat : m <= n => factor[m] <= factor[n]
<1> SUFFICES ASSUME NEW m \in Nat PROVE \A n \in Nat : m <= n => factor[m] <= factor[n]
  OBVIOUS
<1> DEFINE S == {k \in Nat : factor[m] <= factor[m + k]}
<1>1. 0 \in S
  BY FactorDef
<1>2. ASSUME NEW k \in Nat, k \in S PROVE k + 1 \in S
  <2>1. m + k \in Nat /\ m + (k + 1) = (m + k) + 1
    OBVIOUS
  <2>2. factor[m + (k + 1)] = 2 * factor[m + k] /\ factor[m + k] \in Nat /\ factor[m] \in Nat
    BY <2>1, FactorDef
  <2>3. QED
    BY <1>2, <2>2
<1> HIDE DEF S
<1>3. \A k \in Nat : k \in S
  BY <1>1, <1>2, Induction
<1>4. ASSUME NEW n \in Nat, m <= n PROVE factor[m] <= factor[n]
  <2>1. n - m \in Nat /\ m + (n - m) = n
    BY <1>4
  <2>2. QED
    BY <1>3, <2>1 DEF S
<1>5. QED
  BY <1>4

\* A product grows with its second factor, and doubling the one doubles the other.
LEMMA Products ==
    ASSUME NEW c \in Nat, NEW x \in Nat, NEW y \in Nat
    PROVE  /\ c * x \in Nat
           /\ c * (2 * x) = (c * x) * 2
           /\ x <= y => c * x <= c * y
           /\ x >= 1 => c * x >= c
OBVIOUS

\* The doubling never shrinks what it doubles.
LEMMA EscalatedGrows ==
    ASSUME NEW less \in Nat \ {0}, NEW more \in Nat, less <= more, NEW cadence \in Cadence
    PROVE  escalated(less, cadence) <= escalated(more, cadence)
<1> DEFINE few == cadence * factor[less - 1]
           many == cadence * factor[more - 1]
<1>1. cadence \in Nat /\ ceiling(cadence) \in Nat /\ cadence <= ceiling(cadence)
  BY ScheduleConstants DEF ceiling, Longest, Cadence
<1>2. few \in Nat /\ many \in Nat /\ cadence <= few /\ few <= many
  <2>1. less - 1 \in Nat /\ more - 1 \in Nat /\ less - 1 <= more - 1
    OBVIOUS
  <2>2. /\ factor[less - 1] \in Nat /\ factor[more - 1] \in Nat
        /\ factor[less - 1] >= 1 /\ factor[less - 1] <= factor[more - 1]
    BY <2>1, FactorDef, FactorGrows
  <2>3. QED
    BY <1>1, <2>2, Products
<1> HIDE DEF few, many
<1>3. /\ escalated(less, cadence) = IF few \in cadence .. ceiling(cadence) THEN few
                                    ELSE ceiling(cadence)
      /\ escalated(more, cadence) = IF many \in cadence .. ceiling(cadence) THEN many
                                    ELSE ceiling(cadence)
  BY DEF escalated, few, many
<1>4. QED
  BY <1>1, <1>2, <1>3

\* Of one and the same failure, with the same Retry-After, a longer row never brings
\* the next poll nearer (poller.go:226). A row that goes on with a failure of another
\* kind may: the wait is that of the last one.
THEOREM MoreFailuresNeverSooner ==
    ASSUME NEW failure \in Result, NEW less \in Nat \ {0}, NEW more \in Nat, less <= more,
           NEW cadence \in Cadence
    PROVE  backoff(failure, less, cadence) <= backoff(failure, more, cadence)
<1>1. cadence \in Nat /\ DegradedInterval \in Nat
  BY ScheduleConstants DEF Cadence
<1>2. CASE failure = NoError
  BY <1>1, <1>2 DEF backoff, NoError
<1>3. CASE failure # NoError
  <2>1. failure.Kind \in FetchErrorKind /\ failure.RetryAfter \in Nat
    BY <1>3, ScheduleConstants DEF Result, FetchError
  <2>2. CASE failure.Kind = "RateLimited"
    BY <1>1, <1>3, <2>1, <2>2 DEF backoff, Longest
  <2>3. CASE failure.Kind \in {"Unauthorized", "Protocol"}
    BY <1>1, <1>3, <2>3 DEF backoff
  <2>4. CASE failure.Kind = "Transient"
    BY <1>3, <2>4, EscalatedGrows DEF backoff
  <2>5. QED
    BY <2>1, <2>2, <2>3, <2>4 DEF FetchErrorKind
<1>4. QED
  BY <1>2, <1>3

-------------------------------------------------------------------------------
(* The loop *)

\* At the head of the loop the delay is the cadence doubled i - 1 times, without a
\* bit lost, since it was below the ceiling each time before it was doubled.
Doubling ==
    /\ i \in 1 .. consecutiveFailures
    /\ delay = interval * factor[i - 1]

LoopInv ==
    /\ err \in Result
    /\ consecutiveFailures \in Nat
    /\ err # NoError => consecutiveFailures # 0
    /\ interval \in Intervals
    /\ pc \in {"switch", "loop", "returned"}
    /\ pc = "switch" => i = 1
    /\ pc = "loop" => err.Kind = "Transient" /\ err # NoError /\ Doubling
    /\ LoopComputesBackoff

\* The cadence is one the integers hold.
LEMMA IntervalFits ==
    ASSUME interval \in Intervals
    PROVE  /\ interval \in Nat /\ ceiling(interval) \in Nat
           /\ interval <= ceiling(interval)
           /\ interval < ceiling(interval) => 2 * ceiling(interval) < Half
           /\ Half \in Nat
BY ScheduleConstants, LoopConstants DEF ceiling, Longest

LEMMA WrapFits == \A x \in Nat : x < Half => wrap(x) = x
<1> SUFFICES ASSUME NEW x \in Nat, x < Half PROVE wrap(x) = x
  OBVIOUS
<1>1. Half \in Nat
  BY LoopConstants
<1>2. (x + Half) % (2 * Half) = x + Half
  BY <1>1, SMT
<1>3. QED
  BY <1>1, <1>2 DEF wrap

LEMMA InitLoop == Init => LoopInv
<1> SUFFICES ASSUME Init PROVE LoopInv
  OBVIOUS
<1>1. MaxFailures \in Nat
  BY LoopConstants
<1>2. QED
  BY <1>1 DEF Init, LoopInv, LoopComputesBackoff

\* One more doubling.
LEMMA DoubleKeeps == LoopInv /\ Double => LoopInv'
<1> SUFFICES ASSUME LoopInv, Double PROVE LoopInv'
  OBVIOUS
<1>1. /\ pc = "loop" /\ pc' = "loop" /\ UNCHANGED <<err, consecutiveFailures, interval>>
      /\ i < consecutiveFailures /\ delay < ceiling(interval)
      /\ delay' = wrap(delay * 2) /\ i' = i + 1
      /\ i \in 1 .. consecutiveFailures /\ consecutiveFailures \in Nat
      /\ delay = interval * factor[i - 1]
  BY DEF Double, moreToDouble, args, LoopInv, Doubling
<1>2. /\ interval \in Nat /\ ceiling(interval) \in Nat /\ Half \in Nat
      /\ interval < ceiling(interval) => 2 * ceiling(interval) < Half
  BY IntervalFits DEF LoopInv
<1>3. i - 1 \in Nat /\ (i + 1) - 1 = (i - 1) + 1
  BY <1>1
<1>4. factor[i - 1] \in Nat /\ factor[i - 1] >= 1 /\ factor[(i + 1) - 1] = 2 * factor[i - 1]
  BY <1>3, FactorDef
<1>5. delay \in Nat /\ delay >= interval /\ interval * factor[(i + 1) - 1] = delay * 2
  BY <1>1, <1>2, <1>4, Products
<1>6. delay * 2 \in Nat /\ delay * 2 < Half
  BY <1>1, <1>2, <1>5
<1>7. delay' = interval' * factor[i' - 1]
  BY <1>1, <1>5, <1>6, WrapFits
<1>8. Doubling'
  BY <1>1, <1>7 DEF Doubling
<1>9. QED
  BY <1>1, <1>8 DEF LoopInv, LoopComputesBackoff

\* The loop ends with all its doublings done, or at the ceiling or above it, where
\* those left to do would keep it.
LEMMA LeaveLoopKeeps == LoopInv /\ LeaveLoop => LoopInv'
<1> SUFFICES ASSUME LoopInv, LeaveLoop PROVE LoopInv'
  OBVIOUS
<1> DEFINE C == ceiling(interval)
           doubled == interval * factor[consecutiveFailures - 1]
<1>1. /\ pc = "loop" /\ pc' = "returned"
      /\ UNCHANGED <<err, consecutiveFailures, interval, i>>
      /\ delay' = IF delay > C THEN C ELSE delay
      /\ ~(i < consecutiveFailures /\ delay < C)
      /\ i \in 1 .. consecutiveFailures /\ consecutiveFailures \in Nat
      /\ delay = interval * factor[i - 1]
      /\ err.Kind = "Transient" /\ err # NoError
  BY DEF LeaveLoop, Return, moreToDouble, args, LoopInv, Doubling
<1>2. interval \in Nat /\ C \in Nat /\ interval <= C
  BY IntervalFits DEF LoopInv
<1>3. /\ i - 1 \in Nat /\ consecutiveFailures - 1 \in Nat /\ i - 1 <= consecutiveFailures - 1
      /\ factor[i - 1] \in Nat /\ factor[consecutiveFailures - 1] \in Nat
      /\ factor[i - 1] >= 1 /\ factor[i - 1] <= factor[consecutiveFailures - 1]
  <2>1. i - 1 \in Nat /\ consecutiveFailures - 1 \in Nat /\ i - 1 <= consecutiveFailures - 1
    BY <1>1
  <2>2. QED
    BY <2>1, FactorDef, FactorGrows
<1>4. delay \in Nat /\ doubled \in Nat /\ interval <= delay /\ delay <= doubled
  BY <1>1, <1>2, <1>3, Products
<1>5. i < consecutiveFailures \/ delay = doubled
  BY <1>1
<1>6. escalated(consecutiveFailures, interval) = IF doubled \in interval .. C THEN doubled ELSE C
  BY DEF escalated
<1> HIDE DEF C, doubled
<1>7. delay' = escalated(consecutiveFailures, interval)
  BY <1>1, <1>2, <1>4, <1>5, <1>6
<1>8. escalated(consecutiveFailures, interval) = backoff(err, consecutiveFailures, interval)
  BY <1>1 DEF backoff
<1>9. LoopComputesBackoff'
  BY <1>1, <1>7, <1>8 DEF LoopComputesBackoff
<1>10. QED
  BY <1>1, <1>9 DEF LoopInv

\* The ways out of the switch return what the closed form says.
LEMMA SwitchKeeps ==
    LoopInv /\ (ReturnInterval \/ ReturnRetryAfter \/ ReturnDegraded) => LoopInv'
<1> SUFFICES ASSUME LoopInv, ReturnInterval \/ ReturnRetryAfter \/ ReturnDegraded
             PROVE  LoopInv'
  OBVIOUS
<1>1. /\ pc = "switch" /\ pc' = "returned"
      /\ UNCHANGED <<err, consecutiveFailures, interval, i>>
  BY DEF ReturnInterval, ReturnRetryAfter, ReturnDegraded, Return, args
<1>2. CASE ReturnInterval
  <2>1. delay' = backoff(err, consecutiveFailures, interval)
    BY <1>2 DEF ReturnInterval, Return, backoff, NoError
  <2>2. QED
    BY <1>1, <2>1 DEF LoopInv, LoopComputesBackoff
<1>3. CASE ReturnRetryAfter
  <2>1. err.RetryAfter \in Nat /\ interval \in Nat /\ err # NoError
    <3>1. interval \in Nat
      BY IntervalFits DEF LoopInv
    <3>2. err # NoError
      BY <1>3 DEF ReturnRetryAfter, NoError
    <3>3. err \in FetchError
      BY <3>2 DEF LoopInv, Result
    <3>4. QED
      BY <3>1, <3>2, <3>3, ScheduleConstants DEF FetchError
  <2>2. delay' = Longest(err.RetryAfter, interval)
    BY <1>3, <2>1 DEF ReturnRetryAfter, Return, Longest
  <2>3. delay' = backoff(err, consecutiveFailures, interval)
    BY <1>3, <2>1, <2>2 DEF ReturnRetryAfter, backoff
  <2>4. QED
    BY <1>1, <2>3 DEF LoopInv, LoopComputesBackoff
<1>4. CASE ReturnDegraded
  <2>1. err # NoError
    BY <1>4 DEF ReturnDegraded, NoError
  <2>2. delay' = backoff(err, consecutiveFailures, interval)
    BY <1>4, <2>1 DEF ReturnDegraded, Return, backoff
  <2>3. QED
    BY <1>1, <2>2 DEF LoopInv, LoopComputesBackoff
<1>5. QED
  BY <1>2, <1>3, <1>4

LEMMA EnterLoopKeeps == LoopInv /\ EnterLoop => LoopInv'
<1> SUFFICES ASSUME LoopInv, EnterLoop PROVE LoopInv'
  OBVIOUS
<1>1. /\ pc = "switch" /\ pc' = "loop" /\ i = 1 /\ delay' = interval
      /\ UNCHANGED <<err, consecutiveFailures, interval, i>>
      /\ err.Kind = "Transient" /\ err # NoError /\ consecutiveFailures \in Nat \ {0}
  BY DEF EnterLoop, args, LoopInv, NoError
<1>2. interval \in Nat
  BY IntervalFits DEF LoopInv
<1>3. interval = interval * factor[1 - 1]
  BY <1>2, FactorDef
<1>4. Doubling'
  BY <1>1, <1>3 DEF Doubling
<1>5. QED
  BY <1>1, <1>4 DEF LoopInv, LoopComputesBackoff

\* backoff returns the closed form the poller is built on: no cadence an int64 holds
\* and no count of failures makes the doubling wrap (poller.go:229-233).
THEOREM LoopIsBackoff == Spec => []LoopComputesBackoff
<1>1. LoopInv /\ [Next]_vars => LoopInv'
  <2> SUFFICES ASSUME LoopInv, [Next]_vars PROVE LoopInv'
    OBVIOUS
  <2>1. CASE UNCHANGED vars
    BY <2>1 DEF vars, args, LoopInv, Doubling, LoopComputesBackoff
  <2>2. QED
    BY <2>1, DoubleKeeps, LeaveLoopKeeps, SwitchKeeps, EnterLoopKeeps DEF Next
<1>2. LoopInv => LoopComputesBackoff
  BY DEF LoopInv
<1>3. QED
  BY <1>1, <1>2, InitLoop, PTL DEF Spec

===============================================================================
