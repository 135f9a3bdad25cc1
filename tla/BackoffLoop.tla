------------------------------ MODULE BackoffLoop ------------------------------
(***************************************************************************)
(* poll.backoff statement by statement, on durations that wrap around: the   *)
(* doubling loop and its two bounds. Poller uses the closed form of          *)
(* PollSchedule; here the loop is shown to compute it.                       *)
(***************************************************************************)
EXTENDS PollSchedule, Integers

CONSTANTS
    Half,           \* durations range over -Half .. Half - 1; 2^63 in the code
    Intervals,      \* the cadences a poller may run at
    MaxFailures     \* bound: consecutive failures

ASSUME LoopConstants ==
    /\ Half \in Nat \ {0}
    /\ Intervals \subseteq DefaultInterval .. Half - 1
    /\ 2 * MaxBackoff < Half
    /\ MaxFailures \in Nat

VARIABLES
    err, consecutiveFailures, interval,     \* the arguments
    i, delay,                               \* the loop's own
    pc                                      \* "switch", "loop" or "returned"

args == <<err, consecutiveFailures, interval>>
vars == <<err, consecutiveFailures, interval, i, delay, pc>>

\* Two's complement: what an int64 holds after the multiplication.
wrap(x) == ((x + Half) % (2 * Half)) - Half

\* pollOnce resets the count on success and increments it on a failure.
Init ==
    /\ err \in Result
    /\ consecutiveFailures \in IF err = NoError THEN {0} ELSE 1 .. MaxFailures
    /\ interval \in Intervals
    /\ i = 1
    /\ delay = 0
    /\ pc = "switch"

Return(d) ==
    /\ delay' = d
    /\ pc' = "returned"
    /\ UNCHANGED <<args, i>>

\* The early returns: no error, and the kinds that do not escalate.
ReturnInterval == pc = "switch" /\ err = NoError /\ Return(interval)

ReturnRetryAfter ==
    /\ pc = "switch"
    /\ err.Kind = "RateLimited"
    /\ Return(IF err.RetryAfter > interval THEN err.RetryAfter ELSE interval)

ReturnDegraded ==
    /\ pc = "switch"
    /\ err.Kind \in {"Unauthorized", "Protocol"}
    /\ Return(DegradedInterval)

EnterLoop ==
    /\ pc = "switch"
    /\ err.Kind = "Transient"
    /\ delay' = interval
    /\ pc' = "loop"
    /\ UNCHANGED <<args, i>>

moreToDouble == i < consecutiveFailures /\ delay < ceiling(interval)

Double ==
    /\ pc = "loop"
    /\ moreToDouble
    /\ delay' = wrap(delay * 2)
    /\ i' = i + 1
    /\ UNCHANGED <<args, pc>>

\* Mutant: the last doubling may overshoot the ceiling.
LeaveLoopUncapped ==
    /\ pc = "loop"
    /\ ~moreToDouble
    /\ Return(delay)

LeaveLoop ==
    /\ pc = "loop"
    /\ ~moreToDouble
    /\ Return(IF delay > ceiling(interval) THEN ceiling(interval) ELSE delay)

Next ==
    \/ ReturnInterval
    \/ ReturnRetryAfter
    \/ ReturnDegraded
    \/ EnterLoop
    \/ Double
    \/ LeaveLoop

Spec == Init /\ [][Next]_vars

-------------------------------------------------------------------------------
\* The loop computes the closed form Poller is built on, for cadences up to the
\* largest duration there is and any count of failures: no value of either makes the
\* doubling wrap (poller.go:231).
LoopComputesBackoff ==
    pc = "returned" => delay = backoff(err, consecutiveFailures, interval)

===============================================================================
