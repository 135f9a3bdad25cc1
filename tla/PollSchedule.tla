----------------------------- MODULE PollSchedule -----------------------------
(***************************************************************************)
(* The pure half of internal/poll: the cadence floor every caller is held   *)
(* to, and the delay that follows a poll, derived from what it returned.    *)
(*                                                                          *)
(* A duration is a natural number of the model's time units. An error is    *)
(* the record of the two fields of quota.FetchError the schedule reads; a   *)
(* nil error is NoError.                                                    *)
(***************************************************************************)
EXTENDS Naturals

CONSTANTS
    DefaultInterval,    \* poll.DefaultInterval: the fastest cadence allowed
    MaxBackoff,         \* poll.MaxBackoff: where exponential backoff stops
    DegradedInterval,   \* poll.DegradedInterval: no retry can clear the fault
    RetryAfters         \* the Retry-After values a vendor may answer with

\* The relations between the package's constants the proofs rely on: 300 s is
\* no more than 15 min, and 15 min no more than 30 min.
ASSUME ScheduleConstants ==
    /\ DefaultInterval \in Nat \ {0}
    /\ DegradedInterval \in Nat
    /\ MaxBackoff \in Nat
    /\ DefaultInterval <= DegradedInterval
    /\ DefaultInterval <= MaxBackoff
    /\ RetryAfters \subseteq Nat

FetchErrorKind == {"Unauthorized", "RateLimited", "Transient", "Protocol"}

\* usageapi records Retry-After whatever the status (usageapi.go:158).
FetchError == [Kind : FetchErrorKind, RetryAfter : RetryAfters]

NoError == [Kind |-> "None", RetryAfter |-> 0]

Result == FetchError \cup {NoError}

Cadence == {d \in Nat : d >= DefaultInterval}

Longest(a, b) == IF a >= b THEN a ELSE b

\* Mutant: callers may poll as fast as they like.
clampIntervalIgnored(interval) == interval

clampInterval(interval) ==
    IF interval < DefaultInterval THEN DefaultInterval ELSE interval

\* Mutant: the cap has no regard for a slower cadence.
ceilingIsMaxBackoff(interval) == MaxBackoff

ceiling(interval) == Longest(MaxBackoff, interval)

\* What n doublings multiply by.
factor[n \in Nat] == IF n = 0 THEN 1 ELSE 2 * factor[n - 1]

\* The doubling of poller.go:232 in closed form: doubled once per failure after
\* the first, while that stays within the ceiling. BackoffLoop has the loop of the
\* code, which computes this.
escalated(failures, interval) ==
    LET doubled == interval * factor[failures - 1]
    IN  IF doubled \in interval .. ceiling(interval)
        THEN doubled
        ELSE ceiling(interval)

backoff(err, failures, interval) ==
    CASE err = NoError -> interval
      [] err.Kind = "RateLimited" -> Longest(err.RetryAfter, interval)
      [] err.Kind \in {"Unauthorized", "Protocol"} -> DegradedInterval
      [] err.Kind = "Transient" -> escalated(failures, interval)

===============================================================================
