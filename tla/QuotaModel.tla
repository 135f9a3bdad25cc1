------------------------------ MODULE QuotaModel ------------------------------
(***************************************************************************)
(* What internal/quota makes of a vendor's numbers: meters, the one that     *)
(* stands for all of them, severities, amounts of money, and the wait a      *)
(* Retry-After asks for; and the two gauges a percentage is drawn with.      *)
(*                                                                          *)
(* A percentage is a whole number of points, which JSON can make negative or *)
(* larger than 100. Durations and amounts have the width of Go's int64;      *)
(* instants are wider, as time.Time is.                                      *)
(***************************************************************************)
EXTENDS Integers, Sequences

CONSTANTS
    Half,                           \* 2^63: the integers are those from -Half up to Half
    Second, Minute, Hour, Day,      \* in nanoseconds
    MaxMoneyExponent,               \* maxMoneyExponent
    Nil                             \* a nil pointer, and the zero time

ASSUME QuotaConstants ==
    /\ {Second, Minute, Hour, Day} \subseteq Nat \ {0}
    /\ Half \in Nat
    /\ Day < Half
    /\ MaxMoneyExponent \in Nat
    /\ Nil \notin Int

Int64 == -Half .. Half - 1

\* What an operation whose result needs more bits leaves.
wrap(x) == ((x + Half) % (2 * Half)) - Half

\* Time.Sub stops at the ends.
Sub(at, from) ==
    IF at - from >= Half THEN Half - 1
    ELSE IF at - from < -Half THEN -Half
    ELSE at - from

-------------------------------------------------------------------------------
(* Meters *)

Severity == 1 .. 3
SeverityNormal == 1
SeverityWarning == 2
SeverityCritical == 3

Utilization(id, name, percent, reset, level, active) ==
    [shape |-> "utilization", id |-> id, name |-> name, percent |-> percent,
     reset |-> reset, level |-> level, active |-> active, used |-> Nil, limit |-> Nil]

Balance(id, name, percent, level, used, limit) ==
    [shape |-> "balance", id |-> id, name |-> name, percent |-> percent,
     reset |-> Nil, level |-> level, active |-> FALSE, used |-> used, limit |-> limit]

Outranks(m, other) ==
    \/ m.active /\ ~other.active
    \/ m.active = other.active /\ m.percent > other.percent

\* The loop keeps the first of the meters nothing outranks.
Primary(meters) ==
    IF meters = <<>> THEN Nil
    ELSE meters[CHOOSE i \in DOMAIN meters :
                    /\ \A j \in DOMAIN meters : ~Outranks(meters[j], meters[i])
                    /\ \A j \in 1 .. i - 1 : Outranks(meters[i], meters[j])]

SeverityFor(alerts, percent, vendor) ==
    LET local == IF percent >= alerts.crit THEN SeverityCritical
                 ELSE IF percent >= alerts.warn THEN SeverityWarning
                 ELSE SeverityNormal
    IN  IF vendor > local THEN vendor ELSE local

-------------------------------------------------------------------------------
(* Money *)

Money(minor, currency, exponent) ==
    [minor |-> minor, currency |-> currency, exponent |-> exponent]

\* The loop that makes the divisor, one digit each time round.
tenTo[places \in Nat] == IF places = 0 THEN 1 ELSE 10 * tenTo[places - 1]

\* Money.String: a sign, whole units, and the rest with as many digits as the
\* exponent. The magnitude is taken in the unsigned integers, where it exists.
Figures(m) ==
    LET places == IF m.exponent > MaxMoneyExponent THEN MaxMoneyExponent ELSE m.exponent
        magnitude == IF m.minor < 0 THEN wrap(-(m.minor + 1)) + 1 ELSE m.minor
    IN  [negative |-> m.minor < 0, whole |-> magnitude \div tenTo[places],
         rest |-> magnitude % tenTo[places], places |-> places,
         currency |-> IF m.currency = "" THEN "?" ELSE m.currency]

-------------------------------------------------------------------------------
(* Retry-After: seconds, or a date; anything else is no wait *)

ParseSeconds(n) ==
    IF n <= 0 THEN 0
    ELSE IF n > Day \div Second THEN Day
    ELSE wrap(n * Second)

ParseDate(at, now) ==
    IF Sub(at, now) <= 0 THEN 0
    ELSE IF Sub(at, now) < Day THEN Sub(at, now) ELSE Day

\* Digits too many for an int64 are neither, and so is a header of no known form.
ParseRetryAfter(header, now) ==
    CASE header.form = "seconds" /\ header.value \in Int64 -> ParseSeconds(header.value)
      [] header.form = "date" -> ParseDate(header.value, now)
      [] OTHER -> 0

-------------------------------------------------------------------------------
(* The gauges: progressBar's cells and fillHeight's rows of pixels *)

\* math.Round of percent / 100 * cells.
Rounded(percent, cells) == (2 * percent * cells + 100) \div 200

\* Mutant: a gauge of a used allowance may be empty.
progressBarTruncated(percent) ==
    IF percent <= 0 THEN 0 ELSE IF percent >= 100 THEN 10 ELSE percent \div 10

progressBar(percent) ==
    IF percent <= 0 THEN 0
    ELSE IF percent >= 100 THEN 10
    ELSE IF Rounded(percent, 10) = 0 THEN 1
    ELSE Rounded(percent, 10)

\* The interior of the icon is 24 pixels high.
fillHeight(percent) ==
    IF percent <= 0 THEN 0
    ELSE IF percent >= 100 THEN 24
    ELSE IF Rounded(percent, 24) = 0 THEN 1
    ELSE Rounded(percent, 24)
===============================================================================
