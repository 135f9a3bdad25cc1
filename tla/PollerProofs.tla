----------------------------- MODULE PollerProofs -----------------------------
(***************************************************************************)
(* Theorems of Poller, for every value of its constants.                    *)
(*                                                                          *)
(* The argument: as long as Run lives, a request on its way to it (in the    *)
(* channel, or accepted and not yet sent) was charged to lastPollAt, and     *)
(* lastPollAt is now when Run is about to look at the channel, and no older   *)
(* than the poll in flight otherwise. So no second request is accepted before  *)
(* that poll has lasted a floor, and unless that happens the next one comes    *)
(* a whole floor after the poll that served the last.                         *)
(***************************************************************************)
EXTENDS Poller, TLAPS

-------------------------------------------------------------------------------
(* The schedule *)

\* What a caller asks for is held to the floor.
LEMMA ClampIsCadence ==
    ASSUME NEW d \in Nat
    PROVE  clampInterval(d) \in Cadence
BY ScheduleConstants DEF clampInterval, Cadence

\* Exponential backoff stays between the cadence and its ceiling, however many
\* polls have failed.
LEMMA EscalatedBounds ==
    ASSUME NEW failures, NEW iv \in Cadence
    PROVE  /\ escalated(failures, iv) \in Nat
           /\ escalated(failures, iv) >= iv
           /\ escalated(failures, iv) <= ceiling(iv)
<1> DEFINE doubled == iv * factor[failures - 1]
<1>1. /\ ceiling(iv) \in Nat
      /\ iv \in Nat
      /\ iv <= ceiling(iv)
  BY ScheduleConstants DEF ceiling, Longest, Cadence
<1>2. CASE doubled \in iv .. ceiling(iv)
  <2>1. escalated(failures, iv) = doubled
    BY <1>2 DEF escalated
  <2> HIDE DEF doubled
  <2>2. QED
    BY <1>1, <1>2, <2>1
<1>3. CASE doubled \notin iv .. ceiling(iv)
  <2>1. escalated(failures, iv) = ceiling(iv)
    BY <1>3 DEF escalated
  <2>2. QED
    BY <1>1, <2>1
<1>4. QED
  BY <1>2, <1>3

\* No answer makes the next automatic poll come sooner than DefaultInterval, and
\* a 429 never sooner than the vendor asked (poller.go:206).
THEOREM BackoffKeepsFloor ==
    ASSUME NEW err \in Result, NEW failures, NEW iv \in Cadence
    PROVE  /\ backoff(err, failures, iv) \in Nat
           /\ backoff(err, failures, iv) >= DefaultInterval
           /\ err.Kind = "RateLimited" => backoff(err, failures, iv) >= err.RetryAfter
<1>1. /\ escalated(failures, iv) \in Nat
      /\ escalated(failures, iv) >= iv
  BY EscalatedBounds
<1>2. iv \in Nat /\ iv >= DefaultInterval
  BY DEF Cadence
<1>3. CASE err = NoError
  BY <1>2, <1>3, ScheduleConstants DEF backoff, NoError
<1>4. CASE err \in FetchError
  <2>1. err # NoError /\ err.Kind \in FetchErrorKind /\ err.RetryAfter \in Nat
    <3>1. err.Kind \in FetchErrorKind /\ err.RetryAfter \in Nat
      BY <1>4, ScheduleConstants DEF FetchError
    <3>2. NoError.Kind \notin FetchErrorKind
      BY DEF NoError, FetchErrorKind
    <3>3. QED
      BY <3>1, <3>2
  <2>2. CASE err.Kind = "RateLimited"
    BY <1>2, <2>1, <2>2, ScheduleConstants DEF backoff, Longest
  <2>3. CASE err.Kind \in {"Unauthorized", "Protocol"}
    BY <1>2, <2>1, <2>3, ScheduleConstants DEF backoff
  <2>4. CASE err.Kind = "Transient"
    <3>1. backoff(err, failures, iv) = escalated(failures, iv)
      BY <2>1, <2>4 DEF backoff
    <3>2. QED
      BY <1>1, <1>2, <2>4, <3>1, ScheduleConstants
  <2>5. QED
    BY <2>1, <2>2, <2>3, <2>4 DEF FetchErrorKind
<1>5. QED
  BY <1>3, <1>4 DEF Result

-------------------------------------------------------------------------------
(* Type correctness *)

\* The state a poll records has the type of State.
LEMMA ObservedType ==
    ASSUME TypeOK, NEW err \in Result
    PROVE  observed(err, clock) \in State
<1>1. NoError \in Result
  BY DEF Result
<1>2. state \in State /\ clock \in Nat
  BY DEF TypeOK
<1>3. CASE err = NoError
  <2> DEFINE seen == [state EXCEPT !.Snapshot = TRUE, !.UpdatedAt = clock,
                                   !.LastError = NoError,
                                   !.ConsecutiveFailures = 0]
  <2>1. observed(err, clock) = seen
    BY <1>3 DEF observed
  <2>2. \A e \in Result :
          [state EXCEPT !.Snapshot = TRUE, !.UpdatedAt = clock, !.LastError = e,
                        !.ConsecutiveFailures = 0] \in State
    BY <1>2 DEF State
  <2>3. QED
    BY <1>1, <2>1, <2>2
<1>4. CASE err # NoError
  <2>1. observed(err, clock)
          = [state EXCEPT !.LastError = err, !.ConsecutiveFailures = @ + 1]
    BY <1>4 DEF observed
  <2>2. state.ConsecutiveFailures + 1 \in Nat
    BY <1>2 DEF State
  <2>3. \A n \in Nat :
          [state EXCEPT !.LastError = err, !.ConsecutiveFailures = n] \in State
    BY <1>2 DEF State
  <2>4. QED
    BY <2>1, <2>2, <2>3
<1>5. QED
  BY <1>3, <1>4

\* The initial state is well typed.
LEMMA InitType == Init => TypeOK
<1> SUFFICES ASSUME Init PROVE TypeOK
  OBVIOUS
<1>1. interval \in Cadence
  BY PollerConstants, ClampIsCadence DEF Init
<1>2. state \in State
  <2>1. NoError \in Result
    BY DEF Result
  <2>2. \A e \in Result :
          [Snapshot |-> FALSE, UpdatedAt |-> 0, LastError |-> e,
           NextPollAt |-> 0, ConsecutiveFailures |-> 0] \in State
    BY DEF State
  <2>3. QED
    BY <2>1, <2>2 DEF Init, ZeroTime
<1>3. /\ clock \in Nat \ {ZeroTime} /\ lastPollAt \in Nat
      /\ fetchStart \in Nat \ {ZeroTime}
      /\ delay \in Nat /\ timer \in Nat /\ doneAt \in Nat /\ userPollAt \in Nat
  BY DEF Init, ZeroTime
<1>4. /\ refresh \in BOOLEAN /\ cancelled \in BOOLEAN /\ owed \in BOOLEAN
      /\ overlapped \in BOOLEAN
      /\ pc \in {"fetching", "publishing", "waiting", "stopped"}
      /\ caller \in [Callers -> {"idle", "sending"}]
  BY DEF Init
<1>5. QED
  BY <1>1, <1>2, <1>3, <1>4 DEF TypeOK

\* Every step keeps the types.
LEMMA NextType == TypeOK /\ [Next]_vars => TypeOK'
<1> SUFFICES ASSUME TypeOK, [Next]_vars PROVE TypeOK'
  OBVIOUS
<1> USE DEF TypeOK
<1>1. CASE \E c \in Callers : AcceptRefresh(c)
  <2>1. Pending \in BOOLEAN
    BY DEF Pending
  <2>2. QED
    BY <1>1, <2>1 DEF AcceptRefresh
<1>2. CASE \E c \in Callers : SendRefresh(c)
  BY <1>2 DEF SendRefresh, guarded, history
<1>3. CASE \E d \in IntervalRequests : SetInterval(d)
  BY <1>3, PollerConstants, ClampIsCadence DEF SetInterval, history
<1>4. CASE Cancel
  BY <1>4 DEF Cancel, guarded, history
<1>5. CASE \E err \in Result : RecordResult(err)
  <2> PICK err \in Result : RecordResult(err)
    BY <1>5
  <2> DEFINE seen == observed(err, clock)
             wait == backoff(err, seen.ConsecutiveFailures, interval)
  <2>1. seen \in State
    BY ObservedType
  <2>2. wait \in Nat
    BY BackoffKeepsFloor
  <2>3. state' = [seen EXCEPT !.NextPollAt = clock + wait] /\ delay' = wait
    BY DEF RecordResult
  <2> HIDE DEF seen, wait
  <2>4. state' \in State
    BY <2>1, <2>2, <2>3 DEF State
  <2>5. QED
    BY <2>2, <2>3, <2>4 DEF RecordResult
<1>6. CASE PublishAndArm
  BY <1>6 DEF PublishAndArm, guarded, history
<1>7. CASE Stop
  BY <1>7 DEF Stop, guarded, history
<1>8. CASE TimerWakes
  BY <1>8 DEF TimerWakes, StartPoll, guarded
<1>9. CASE RefreshWakes
  BY <1>9 DEF RefreshWakes, StartPoll, guarded
<1>10. CASE Tick
  BY <1>10 DEF Tick, guarded, history, ZeroTime
<1>11. CASE UNCHANGED vars
  BY <1>11 DEF vars
<1>12. QED
  BY <1>1, <1>2, <1>3, <1>4, <1>5, <1>6, <1>7, <1>8, <1>9, <1>10, <1>11
  DEF Next, Select

\* Every variable keeps its type; in particular the cadence in force is never
\* below DefaultInterval.
THEOREM TypeCorrect == Spec => []TypeOK
<1>1. QED
  BY InitType, NextType, PTL DEF Spec

-------------------------------------------------------------------------------
(* The floor *)

\* No instant is in the future.
Causal ==
    /\ lastPollAt <= clock
    /\ doneAt <= clock
    /\ userPollAt <= lastPollAt
    /\ fetchStart <= clock
    /\ pc = "publishing" => lastPollAt = clock /\ doneAt = clock

\* A pending request was charged to lastPollAt: at this instant if Run is about
\* to look for it, and during the poll in flight otherwise.
Charged ==
    Pending => /\ pc = "fetching" => lastPollAt >= fetchStart
               /\ pc = "waiting" => lastPollAt = clock

\* Unless grants overlapped, one request at most is on its way to Run, and it was
\* granted a floor after the last poll a request triggered.
Spaced ==
    ~overlapped /\ pc # "stopped" =>
        /\ \A c, d \in Sending : c = d
        /\ refresh => Sending = {}
        /\ Pending /\ userPollAt # ZeroTime
              => lastPollAt >= userPollAt + RefreshFloor

\* The timer of this round leaves DefaultInterval after the last answer.
Timed ==
    /\ pc = "publishing" => delay >= DefaultInterval
    /\ pc = "waiting" => timer >= doneAt + DefaultInterval

FloorInv == Causal /\ Charged /\ Spaced /\ Timed

\* Nothing is pending when Run starts.
LEMMA InitFloor == Init => FloorInv
<1> SUFFICES ASSUME Init PROVE FloorInv
  OBVIOUS
<1>1. ~Pending /\ Sending = {}
  BY DEF Init, Pending, Sending
<1>2. Causal /\ Timed
  BY PollerConstants DEF Init, Causal, Timed, ZeroTime
<1>3. QED
  BY <1>1, <1>2 DEF FloorInv, Charged, Spaced, Pending

\* While a request is pending, Refresh grants another only during a poll that has
\* outlasted the floor: the request was charged no sooner than that poll began.
LEMMA GrantedWhilePending ==
    ASSUME TypeOK, FloorInv, Pending, pc # "stopped", ~tooSoon
    PROVE  pc = "fetching" /\ clock >= fetchStart + RefreshFloor
<1> USE PollerConstants DEF TypeOK, tooSoon, ZeroTime
<1>1. pc \in {"fetching", "publishing", "waiting"}
  OBVIOUS
<1>2. CASE pc = "fetching"
  BY <1>2 DEF FloorInv, Charged
<1>3. CASE pc = "publishing"
  BY <1>3 DEF FloorInv, Causal
<1>4. CASE pc = "waiting"
  BY <1>4 DEF FloorInv, Charged
<1>5. QED
  BY <1>1, <1>2, <1>3, <1>4

\* A granted request is charged at the instant it is granted.
LEMMA AcceptKeepsFloor ==
    ASSUME TypeOK, FloorInv, NEW c \in Callers, AcceptRefresh(c)
    PROVE  FloorInv'
<1> USE PollerConstants DEF TypeOK, FloorInv, ZeroTime
<1>1. Sending' \subseteq Sending \cup {c}
  BY DEF AcceptRefresh, Sending
<1>2. Causal' /\ Timed'
  BY DEF AcceptRefresh, Causal, Timed
<1>3. Charged'
  BY DEF AcceptRefresh, Causal, Charged
<1>4. Spaced'
  <2>1. CASE Pending
    BY <2>1 DEF AcceptRefresh, Spaced
  <2>2. CASE ~Pending
    <3>1. Sending' \subseteq {c} /\ ~refresh'
      BY <1>1, <2>2 DEF AcceptRefresh, Pending
    <3>2. userPollAt = ZeroTime \/ lastPollAt # ZeroTime
      BY DEF Causal
    <3>3. userPollAt # ZeroTime => clock >= userPollAt + RefreshFloor
      BY <3>2 DEF AcceptRefresh, tooSoon, Causal
    <3>4. QED
      BY <3>1, <3>3 DEF AcceptRefresh, Spaced
  <2>3. QED
    BY <2>1, <2>2
<1>5. QED
  BY <1>2, <1>3, <1>4

\* The send moves the one pending request from its caller to the channel.
LEMMA SendKeepsFloor ==
    ASSUME TypeOK, FloorInv, NEW c \in Callers, SendRefresh(c)
    PROVE  FloorInv'
<1> USE DEF TypeOK, FloorInv
<1>1. c \in Sending /\ Pending
  BY DEF SendRefresh, Sending, Pending
<1>2. Sending' = Sending \ {c}
  BY DEF SendRefresh, Sending
<1>3. Causal' /\ Timed'
  BY DEF SendRefresh, guarded, history, Causal, Timed
<1>4. Charged'
  BY <1>1 DEF SendRefresh, guarded, history, Charged
<1>5. Spaced'
  BY <1>1, <1>2 DEF SendRefresh, guarded, history, Spaced
<1>6. QED
  BY <1>3, <1>4, <1>5

\* Recording an answer charges the floor again.
LEMMA RecordKeepsFloor ==
    ASSUME TypeOK, FloorInv, NEW err \in Result, RecordResult(err)
    PROVE  FloorInv'
<1> USE DEF TypeOK, FloorInv
<1>1. delay' >= DefaultInterval
  <2>1. \A n : backoff(err, n, interval) >= DefaultInterval
    BY BackoffKeepsFloor
  <2>2. QED
    BY <2>1 DEF RecordResult
<1>2. Pending' = Pending /\ Sending' = Sending
  BY DEF RecordResult, Pending, Sending
<1>3. Causal' /\ Timed'
  BY <1>1 DEF RecordResult, Causal, Timed
<1>4. Charged' /\ Spaced'
  BY <1>2, PollerConstants DEF RecordResult, Causal, Charged, Spaced, ZeroTime
<1>5. QED
  BY <1>3, <1>4

\* When a request wakes Run no other is pending, unless grants overlapped.
LEMMA RefreshWakesKeepsFloor ==
    ASSUME TypeOK, FloorInv, RefreshWakes
    PROVE  FloorInv'
<1> USE PollerConstants DEF TypeOK, FloorInv
<1>1. Pending /\ lastPollAt = clock
  BY DEF RefreshWakes, Pending, Charged
<1>2. Sending' = Sending
  BY DEF RefreshWakes, Sending
<1>3. Causal' /\ Timed' /\ Charged'
  BY <1>1 DEF RefreshWakes, StartPoll, guarded, Causal, Timed, Charged
<1>4. Spaced'
  <2>1. CASE overlapped
    BY <2>1 DEF RefreshWakes, Spaced
  <2>2. CASE ~overlapped
    <3>1. Sending = {}
      BY <2>2 DEF RefreshWakes, Spaced
    <3>2. ~Pending'
      BY <1>2, <3>1 DEF RefreshWakes, Pending
    <3>3. QED
      BY <1>2, <3>1, <3>2 DEF Spaced
  <2>3. QED
    BY <2>1, <2>2
<1>5. QED
  BY <1>3, <1>4

\* Every step keeps the floor.
LEMMA NextFloor == TypeOK /\ FloorInv /\ [Next]_vars => FloorInv'
<1> SUFFICES ASSUME TypeOK, FloorInv, [Next]_vars PROVE FloorInv'
  OBVIOUS
<1>1. CASE \E c \in Callers : AcceptRefresh(c)
  BY <1>1, AcceptKeepsFloor
<1>2. CASE \E c \in Callers : SendRefresh(c)
  BY <1>2, SendKeepsFloor
<1>3. CASE \E d \in IntervalRequests : SetInterval(d)
  BY <1>3 DEF SetInterval, history, FloorInv, Causal, Charged, Spaced, Timed,
              Pending, Sending
<1>4. CASE Cancel
  BY <1>4 DEF Cancel, guarded, history, FloorInv, Causal, Charged, Spaced, Timed,
              Pending, Sending
<1>5. CASE \E err \in Result : RecordResult(err)
  BY <1>5, RecordKeepsFloor
<1>6. CASE PublishAndArm
  <2>1. timer' >= doneAt' + DefaultInterval
    BY <1>6, ScheduleConstants
    DEF PublishAndArm, guarded, history, FloorInv, Causal, Timed, TypeOK
  <2>2. QED
    BY <1>6, <2>1
    DEF PublishAndArm, guarded, history, FloorInv, Causal, Charged, Spaced, Timed,
        Pending, Sending
<1>7. CASE Stop
  BY <1>7 DEF Stop, guarded, history, FloorInv, Causal, Charged, Spaced, Timed,
              Pending, Sending
<1>8. CASE TimerWakes
  BY <1>8, PollerConstants
  DEF TimerWakes, StartPoll, guarded, FloorInv, Causal, Charged, Spaced, Timed,
      Pending, Sending, TypeOK
<1>9. CASE RefreshWakes
  BY <1>9, RefreshWakesKeepsFloor
<1>10. CASE Tick
  <2> USE <1>10 DEF Tick, Runnable, guarded, history, FloorInv, TypeOK
  <2>1. Pending' = Pending /\ Sending' = Sending
    BY DEF Pending, Sending
  <2>2. Sending = {} /\ (pc = "waiting" => ~Pending)
    BY DEF Pending, Sending
  <2>3. Causal'
    BY PollerConstants DEF Causal
  <2>4. Charged' /\ Spaced'
    BY <2>1, <2>2 DEF Charged, Spaced
  <2>5. Timed'
    BY <2>1 DEF Timed
  <2>6. QED
    BY <2>3, <2>4, <2>5
<1>11. CASE UNCHANGED vars
  BY <1>11 DEF vars, FloorInv, Causal, Charged, Spaced, Timed,
               Pending, Sending
<1>12. QED
  BY <1>1, <1>2, <1>3, <1>4, <1>5, <1>6, <1>7, <1>8, <1>9, <1>10, <1>11
  DEF Next, Select

\* The invariant the two spacing theorems rest on.
THEOREM FloorKept == Spec => [](TypeOK /\ FloorInv)
<1>1. Init => TypeOK /\ FloorInv
  BY InitType, InitFloor
<1>2. TypeOK /\ FloorInv /\ [Next]_vars => (TypeOK /\ FloorInv)'
  BY NextType, NextFloor
<1>3. QED
  BY <1>1, <1>2, PTL DEF Spec

\* A second request is granted while one is on its way only during a poll that has
\* outlasted the floor.
THEOREM GrantsOverlap == Spec => GrantsOverlapOnlyInSlowPolls
<1>1. TypeOK /\ FloorInv /\ [Next]_vars
        => [(\E c \in Callers : AcceptRefresh(c)) /\ Pending /\ pc # "stopped"
              => pc = "fetching" /\ clock >= fetchStart + RefreshFloor]_vars
  <2> SUFFICES ASSUME TypeOK, FloorInv, NEW c \in Callers, AcceptRefresh(c), Pending,
                      pc # "stopped"
               PROVE  pc = "fetching" /\ clock >= fetchStart + RefreshFloor
    OBVIOUS
  <2>1. QED
    BY GrantedWhilePending DEF AcceptRefresh
<1>2. QED
  BY <1>1, FloorKept, PTL DEF Spec, GrantsOverlapOnlyInSlowPolls

\* Polls that Refresh triggers start ManualRefreshFloor apart, in every interleaving of
\* callers, timer and poll, save where two grants overlapped; GrantsOverlap says when
\* they do: while a poll outlasts the floor, and never else.
THEOREM UserPollsSpaced == Spec => UserPollSpacing
<1>1. TypeOK /\ FloorInv /\ [Next]_vars
        => [RefreshWakes /\ userPollAt # ZeroTime /\ ~overlapped
              => clock >= userPollAt + RefreshFloor]_vars
  <2> SUFFICES ASSUME TypeOK, FloorInv, RefreshWakes, userPollAt # ZeroTime,
                      ~overlapped
               PROVE  clock >= userPollAt + RefreshFloor
    OBVIOUS
  <2>1. Pending /\ pc = "waiting"
    BY DEF RefreshWakes, Pending
  <2>2. QED
    BY <2>1 DEF FloorInv, Charged, Spaced
<1>2. QED
  BY <1>1, FloorKept, PTL DEF Spec, UserPollSpacing

\* A poll the timer triggers starts DefaultInterval or more after the last
\* answer, whatever cadence is set meanwhile.
THEOREM TimerKeepsFloor == Spec => TimerNeverBeatsFloor
<1>1. TypeOK /\ FloorInv /\ [Next]_vars
        => [TimerWakes => clock >= doneAt + DefaultInterval]_vars
  <2> SUFFICES ASSUME TypeOK, FloorInv, TimerWakes
               PROVE  clock >= doneAt + DefaultInterval
    OBVIOUS
  <2>1. QED
    BY ScheduleConstants DEF TimerWakes, FloorInv, Timed, TypeOK
<1>2. QED
  BY <1>1, FloorKept, PTL DEF Spec, TimerNeverBeatsFloor

-------------------------------------------------------------------------------
(* What the UI is told *)

\* The delay pollOnce will return is the one NextPollAt was derived from.
TimerInv ==
    /\ pc = "publishing" => state.NextPollAt = clock + delay
    /\ NextPollAtIsTheTimer

\* Between the unlock of pollOnce and the arming of the timer no time passes and
\* nobody writes the state, though SetInterval may change the cadence.
LEMMA NextTimer == TypeOK /\ TimerInv /\ [Next]_vars => TimerInv'
<1> SUFFICES ASSUME TypeOK, TimerInv, [Next]_vars PROVE TimerInv'
  OBVIOUS
<1> USE DEF TimerInv, NextPollAtIsTheTimer
<1>1. CASE \E err \in Result : RecordResult(err)
  <2> PICK err \in Result : RecordResult(err)
    BY <1>1
  <2>1. observed(err, clock) \in State
    BY ObservedType
  <2>2. state'.NextPollAt = clock' + delay'
    BY <2>1 DEF RecordResult, State
  <2>3. QED
    BY <2>2 DEF RecordResult
<1>2. CASE PublishAndArm
  BY <1>2 DEF PublishAndArm, guarded
<1>3. CASE Stop \/ TimerWakes \/ RefreshWakes
  BY <1>3 DEF Stop, TimerWakes, RefreshWakes, StartPoll
<1>4. CASE Tick
  BY <1>4 DEF Tick, Runnable, guarded
<1>5. CASE \E c \in Callers : AcceptRefresh(c) \/ SendRefresh(c)
  BY <1>5 DEF AcceptRefresh, SendRefresh, guarded
<1>6. CASE (\E d \in IntervalRequests : SetInterval(d)) \/ Cancel
  BY <1>6 DEF SetInterval, Cancel, guarded
<1>7. CASE UNCHANGED vars
  BY <1>7 DEF vars
<1>8. QED
  BY <1>1, <1>2, <1>3, <1>4, <1>5, <1>6, <1>7 DEF Next, Select

\* The instant the UI shows for the next poll is the one the timer was armed for.
THEOREM NextPollIsShown == Spec => []NextPollAtIsTheTimer
<1>1. Init => TimerInv
  BY DEF Init, TimerInv, NextPollAtIsTheTimer
<1>2. TimerInv => NextPollAtIsTheTimer
  BY DEF TimerInv
<1>3. QED
  BY <1>1, <1>2, InitType, NextType, NextTimer, PTL DEF Spec

\* Only pollOnce writes the figures, their age and the error, all under one lock.
LEMMA NextStale == TypeOK /\ OldFiguresAreStale /\ [Next]_vars => OldFiguresAreStale'
<1> SUFFICES ASSUME TypeOK, OldFiguresAreStale, [Next]_vars PROVE OldFiguresAreStale'
  OBVIOUS
<1> USE DEF OldFiguresAreStale, IsStale
<1>1. CASE \E err \in Result : RecordResult(err)
  <2> PICK err \in Result : RecordResult(err)
    BY <1>1
  <2>1. observed(err, clock) \in State
    BY ObservedType
  <2>2. /\ state'.Snapshot = observed(err, clock).Snapshot
        /\ state'.UpdatedAt = observed(err, clock).UpdatedAt
        /\ state'.LastError = observed(err, clock).LastError
        /\ doneAt' = clock
    BY <2>1 DEF RecordResult, State
  <2>3. state \in State /\ clock \in Nat
    BY DEF TypeOK
  <2>4. CASE err = NoError
    BY <2>2, <2>3, <2>4 DEF observed, State
  <2>5. CASE err # NoError
    BY <2>2, <2>3, <2>5 DEF observed, State
  <2>6. QED
    BY <2>4, <2>5
<1>2. CASE state' = state /\ doneAt' = doneAt
  BY <1>2
<1>3. QED
  BY <1>1, <1>2
  DEF Next, Select, AcceptRefresh, SendRefresh, SetInterval, Cancel, PublishAndArm,
      Stop, TimerWakes, RefreshWakes, StartPoll, Tick, guarded, history, vars

\* Figures older than the last poll are disclosed as stale.
THEOREM StaleIsDisclosed == Spec => []OldFiguresAreStale
<1>1. Init => OldFiguresAreStale
  BY DEF Init, OldFiguresAreStale
<1>2. QED
  BY <1>1, InitType, NextType, NextStale, PTL DEF Spec

===============================================================================
