-------------------------------- MODULE Poller --------------------------------
(***************************************************************************)
(* internal/poll.Poller: one goroutine in Run, any number of goroutines in   *)
(* Refresh, the UI in SetInterval, and the provider's answer at the far end  *)
(* of Fetch.                                                                 *)
(*                                                                          *)
(* An action is a stretch of code with no other goroutine's step inside it: *)
(* Refresh is one step up to its unlock and another for its channel send;   *)
(* pollOnce is one step for the request, one for the locked section that    *)
(* records the answer, and one for onUpdate and the arming of the timer.    *)
(*                                                                          *)
(* Only waiting takes time: the request, for at most FetchTimeout, and the  *)
(* select of Run. A goroutine that is able to run does so before the clock  *)
(* moves, in any order with the others that are able to run.                *)
(***************************************************************************)
EXTENDS PollSchedule

CONSTANTS
    RefreshFloor,       \* poll.ManualRefreshFloor
    FetchTimeout,       \* bound: the longest Fetch. A request is cut off after
                        \* usageapi.requestTimeout, but before it the credentials
                        \* may be read from a distribution that has to boot
    IntervalRequests,   \* what callers pass to New and SetInterval
    Callers,            \* the goroutines that call Refresh
    MaxTime             \* bound: the clock stops here

ASSUME PollerConstants ==
    /\ RefreshFloor \in Nat \ {0}
    /\ FetchTimeout \in Nat
    /\ IntervalRequests \subseteq Nat
    /\ MaxTime \in Nat

\* The zero time.Time; the clock never shows it.
ZeroTime == 0

VARIABLES
    clock,          \* what now() returns
    \* mu guards these three
    state,          \* Poller.state
    lastPollAt,     \* Poller.lastPollAt
    interval,       \* Poller.interval
    refresh,        \* whether the channel of capacity 1 holds a request
    \* the goroutine in Run
    pc,             \* "fetching", "publishing", "waiting" or "stopped"
    fetchStart,     \* when the request in flight was sent
    delay,          \* what pollOnce will return
    timer,          \* when the timer of this round fires
    \* everyone else
    cancelled,      \* ctx is done
    caller,         \* per caller: outside Refresh, or between unlock and send
    \* history, read by the properties only
    doneAt,         \* when the last answer was recorded
    userPollAt,     \* when the last poll that Refresh woke was started
    owed,           \* Refresh returned true and no poll has started since
    overlapped      \* the last request granted found another one pending

guarded == <<state, lastPollAt, interval>>
history == <<doneAt, userPollAt, owed, overlapped>>
vars == <<clock, state, lastPollAt, interval, refresh, pc, fetchStart, delay,
          timer, cancelled, caller, doneAt, userPollAt, owed, overlapped>>

\* poll.State, with the snapshot reduced to whether there is one.
State == [Snapshot : BOOLEAN, UpdatedAt : Nat, LastError : Result,
          NextPollAt : Nat, ConsecutiveFailures : Nat]

IsStale(s) == s.LastError # NoError /\ s.Snapshot

TypeOK ==
    /\ clock \in Nat \ {ZeroTime}
    /\ state \in State
    /\ lastPollAt \in Nat
    /\ interval \in Cadence
    /\ refresh \in BOOLEAN
    /\ pc \in {"fetching", "publishing", "waiting", "stopped"}
    /\ fetchStart \in Nat \ {ZeroTime}
    /\ delay \in Nat
    /\ timer \in Nat
    /\ cancelled \in BOOLEAN
    /\ caller \in [Callers -> {"idle", "sending"}]
    /\ doneAt \in Nat
    /\ userPollAt \in Nat
    /\ owed \in BOOLEAN
    /\ overlapped \in BOOLEAN

-------------------------------------------------------------------------------
\* New, and Run up to the first request: Run polls once without waiting.
Init ==
    /\ clock = 1
    /\ state = [Snapshot |-> FALSE, UpdatedAt |-> ZeroTime, LastError |-> NoError,
                NextPollAt |-> ZeroTime, ConsecutiveFailures |-> 0]
    /\ lastPollAt = ZeroTime
    /\ interval \in {clampInterval(d) : d \in IntervalRequests}
    /\ refresh = FALSE
    /\ pc = "fetching"
    /\ fetchStart = 1
    /\ delay = 0
    /\ timer = ZeroTime
    /\ cancelled = FALSE
    /\ caller = [c \in Callers |-> "idle"]
    /\ doneAt = ZeroTime
    /\ userPollAt = ZeroTime
    /\ owed = FALSE
    /\ overlapped = FALSE

-------------------------------------------------------------------------------
(* Refresh *)

Sending == {c \in Callers : caller[c] = "sending"}

\* A granted request that no poll has taken from the channel yet.
Pending == refresh \/ Sending # {}

\* Mutant: no floor at all.
tooSoonIgnored == FALSE

tooSoon == lastPollAt # ZeroTime /\ clock - lastPollAt < RefreshFloor

\* Mutant: the floor is charged by the poll alone and not at acceptance.
AcceptRefreshUncharged(c) ==
    /\ caller[c] = "idle"
    /\ ~tooSoon
    /\ caller' = [caller EXCEPT ![c] = "sending"]
    /\ owed' = TRUE
    /\ overlapped' = Pending
    /\ UNCHANGED <<clock, guarded, refresh, pc, fetchStart, delay, timer,
                   cancelled, doneAt, userPollAt>>

\* Refresh up to the unlock of an accepted request, which charges the floor. A
\* rejected one changes nothing.
AcceptRefresh(c) ==
    /\ caller[c] = "idle"
    /\ ~tooSoon
    /\ lastPollAt' = clock
    /\ caller' = [caller EXCEPT ![c] = "sending"]
    /\ owed' = TRUE
    /\ overlapped' = Pending
    /\ UNCHANGED <<clock, state, interval, refresh, pc, fetchStart, delay,
                   timer, cancelled, doneAt, userPollAt>>

\* Mutant: a channel without capacity, whose send reaches Run in its select or
\* nobody.
SendRefreshUnbuffered(c) ==
    /\ caller[c] = "sending"
    /\ refresh' = (refresh \/ pc = "waiting")
    /\ caller' = [caller EXCEPT ![c] = "idle"]
    /\ UNCHANGED <<clock, guarded, pc, fetchStart, delay, timer, cancelled, history>>

\* The send of Refresh: a full channel already holds a request and takes none.
SendRefresh(c) ==
    /\ caller[c] = "sending"
    /\ refresh' = TRUE
    /\ caller' = [caller EXCEPT ![c] = "idle"]
    /\ UNCHANGED <<clock, guarded, pc, fetchStart, delay, timer, cancelled, history>>

SetInterval(d) ==
    /\ interval' = clampInterval(d)
    /\ UNCHANGED <<clock, state, lastPollAt, refresh, pc, fetchStart, delay,
                   timer, cancelled, caller, history>>

Cancel ==
    /\ cancelled' = TRUE
    /\ UNCHANGED <<clock, guarded, refresh, pc, fetchStart, delay, timer,
                   caller, history>>

-------------------------------------------------------------------------------
(* Run *)

\* Mutant: a transient failure is retried without a word.
observedQuietly(err, now) ==
    IF err = NoError
    THEN [state EXCEPT !.Snapshot = TRUE,
                       !.UpdatedAt = now,
                       !.LastError = NoError,
                       !.ConsecutiveFailures = 0]
    ELSE [state EXCEPT !.LastError = IF err.Kind = "Transient" THEN @ ELSE err,
                       !.ConsecutiveFailures = @ + 1]

\* The state pollOnce records when Fetch returned err at the instant now.
observed(err, now) ==
    IF err = NoError
    THEN [state EXCEPT !.Snapshot = TRUE,
                       !.UpdatedAt = now,
                       !.LastError = NoError,
                       !.ConsecutiveFailures = 0]
    ELSE [state EXCEPT !.LastError = err,
                       !.ConsecutiveFailures = @ + 1]

\* Mutant: the poll does not charge the floor again when it is over.
RecordResultUncharged(err) ==
    LET seen == observed(err, clock)
        wait == backoff(err, seen.ConsecutiveFailures, interval)
    IN  /\ pc = "fetching"
        /\ pc' = "publishing"
        /\ delay' = wait
        /\ state' = [seen EXCEPT !.NextPollAt = clock + wait]
        /\ doneAt' = clock
        /\ UNCHANGED <<clock, lastPollAt, interval, refresh, fetchStart, timer,
                       cancelled, caller, userPollAt, owed, overlapped>>

\* pollOnce from the return of Fetch to the unlock.
RecordResult(err) ==
    LET seen == observed(err, clock)
        wait == backoff(err, seen.ConsecutiveFailures, interval)
    IN  /\ pc = "fetching"
        /\ pc' = "publishing"
        /\ lastPollAt' = clock
        /\ delay' = wait
        /\ state' = [seen EXCEPT !.NextPollAt = clock + wait]
        /\ doneAt' = clock
        /\ UNCHANGED <<clock, interval, refresh, fetchStart, timer, cancelled,
                       caller, userPollAt, owed, overlapped>>

\* Mutant: the delay is derived again, outside the lock, when the timer is armed.
PublishAndArmRecomputed ==
    /\ pc = "publishing"
    /\ pc' = "waiting"
    /\ timer' = clock + backoff(state.LastError, state.ConsecutiveFailures, interval)
    /\ UNCHANGED <<clock, guarded, refresh, fetchStart, delay, cancelled,
                   caller, history>>

\* onUpdate, the return of pollOnce, and after(delay) in Run.
PublishAndArm ==
    /\ pc = "publishing"
    /\ pc' = "waiting"
    /\ timer' = clock + delay
    /\ UNCHANGED <<clock, guarded, refresh, fetchStart, delay, cancelled,
                   caller, history>>

StartPoll ==
    /\ pc' = "fetching"
    /\ fetchStart' = clock
    /\ owed' = FALSE

\* The three branches of Run's select: of those ready, any may be taken.
Stop ==
    /\ pc = "waiting"
    /\ cancelled
    /\ pc' = "stopped"
    /\ UNCHANGED <<clock, guarded, refresh, fetchStart, delay, timer, cancelled,
                   caller, history>>

TimerWakes ==
    /\ pc = "waiting"
    /\ clock >= timer
    /\ StartPoll
    /\ UNCHANGED <<clock, guarded, refresh, delay, timer, cancelled, caller,
                   doneAt, userPollAt, overlapped>>

RefreshWakes ==
    /\ pc = "waiting"
    /\ refresh
    /\ refresh' = FALSE
    /\ StartPoll
    /\ userPollAt' = clock
    /\ UNCHANGED <<clock, guarded, delay, timer, cancelled, caller, doneAt,
                   overlapped>>

Select == Stop \/ TimerWakes \/ RefreshWakes

-------------------------------------------------------------------------------
\* Some goroutine has a step of its own to take at this instant.
Runnable ==
    \/ pc = "publishing"
    \/ pc = "waiting" /\ (cancelled \/ refresh \/ clock >= timer)
    \/ pc = "fetching" /\ clock >= fetchStart + FetchTimeout
    \/ \E c \in Callers : caller[c] = "sending"

Tick ==
    /\ clock < MaxTime
    /\ ~Runnable
    /\ clock' = clock + 1
    /\ UNCHANGED <<guarded, refresh, pc, fetchStart, delay, timer, cancelled,
                   caller, history>>

Next ==
    \/ \E c \in Callers : AcceptRefresh(c) \/ SendRefresh(c)
    \/ \E d \in IntervalRequests : SetInterval(d)
    \/ Cancel
    \/ \E err \in Result : RecordResult(err)
    \/ PublishAndArm
    \/ Select
    \/ Tick

\* The Go scheduler runs every goroutine that can run, and a request ends: it
\* succeeds, fails, or is cut off by the client's timeout. Nobody has to call
\* Refresh, SetInterval or cancel, and the clock may stop at its bound.
Fairness ==
    /\ \A c \in Callers : WF_vars(SendRefresh(c))
    /\ WF_vars(\E err \in Result : RecordResult(err))
    /\ WF_vars(PublishAndArm)
    /\ WF_vars(Select)

Spec == Init /\ [][Next]_vars

FairSpec == Spec /\ Fairness

-------------------------------------------------------------------------------
(* What Refresh promises *)

\* Refresh grants a request while another is on its way to Run only during a poll
\* that has outlasted the floor. The send of that other may find the channel full:
\* only then does one poll serve two grants.
GrantsOverlapOnlyInSlowPolls ==
    [][(\E c \in Callers : AcceptRefresh(c)) /\ Pending /\ pc # "stopped"
         => pc = "fetching" /\ clock >= fetchStart + RefreshFloor]_vars

\* Polls the user triggers start at least ManualRefreshFloor apart, although a
\* request accepted during a poll, or beaten to the select by the timer, waits in
\* the channel and runs when that poll is over. Grants that overlap are excepted.
UserPollSpacing ==
    [][RefreshWakes /\ userPollAt # ZeroTime /\ ~overlapped
         => clock >= userPollAt + RefreshFloor]_vars

\* A click that Refresh answered true to is followed by a poll, however it falls
\* between the poll in flight, the timer and the send, unless Run was cancelled.
RefreshServed == owed ~> (~owed \/ pc = "stopped")

-------------------------------------------------------------------------------
(* What Run promises *)

\* A poll nobody asked for starts no sooner than DefaultInterval after the last
\* answer, whatever SetInterval was called with in between (poller.go:113).
TimerNeverBeatsFloor ==
    [][TimerWakes => clock >= doneAt + DefaultInterval]_vars

\* Figures older than the last poll are disclosed as stale (State.IsStale).
OldFiguresAreStale ==
    state.Snapshot /\ state.UpdatedAt < doneAt => IsStale(state)

\* The instant the UI shows for the next poll is the one the timer was armed
\* for, although SetInterval ran while it was being armed.
NextPollAtIsTheTimer ==
    pc = "waiting" => timer = state.NextPollAt

\* Cancelling stops Run, although its select may prefer a waiting request or an
\* expired timer to ctx.Done.
CancelStops == cancelled ~> (pc = "stopped")

-------------------------------------------------------------------------------
(* What the documentation says and the code does not do *)

\* "ManualRefreshFloor is the minimum spacing between user-triggered polls"
\* (poller.go:32), whatever the length of the polls.
UserPollSpacingAlways ==
    [][RefreshWakes /\ userPollAt # ZeroTime
         => clock >= userPollAt + RefreshFloor]_vars

\* "Backoff exists to poll less often, never more" (poller_test.go:175): no
\* answer makes the next automatic poll come sooner than the cadence in force.
NeverFasterThanCadence ==
    [][pc = "fetching" /\ pc' = "publishing" => delay' >= interval]_vars

\* "RateLimited: back off for at least RetryAfter" (quota.go:196): after a 429
\* no poll starts before the wait the vendor asked for is over.
RetryAfterHonoured ==
    [][pc = "waiting" /\ pc' = "fetching" /\ state.LastError.Kind = "RateLimited"
         => clock >= doneAt + state.LastError.RetryAfter]_vars

===============================================================================
