------------------------------ MODULE TrayProofs ------------------------------
(***************************************************************************)
(* Theorems of Tray, for any number of providers with or without documents   *)
(* and for whatever their readings and accounts may be.                      *)
(*                                                                          *)
(* The screen is kept current by what every step of the loop leaves true of  *)
(* each provider: what the draw has taken of it, or what is shown of it      *)
(* outside a draw, is the latest there is, or somebody has yet to say so: a   *)
(* poller between its record and its signal, a cache between its store and   *)
(* its announcement, or the signal in the channel.                           *)
(***************************************************************************)
EXTENDS Tray, TLAPS

Drawing == at \in {"account", "state"}

\* A poller has yet to say so, or a cache has.
StateComing(p) == updates \/ poll[p] = "telling"
AccountComing(p) == updates \/ announcing[p]

\* Whether the draw has read State() of p, or its account.
StateTaken(p) == Drawing /\ p < turn
AccountTaken(p) == Drawing /\ (p < turn \/ (p = turn /\ at = "state" /\ p \in Documented))

StatesKept ==
    \A p \in Providers :
        /\ ~Drawing => shown[p].state = reading[p] \/ StateComing(p)
        /\ StateTaken(p) => taken[p].state = reading[p] \/ StateComing(p)

AccountsKept ==
    \A p \in Documented :
        /\ ~Drawing => shown[p].account = published[p] \/ AccountComing(p)
        /\ AccountTaken(p) => taken[p].account = published[p] \/ AccountComing(p)

\* A provider without documents has no account anywhere.
NoneWithout ==
    \A p \in Providers \ Documented :
        /\ published[p] = NoAccount
        /\ taken[p].account = NoAccount
        /\ shown[p].account = NoAccount

TrayInv == TypeOK /\ StatesKept /\ AccountsKept /\ NoneWithout

-------------------------------------------------------------------------------
(* Type correctness *)

LEMMA BlankIsView == Blank \in [Providers -> View]
BY TrayConstants DEF Blank, View

\* The first provider, and the one after a turn that is not the last.
LEMMA Turns ==
    /\ 1 \in Providers
    /\ \A p \in Providers : p < Count => p + 1 \in Providers
BY TrayConstants DEF Providers

LEMMA InitType == Init => TypeOK
<1> SUFFICES ASSUME Init PROVE TypeOK
  OBVIOUS
<1> USE TrayConstants, Turns
<1>1. taken \in [Providers -> View] /\ shown \in [Providers -> View]
  BY BlankIsView DEF Init
<1>2. at \in {"account", "state"}
  BY DEF Init, draws
<1>3. QED
  BY <1>1, <1>2 DEF Init, TypeOK

LEMMA NextType == TypeOK /\ [Next]_vars => TypeOK'
<1> SUFFICES ASSUME TypeOK, [Next]_vars PROVE TypeOK'
  OBVIOUS
<1> USE TrayConstants DEF pollers, caches, screen
<1>1. ASSUME NEW p \in Providers, PollerStep(p) \/ StopPoller(p) PROVE TypeOK'
  <2>1. CASE StartPoll(p)
    BY <2>1 DEF StartPoll, Moved, TypeOK
  <2>2. ASSUME NEW r \in Readings \ {NoReading}, Record(p, r) PROVE TypeOK'
    BY <2>2 DEF Record, Moved, TypeOK
  <2>3. CASE OnUpdate(p)
    BY <2>3 DEF OnUpdate, redraw, TypeOK
  <2>4. CASE StopPoller(p)
    BY <2>4 DEF StopPoller, TypeOK
  <2>5. QED
    BY <1>1, <2>1, <2>2, <2>3, <2>4 DEF PollerStep
<1>2. ASSUME NEW p \in Documented, ReaderStep(p) \/ OnChange(p) PROVE TypeOK'
  <2>1. ASSUME NEW a \in Accounts, ReadFile(p, a) PROVE TypeOK'
    BY <2>1 DEF ReadFile, TypeOK
  <2>2. CASE Store(p)
    BY <2>2 DEF Store, forcedAfterRead, Moved, TypeOK
  <2>3. CASE OnChange(p)
    BY <2>3 DEF OnChange, redraw, TypeOK
  <2>4. QED
    BY <1>2, <2>1, <2>2, <2>3 DEF ReaderStep
<1>3. CASE ClickRefresh \/ Choose \/ Update \/ Done \/ ClickQuit
  BY <1>3, Turns DEF ClickRefresh, Choose, Update, Done, ClickQuit, Takes, draws, TypeOK
<1>4. CASE RefreshAccepted \/ RefreshRejected \/ Invalidate
  <2>1. at' \in {"refresh", "invalidate", "select"} /\ turn' \in Providers
    BY <1>4, Turns DEF RefreshAccepted, RefreshRejected, Invalidate, GoesOn, TypeOK
  <2>2. owed' \in {"none", "asked", "begun", "done"}
    BY <1>4 DEF RefreshAccepted, RefreshRejected, Invalidate, Moved, TypeOK
  <2>3. forced' \in [Providers -> BOOLEAN]
    <3>1. CASE RefreshAccepted \/ RefreshRejected
      BY <3>1 DEF RefreshAccepted, RefreshRejected, TypeOK
    <3>2. CASE Invalidate
      <4>1. (turn \in Documented) \in BOOLEAN
        OBVIOUS
      <4>2. QED
        BY <3>2, <4>1 DEF Invalidate, TypeOK
    <3>3. QED
      BY <1>4, <3>1, <3>2
  <2>4. QED
    BY <1>4, <2>1, <2>2, <2>3 DEF RefreshAccepted, RefreshRejected, Invalidate, TypeOK
<1>5. CASE DrawAccount
  <2>1. taken' \in [Providers -> View]
    BY <1>5 DEF DrawAccount, View, TypeOK
  <2>2. QED
    BY <1>5, <2>1 DEF DrawAccount, Schedules, Moved, TypeOK
<1>6. CASE DrawState
  <2>1. [taken EXCEPT ![turn].state = reading[turn]] \in [Providers -> View]
    BY DEF View, TypeOK
  <2>2. taken' \in [Providers -> View] /\ shown' \in [Providers -> View]
    BY <1>6, <2>1, BlankIsView DEF DrawState, TypeOK
  <2>3. at' \in {"account", "state", "select"} /\ turn' \in Providers
    BY <1>6, Turns DEF DrawState, GoesOn, draws, TypeOK
  <2>4. QED
    BY <1>6, <2>2, <2>3 DEF DrawState, Schedules, Moved, TypeOK
<1>7. CASE Interrupt \/ Unwind
  BY <1>7 DEF Interrupt, Unwind, TypeOK
<1>8. CASE UNCHANGED vars
  BY <1>8 DEF vars, TypeOK
<1>9. QED
  BY <1>1, <1>2, <1>3, <1>4, <1>5, <1>6, <1>7, <1>8 DEF Next, LoopStep

\* The state of the program keeps its types, whatever the number of providers.
THEOREM TypeCorrect == Spec => []TypeOK
<1>1. QED
  BY InitType, NextType, PTL DEF Spec

-------------------------------------------------------------------------------
(* The screen *)

LEMMA InitKept == Init => StatesKept /\ AccountsKept /\ NoneWithout
<1> SUFFICES ASSUME Init PROVE StatesKept /\ AccountsKept /\ NoneWithout
  OBVIOUS
<1>1. Drawing /\ turn = 1 /\ (at = "state" => turn \notin Documented)
  BY DEF Init, Drawing, draws
<1>2. \A p \in Providers : ~(p < turn)
  BY <1>1 DEF Providers
<1>3. StatesKept
  BY <1>1, <1>2 DEF StatesKept, StateTaken
<1>4. AccountsKept
  BY <1>1, <1>2, TrayConstants DEF AccountsKept, AccountTaken
<1>5. NoneWithout
  BY DEF Init, NoneWithout, Blank
<1>6. QED
  BY <1>3, <1>4, <1>5

\* A poller's record is followed by its own signal; the rest of its steps lose none.
LEMMA PollerKeeps ==
    ASSUME TrayInv, NEW q \in Providers, PollerStep(q) \/ StopPoller(q)
    PROVE  StatesKept' /\ AccountsKept' /\ NoneWithout'
<1> USE DEF TrayInv, TypeOK, pollers, caches, screen, StatesKept, AccountsKept, NoneWithout,
            Drawing, StateTaken, AccountTaken, StateComing, AccountComing
<1>1. CASE StartPoll(q)
  BY <1>1, TrayConstants DEF StartPoll
<1>2. ASSUME NEW r \in Readings \ {NoReading}, Record(q, r)
      PROVE  StatesKept' /\ AccountsKept' /\ NoneWithout'
  BY <1>2, TrayConstants DEF Record
<1>3. CASE OnUpdate(q)
  BY <1>3, TrayConstants DEF OnUpdate, redraw
<1>4. CASE StopPoller(q)
  BY <1>4, TrayConstants DEF StopPoller
<1>5. QED
  BY <1>1, <1>2, <1>3, <1>4 DEF PollerStep

\* What a read changes it announces.
LEMMA ReaderKeeps ==
    ASSUME TrayInv, NEW q \in Documented, ReaderStep(q) \/ OnChange(q)
    PROVE  StatesKept' /\ AccountsKept' /\ NoneWithout'
<1> USE DEF TrayInv, TypeOK, pollers, caches, screen, StatesKept, AccountsKept, NoneWithout,
            Drawing, StateTaken, AccountTaken, StateComing, AccountComing
<1>1. ASSUME NEW a \in Accounts, ReadFile(q, a)
      PROVE  StatesKept' /\ AccountsKept' /\ NoneWithout'
  BY <1>1, TrayConstants DEF ReadFile
<1>2. CASE Store(q)
  BY <1>2, TrayConstants DEF Store
<1>3. CASE OnChange(q)
  BY <1>3, TrayConstants DEF OnChange, redraw
<1>4. QED
  BY <1>1, <1>2, <1>3 DEF ReaderStep

\* A draw begins with nothing taken, whether a signal was consumed for it or not.
LEMMA SelectKeeps ==
    ASSUME TrayInv, ClickRefresh \/ Choose \/ Update \/ Done \/ ClickQuit
    PROVE  StatesKept' /\ AccountsKept' /\ NoneWithout'
<1> USE DEF TrayInv, pollers, caches, screen
<1>1. turn' = 1 /\ at = "select"
  BY DEF ClickRefresh, Choose, Update, Done, ClickQuit, Takes
<1>2. \A p \in Providers : ~(p < turn')
  BY <1>1 DEF Providers
<1>3. at' = "state" => 1 \notin Documented
  BY DEF ClickRefresh, Choose, Update, Done, ClickQuit, Takes, draws
<1>4. UNCHANGED <<reading, poll, published, announcing, taken, shown>>
  BY DEF ClickRefresh, Choose, Update, Done, ClickQuit
<1>5. NoneWithout'
  BY <1>4 DEF NoneWithout
<1>6. CASE Choose \/ Update
  <2>1. Drawing'
    BY <1>6 DEF Choose, Update, Takes, draws, Drawing
  <2>2. QED
    BY <1>1, <1>2, <1>3, <1>5, <2>1, TrayConstants
       DEF StatesKept, AccountsKept, StateTaken, AccountTaken
<1>7. CASE ClickRefresh \/ Done \/ ClickQuit
  <2>1. ~Drawing' /\ ~Drawing /\ updates' = updates
    BY <1>7 DEF ClickRefresh, Done, ClickQuit, Takes, Drawing
  <2>2. QED
    BY <1>4, <1>5, <2>1
       DEF StatesKept, AccountsKept, StateTaken, AccountTaken, StateComing, AccountComing
<1>8. QED
  BY <1>6, <1>7

LEMMA RefreshKeeps ==
    ASSUME TrayInv, RefreshAccepted \/ RefreshRejected \/ Invalidate
    PROVE  StatesKept' /\ AccountsKept' /\ NoneWithout'
<1>1. ~Drawing /\ ~Drawing'
  BY DEF RefreshAccepted, RefreshRejected, Invalidate, GoesOn, Drawing
<1>2. UNCHANGED <<reading, poll, published, announcing, updates, taken, shown>>
  BY DEF RefreshAccepted, RefreshRejected, Invalidate, pollers, caches, screen
<1>3. QED
  BY <1>1, <1>2 DEF TrayInv, StatesKept, AccountsKept, NoneWithout, StateTaken,
                    AccountTaken, StateComing, AccountComing

\* What the draw takes is the latest at that instant.
LEMMA DrawAccountKeeps ==
    ASSUME TrayInv, DrawAccount
    PROVE  StatesKept' /\ AccountsKept' /\ NoneWithout'
<1>1. /\ at = "account" /\ at' = "state" /\ turn' = turn /\ turn \in Providers
      /\ UNCHANGED <<reading, poll, published, announcing, updates, shown>>
  BY DEF DrawAccount, pollers, TrayInv, TypeOK
<1>2. /\ taken'[turn].account = published[turn]
      /\ \A p \in Providers : taken'[p].state = taken[p].state
      /\ \A p \in Providers \ {turn} : taken'[p] = taken[p]
  BY DEF DrawAccount, View, TrayInv, TypeOK
<1>3. StatesKept'
  BY <1>1, <1>2 DEF TrayInv, StatesKept, StateTaken, StateComing, Drawing
<1>4. AccountsKept'
  <2>1. ASSUME NEW p \in Documented, p < turn
        PROVE  taken'[p].account = published[p] \/ AccountComing(p)
    <3>1. p \in Providers /\ p # turn
      BY <1>1, <2>1, TrayConstants DEF Providers
    <3>2. taken'[p] = taken[p]
      BY <1>2, <3>1
    <3>3. AccountTaken(p)
      BY <1>1, <2>1 DEF AccountTaken, Drawing
    <3>4. QED
      BY <3>2, <3>3 DEF TrayInv, AccountsKept
  <2>2. QED
    BY <1>1, <1>2, <2>1, TrayConstants DEF TrayInv, AccountsKept, AccountTaken, AccountComing, Drawing
<1>5. NoneWithout'
  BY <1>1, <1>2 DEF TrayInv, NoneWithout
<1>6. QED
  BY <1>3, <1>4, <1>5

LEMMA DrawStateKeeps ==
    ASSUME TrayInv, DrawState
    PROVE  StatesKept' /\ AccountsKept' /\ NoneWithout'
<1> DEFINE seen == [taken EXCEPT ![turn].state = reading[turn]]
<1> USE DEF TrayInv, TypeOK
<1>1. /\ at = "state" /\ turn \in Providers
      /\ UNCHANGED <<reading, poll, published, announcing, updates>>
  BY DEF DrawState, pollers
<1>2. /\ seen[turn].state = reading[turn]
      /\ \A p \in Providers : seen[p].account = taken[p].account
      /\ \A p \in Providers \ {turn} : seen[p] = taken[p]
  BY DEF View
<1>3. \A p \in Providers : p <= turn => seen[p].state = reading[p] \/ StateComing(p)
  BY <1>1, <1>2 DEF StatesKept, StateTaken, Drawing, Providers
<1>4. \A p \in Documented : p <= turn => seen[p].account = published[p] \/ AccountComing(p)
  BY <1>1, <1>2, TrayConstants DEF AccountsKept, AccountTaken, Drawing, Providers
<1>5. CASE turn < Count
  <2>1. taken' = seen /\ shown' = shown /\ turn' = turn + 1 /\ at' = draws(turn + 1)
    BY <1>5 DEF DrawState, GoesOn
  <2>2. Drawing' /\ (at' = "state" => turn' \notin Documented)
    BY <2>1 DEF draws, Drawing
  <2>3. \A p \in Providers : p < turn' => p <= turn
    BY <2>1 DEF Providers
  <2>4. StatesKept'
    BY <1>1, <1>3, <2>1, <2>2, <2>3 DEF StatesKept, StateTaken, StateComing
  <2>5. AccountsKept'
    BY <1>1, <1>4, <2>1, <2>2, <2>3, TrayConstants DEF AccountsKept, AccountTaken, AccountComing
  <2>6. NoneWithout'
    BY <1>1, <1>2, <2>1 DEF NoneWithout
  <2>7. QED
    BY <2>4, <2>5, <2>6
<1>6. CASE ~(turn < Count)
  <2>1. taken' = Blank /\ shown' = seen /\ at' = "select"
    BY <1>6 DEF DrawState, GoesOn
  <2>2. ~Drawing'
    BY <2>1 DEF Drawing
  <2>3. \A p \in Providers : p <= turn
    BY <1>1, <1>6, TrayConstants DEF Providers
  <2>4. StatesKept'
    BY <1>1, <1>3, <2>1, <2>2, <2>3 DEF StatesKept, StateTaken, StateComing
  <2>5. AccountsKept'
    BY <1>1, <1>4, <2>1, <2>2, <2>3, TrayConstants DEF AccountsKept, AccountTaken, AccountComing
  <2>6. NoneWithout'
    BY <1>1, <1>2, <2>1 DEF NoneWithout, Blank
  <2>7. QED
    BY <2>4, <2>5, <2>6
<1>7. QED
  BY <1>5, <1>6

LEMMA NextTray == TrayInv /\ [Next]_vars => TrayInv'
<1> SUFFICES ASSUME TrayInv, [Next]_vars PROVE TrayInv'
  OBVIOUS
<1>1. TypeOK'
  BY NextType DEF TrayInv
<1>2. StatesKept' /\ AccountsKept' /\ NoneWithout'
  <2>1. CASE Interrupt \/ Unwind
    BY <2>1 DEF Interrupt, Unwind, pollers, caches, screen, TrayInv, StatesKept, AccountsKept,
                NoneWithout, Drawing, StateTaken, AccountTaken, StateComing, AccountComing
  <2>2. CASE UNCHANGED vars
    BY <2>2 DEF vars, TrayInv, StatesKept, AccountsKept, NoneWithout, Drawing, StateTaken,
                AccountTaken, StateComing, AccountComing
  <2>3. QED
    BY <2>1, <2>2, PollerKeeps, ReaderKeeps, SelectKeeps, RefreshKeeps, DrawAccountKeeps,
       DrawStateKeeps DEF Next, LoopStep
<1>3. QED
  BY <1>1, <1>2 DEF TrayInv

LEMMA TrayInvariant == Spec => []TrayInv
<1>1. Init => TrayInv
  BY InitType, InitKept DEF TrayInv
<1>2. QED
  BY <1>1, NextTray, PTL DEF Spec

\* However many providers share the signal, and whatever was recorded or published
\* during a draw, a loop at rest shows the latest of each.
THEOREM ScreenCurrent == Spec => []ScreenIsCurrent
<1>1. TrayInv => ScreenIsCurrent
  <2> SUFFICES ASSUME TrayInv, at = "select", ~updates,
                      NEW p \in Providers, ~Untold(p)
               PROVE  shown[p] = [state |-> reading[p], account |-> published[p]]
    BY DEF ScreenIsCurrent
  <2>1. shown[p].state = reading[p]
    BY DEF TrayInv, StatesKept, StateComing, Drawing, Untold
  <2>2. shown[p].account = published[p]
    BY DEF TrayInv, AccountsKept, NoneWithout, AccountComing, Drawing, Untold
  <2>3. shown[p] \in View
    BY DEF TrayInv, TypeOK
  <2>4. QED
    BY <2>1, <2>2, <2>3 DEF View
<1>2. QED
  BY <1>1, TrayInvariant, PTL

===============================================================================
