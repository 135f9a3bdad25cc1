--------------------------------- MODULE Tray ---------------------------------
(***************************************************************************)
(* The program as main.go wires it: one poller per provider, the identity     *)
(* cache of those that have local documents, the event loop that draws what  *)
(* they hold, the redraw signal they share, and the way out.                 *)
(*                                                                          *)
(* The signal is a channel of capacity one and carries nothing; a draw reads *)
(* one source after another while the sources go on changing. What Poller,   *)
(* IdentityCache and Settings say of their own steps is reduced here to what *)
(* the loop can see: an answer recorded, a document published, a choice      *)
(* saved or not.                                                             *)
(***************************************************************************)
EXTENDS Naturals

CONSTANTS
    Count,          \* how many providers are wired; the first is the active one
    Documented,     \* those with an identity.Cache; the others have NoIdentity
    Readings,       \* what a poller's State may hold
    NoReading,      \* State before the first answer
    Accounts,       \* what an account document may say
    NoAccount       \* nothing published yet

Providers == 1 .. Count

ASSUME TrayConstants ==
    /\ Count \in Nat \ {0}
    /\ Documented \subseteq Providers
    /\ NoReading \in Readings
    /\ NoAccount \notin Accounts

VARIABLES
    \* each poller
    reading,        \* what State() returns
    poll,           \* "waiting", "polling", "telling" (onUpdate) or "stopped"
    \* each identity cache
    published, forced,
    reader,         \* its single-flight goroutine: "idle", "opening" or "storing"
    fresh,          \* what that goroutine read
    announcing,     \* a document was stored and onChange not called yet
    \* between them and the loop
    updates,        \* whether the channel of capacity 1 holds a signal
    cancelled,      \* ctx is done
    \* the event loop, and the main goroutine that systray.Run keeps
    at, turn,       \* the step, and the provider it is for
    taken,          \* subscriptions(): per provider, what the draw has read
    shown,          \* what is on screen
    main,           \* "running", "returned" or "ended"
    \* history: the errand of a click that is followed, and how far it has come
    followed, owed

pollers == <<reading, poll>>
caches == <<published, forced, reader, fresh, announcing>>
screen == <<taken, shown>>
vars == <<reading, poll, published, forced, reader, fresh, announcing,
          updates, cancelled, at, turn, taken, shown, main, followed, owed>>

\* What is drawn of one provider.
View == [state : Readings, account : Accounts \cup {NoAccount}]

\* What a click asks of a provider: a poll, and a read if it has documents.
Poll(p) == <<"poll", p>>
Read(p) == <<"read", p>>
Errands == {Poll(p) : p \in Providers} \cup {Read(p) : p \in Documented}

TypeOK ==
    /\ reading \in [Providers -> Readings]
    /\ poll \in [Providers -> {"waiting", "polling", "telling", "stopped"}]
    /\ published \in [Providers -> Accounts \cup {NoAccount}]
    /\ forced \in [Providers -> BOOLEAN]
    /\ reader \in [Providers -> {"idle", "opening", "storing"}]
    /\ fresh \in [Providers -> Accounts \cup {NoAccount}]
    /\ announcing \in [Providers -> BOOLEAN]
    /\ updates \in BOOLEAN
    /\ cancelled \in BOOLEAN
    /\ at \in {"select", "refresh", "invalidate", "account", "state", "gone"}
    /\ turn \in Providers
    /\ taken \in [Providers -> View]
    /\ shown \in [Providers -> View]
    /\ main \in {"running", "returned", "ended"}
    /\ followed \in Errands
    /\ owed \in {"none", "asked", "begun", "done"}

\* NoIdentity answers Account and Preferences without a lock or a read.
draws(p) == IF p \in Documented THEN "account" ELSE "state"

Blank == [p \in Providers |-> [state |-> NoReading, account |-> NoAccount]]

\* Every poller's Run polls at once, and the first draw comes before the loop.
Init ==
    /\ reading = [p \in Providers |-> NoReading]
    /\ poll = [p \in Providers |-> "polling"]
    /\ published = [p \in Providers |-> NoAccount]
    /\ forced = [p \in Providers |-> FALSE]
    /\ reader = [p \in Providers |-> "idle"]
    /\ fresh = [p \in Providers |-> NoAccount]
    /\ announcing = [p \in Providers |-> FALSE]
    /\ updates = FALSE
    /\ cancelled = FALSE
    /\ at = draws(1)
    /\ turn = 1
    /\ taken = Blank
    /\ shown = Blank
    /\ main = "running"
    /\ followed \in Errands
    /\ owed = "none"

\* The errand comes to its next stage, if it is the one followed and had come so far.
\* A click that finds it under way begins none.
Moved(errand, from, to) == IF followed = errand /\ owed = from THEN to ELSE owed

-------------------------------------------------------------------------------
(* A poller: Run and pollOnce *)

\* The select takes the timer, or a request.
StartPoll(p) ==
    /\ poll[p] = "waiting"
    /\ poll' = [poll EXCEPT ![p] = "polling"]
    /\ owed' = Moved(Poll(p), "asked", "begun")
    /\ UNCHANGED <<reading, caches, updates, cancelled, at, turn, screen, main, followed>>

Record(p, r) ==
    /\ poll[p] = "polling"
    /\ poll' = [poll EXCEPT ![p] = "telling"]
    /\ reading' = [reading EXCEPT ![p] = r]
    /\ owed' = Moved(Poll(p), "begun", "done")
    /\ UNCHANGED <<caches, updates, cancelled, at, turn, screen, main, followed>>

\* Mutant: a channel without capacity, whose send reaches the loop in its select or
\* nobody.
redrawUnbuffered == updates' = (updates \/ at = "select")

\* The send finds the channel empty, or full and has nothing to add.
redraw == updates' = TRUE

OnUpdate(p) ==
    /\ poll[p] = "telling"
    /\ poll' = [poll EXCEPT ![p] = "waiting"]
    /\ redraw
    /\ UNCHANGED <<reading, caches, cancelled, at, turn, screen, main, followed, owed>>

StopPoller(p) ==
    /\ poll[p] = "waiting"
    /\ cancelled
    /\ poll' = [poll EXCEPT ![p] = "stopped"]
    /\ UNCHANGED <<reading, caches, updates, cancelled, at, turn, screen, main,
                   followed, owed>>

-------------------------------------------------------------------------------
(* An identity cache: the goroutine inUse schedules *)

\* Another program may have rewritten the file since it was last read.
ReadFile(p, a) ==
    /\ reader[p] = "opening"
    /\ reader' = [reader EXCEPT ![p] = "storing"]
    /\ fresh' = [fresh EXCEPT ![p] = a]
    /\ UNCHANGED <<pollers, published, forced, announcing, updates, cancelled,
                   at, turn, screen, main, followed, owed>>

\* Mutant: the read that ends answers whoever asked meanwhile.
forcedAfterReadAnswered(p) == [forced EXCEPT ![p] = FALSE]

forcedAfterRead(p) == forced

\* The store, the release of the guard, and the announcement that falls due. Two of
\* one cache that wait for their turn are one.
Store(p) ==
    /\ reader[p] = "storing"
    /\ reader' = [reader EXCEPT ![p] = "idle"]
    /\ published' = [published EXCEPT ![p] = fresh[p]]
    /\ fresh' = [fresh EXCEPT ![p] = NoAccount]
    /\ announcing' = [announcing EXCEPT ![p] = @ \/ fresh[p] # published[p]]
    /\ forced' = forcedAfterRead(p)
    /\ owed' = Moved(Read(p), "begun", "done")
    /\ UNCHANGED <<pollers, updates, cancelled, at, turn, screen, main, followed>>

OnChange(p) ==
    /\ announcing[p]
    /\ announcing' = [announcing EXCEPT ![p] = FALSE]
    /\ redraw
    /\ UNCHANGED <<pollers, published, forced, reader, fresh, cancelled, at, turn,
                   screen, main, followed, owed>>

-------------------------------------------------------------------------------
(* The select of the event loop. systray drops a click on Refresh or Quit that finds *)
(* the loop elsewhere.                                                               *)

Takes(branch) ==
    /\ at = "select"
    /\ main = "running"
    /\ at' = branch
    /\ turn' = 1

ClickRefresh ==
    /\ Takes("refresh")
    /\ UNCHANGED <<pollers, caches, updates, cancelled, screen, main, followed, owed>>

\* changeSettings of a choice that is saved; another one draws nothing.
Choose ==
    /\ Takes(draws(1))
    /\ UNCHANGED <<pollers, caches, updates, cancelled, screen, main, followed, owed>>

Update ==
    /\ Takes(draws(1))
    /\ updates
    /\ updates' = FALSE
    /\ UNCHANGED <<pollers, caches, cancelled, screen, main, followed, owed>>

Done ==
    /\ Takes("gone")
    /\ cancelled
    /\ UNCHANGED <<pollers, caches, updates, cancelled, screen, main, followed, owed>>

ClickQuit ==
    /\ Takes("gone")
    /\ UNCHANGED <<pollers, caches, updates, cancelled, screen, main, followed, owed>>

-------------------------------------------------------------------------------
(* refreshProviders, one call after another *)

\* Mutant: the index runs one past the slice.
GoesOnPast(here, then) ==
    IF turn <= Count
    THEN at' = here /\ turn' = turn + 1
    ELSE at' = then /\ turn' = 1

\* The loop goes on with the next provider, or with what comes after the last.
GoesOn(here, then) ==
    IF turn < Count
    THEN at' = here /\ turn' = turn + 1
    ELSE at' = then /\ turn' = 1

\* Refresh() answers true: its poller will poll.
RefreshAccepted ==
    /\ at = "refresh"
    /\ at' = "invalidate"
    /\ owed' = Moved(Poll(turn), "none", "asked")
    /\ UNCHANGED <<pollers, caches, updates, cancelled, turn, screen, main, followed>>

\* It answers false, within the poller's floor.
RefreshRejected ==
    /\ at = "refresh"
    /\ GoesOn("refresh", "select")
    /\ UNCHANGED <<pollers, caches, updates, cancelled, screen, main, followed, owed>>

Invalidate ==
    /\ at = "invalidate"
    /\ forced' = [forced EXCEPT ![turn] = turn \in Documented]
    /\ owed' = Moved(Read(turn), "none", "asked")
    /\ GoesOn("refresh", "select")
    /\ UNCHANGED <<pollers, published, reader, fresh, announcing, updates,
                   cancelled, screen, main, followed>>

-------------------------------------------------------------------------------
(* apply: subscriptions() for one provider after another, then the widgets *)

\* inUse knows whose documents to read once a poll has resolved the credentials. One
\* that nobody forced leaves the account as it is, whatever became of the file, but
\* keeps the reader busy: the preferences are read again.
Schedules(p, stage) ==
    LET opens == forced[p] \/ published[p] = NoAccount
    IN  IF p \in Documented /\ reading[p] # NoReading /\ reader[p] = "idle"
        THEN /\ reader' = [reader EXCEPT ![p] = IF opens THEN "opening" ELSE "storing"]
             /\ fresh' = [fresh EXCEPT ![p] = published[p]]
             /\ forced' = [forced EXCEPT ![p] = FALSE]
             /\ owed' = IF followed = Read(p) /\ stage = "asked" /\ opens
                        THEN "begun" ELSE stage
        ELSE UNCHANGED <<reader, fresh, forced>> /\ owed' = stage

DrawAccount ==
    /\ at = "account"
    /\ at' = "state"
    /\ taken' = [taken EXCEPT ![turn].account = published[turn]]
    /\ Schedules(turn, Moved(Read(turn), "done", "none"))
    /\ UNCHANGED <<pollers, published, announcing, updates, cancelled, turn,
                   shown, main, followed>>

\* Preferences schedules what Account found the reader too busy for; what State()
\* answers does not depend on it, so the two are one step.
\*
\* The widgets are written from what the last of them completes: until it selects
\* again, the loop reads nothing more.
DrawState ==
    LET seen == [taken EXCEPT ![turn].state = reading[turn]]
    IN  /\ at = "state"
        /\ IF turn < Count THEN taken' = seen /\ UNCHANGED shown
           ELSE taken' = Blank /\ shown' = seen
        /\ Schedules(turn, Moved(Poll(turn), "done", "none"))
        /\ GoesOn(draws(turn + 1), "select")
        /\ UNCHANGED <<pollers, published, announcing, updates, cancelled, main,
                       followed>>

-------------------------------------------------------------------------------
(* The way out: the main goroutine, whose deferred calls run last to first *)

\* An interrupt reaches signal.NotifyContext.
Interrupt ==
    /\ cancelled' = TRUE
    /\ UNCHANGED <<pollers, caches, updates, at, turn, screen, main, followed, owed>>

\* Mutant: main waits for its pollers before it cancels their context.
runReturnsJoining == at = "gone" /\ \A p \in Providers : poll[p] = "stopped"

\* systray.Quit ends systray.Run, and tray.Run returns.
runReturns == at = "gone"

Unwind ==
    /\ \/ main = "running" /\ runReturns /\ main' = "returned" /\ cancelled' = TRUE
       \/ main = "returned" /\ main' = "ended" /\ UNCHANGED cancelled
    /\ UNCHANGED <<pollers, caches, updates, at, turn, screen, followed, owed>>

-------------------------------------------------------------------------------
PollerStep(p) ==
    \/ StartPoll(p)
    \/ \E r \in Readings \ {NoReading} : Record(p, r)
    \/ OnUpdate(p)

ReaderStep(p) == (\E a \in Accounts : ReadFile(p, a)) \/ Store(p)

LoopStep ==
    \/ RefreshAccepted \/ RefreshRejected \/ Invalidate
    \/ DrawAccount \/ DrawState

\* The process is gone with all its goroutines once main has ended.
Next ==
    /\ main # "ended"
    /\ \/ \E p \in Providers : PollerStep(p) \/ StopPoller(p)
       \/ \E p \in Documented : ReaderStep(p) \/ OnChange(p)
       \/ ClickRefresh \/ Choose \/ Update \/ Done \/ ClickQuit
       \/ LoopStep
       \/ Interrupt
       \/ Unwind

\* The Go scheduler runs every goroutine that can run, requests end, timers fire, and
\* a select that finds a branch ready again and again takes it some time: Go picks one
\* of the ready branches at random. Nobody has to click, and no file has to change.
Fairness ==
    /\ \A p \in Providers : WF_vars(PollerStep(p)) /\ SF_vars(StopPoller(p))
    /\ \A p \in Documented : WF_vars(ReaderStep(p)) /\ WF_vars(OnChange(p))
    /\ SF_vars(Update) /\ SF_vars(Done)
    /\ WF_vars(LoopStep)
    /\ WF_vars(Unwind)

Spec == Init /\ [][Next]_vars

FairSpec == Spec /\ Fairness

-------------------------------------------------------------------------------
\* An answer is recorded, or a document stored, and nobody has been told.
Untold(p) == poll[p] = "telling" \/ announcing[p]

\* Whatever was recorded or published while a draw was under way, before or behind the
\* source it was reading, the screen shows the latest of every provider as soon as the
\* loop has come to rest: one signal for any number of changes of any of them is
\* enough (format.go:161, main.go:69).
ScreenIsCurrent ==
    at = "select" /\ ~updates =>
        \A p \in Providers :
            ~Untold(p) => shown[p] = [state |-> reading[p], account |-> published[p]]

\* What a click on Refresh asks of each provider that accepts it, be the other still
\* within its floor, is done and drawn: a draw reads the answer of a poll, and the account
\* of a read, that began after the click, unless the program is told to end. A poll or a
\* read that was in flight when it came does not stand for it, nor keep it from being
\* served.
ClickIsAnswered == owed # "none" ~> owed = "none" \/ cancelled \/ at = "gone"

\* Quit and an interrupt both end the program, and the guard is released last: no
\* poll, read or draw under way keeps it alive.
QuitEnds == cancelled \/ at = "gone" ~> main = "ended"

===============================================================================
