# meterAI in TLA+

TLA+ modules, TLC configurations and machine-checked proofs for meterAI, the
notification-area monitor of AI subscription quotas in this repository. Source
paths are relative to the repository; `cache.go:157` is line 157.

## 1. The system

One process. `main.run` takes a single-instance guard, loads the settings, wires
two vendors and hands the main goroutine to the tray.

| Component | State | Operations | Talks to |
| --- | --- | --- | --- |
| Poller `internal/poll` (one per vendor) | `state`, `lastPollAt`, `interval` under `mu`; the channel `refresh` of capacity 1 | `Run` (one goroutine), `Refresh`, `SetInterval`, `State` | calls the provider's `Fetch`; calls back `onUpdate` |
| Usage client `internal/provider/usageapi` | none | `Fetch` | asks the credential cache for a token, then the vendor over HTTP |
| Decoders `internal/provider/{anthropic,openai}` | none | `decode` | pure |
| Credential cache `internal/credential` | `current` under `mu`, `resolvedPath` atomic | `Token`, `Source`, `SourceIsRemote` | reads files another program writes, some of them over `\\wsl.localhost` |
| Identity cache `internal/identity` | `published` atomic, `reading` and `forced` under `mu` | `Account`, `Preferences`, `Invalidate`, and `read` on a goroutine of its own | asks the credential cache for the path; reads files another program writes; announces itself on the poller's redraw signal |
| Tray `internal/tray` | the widgets, the `Presenter` with the settings in force | the event loop: clicks, setting choices, redraw signals | `Refresh`, `Invalidate`, `SetInterval`, `State`, `Account`, `Preferences`, `SaveSettings` |
| Configuration `internal/config` | the file | `Load`, `Save`, `Validate`, migration of two older shapes | the file system |
| Single instance `internal/singleton` | a mutex or lock of the operating system | `Acquire`, release | the kernel |
| Presentation `internal/tray/format.go`, `bar.go`, `internal/trayicon`, `internal/quota` | none | rows, tooltip, gauge, icon, severity | pure |
| Translations `internal/i18n`, `internal/buildinfo` | none | text | pure |

Interaction in one picture: the poller's goroutine calls `Fetch`, which calls
`Token`; the answer is recorded and `onUpdate` drops a signal into a channel of
capacity 1 (`main.go:71-81`). The tray's goroutine takes the signal and draws,
which asks the identity cache for two documents; that may start a goroutine that
reads files and drops another signal. A click on Refresh goes to every poller and,
where one accepts, to that vendor's identity cache. A choice in the settings menu
goes through `config.Save` and then to every poller's `SetInterval`.

### What is hard about it

- **Concurrency.** `Refresh` unlocks before it sends (`poller.go:154-157`);
  `pollOnce` computes a delay under the lock and arms a timer outside it; `Run`'s
  `select` takes any ready branch. An accessor of the identity cache reads four
  things that change under it, one at a time; a read that ends causes the draw that
  asks for the next read.
- **Failure.** A credential file may be unreachable, missing, half written or
  expired, and reading it may take as long as booting a WSL distribution. Any call
  of `Save` may fail, and the power with it.
- **Ordering and staleness.** A path resolved by a poll in flight is visible before
  that poll's signal. Settings saved from the menu are made from what was read at
  the start. Clicks reach the loop in any order.
- **Time.** Two rate floors (a refresh at most every `ManualRefreshFloor`, an
  automatic poll at most every `DefaultInterval`), a `Retry-After`, two expiry
  margins of the same five minutes judged at different instants.
- **Numbers.** A doubling duration under an unbounded count of failures; thresholds
  that must stay strictly ordered whatever list of presets they move along; seconds,
  amounts and percentages that a vendor states without a range; two gauges of one
  percentage; a tooltip cut to a budget.
- **What was there before.** Widgets cannot be removed and are written again and
  again, each by its own call; a change of settings has to reach captions no draw
  writes, and an icon is sent only when it differs from the last one.

`PROJECT.json` lists each hazard at its line, with the properties it is covered by.

### What makes each component correct

| Component | Properties |
| --- | --- |
| Poller | both rate floors hold for every interleaving; an accepted click is served; cancelling stops; old figures are disclosed; the instant shown is the timer's |
| Backoff | the loop terminates in the closed form, never wraps, and a longer row of the same failure never waits less |
| Identity cache | one writer; nobody else's document; a remote source is not read on every draw; announcements end; the menu ends up right |
| Credential cache | the pinned account only; no expired token; polls resume after a renewal |
| Settings | whatever happens, the file is one the next start accepts; the menu, the pollers and the file agree; every choice leads to valid settings |
| Event loop and wiring | no answer or document is lost for the screen; a click is served by work that began after it; Quit ends the program whatever is under way |
| Single instance | one process at a time, and a start after a crash |
| Decoders, quota model | a vendor's number means here what it said, or is left out (but for the ends of its width: section 5); its severity is never lowered |
| Presentation | the menu is the reading whatever it showed before; every reset can be read off; a tooltip of whole lines within its budget; icon and gauge agree |

## 2. Modules

| Module | Models | Extends |
| --- | --- | --- |
| `PollSchedule` | results of a poll, `clampInterval`, `backoff` in closed form | |
| `Poller` | `internal/poll`: `Run`, `Refresh`, `SetInterval`, cancellation | `PollSchedule` |
| `PollerProofs`, `MCPoller` | its theorems; its instance for TLC | `Poller`; `PollerProofs` |
| `BackoffLoop` | the statements of `backoff` on wrapping integers | `PollSchedule` |
| `BackoffLoopProofs` | its theorems | `BackoffLoop` |
| `Tray` | `main.go`'s wiring: the event loop, `refreshProviders`, a draw source by source, the redraw signal, the way out | |
| `TrayProofs`, `MCTray` | its theorems; its instance | `Tray`; `TrayProofs` |
| `Singleton` | `internal/singleton`, both files, under any number of starts and deaths | |
| `SingletonProofs`, `MCSingleton` | its theorems; its instance | `Singleton`; `SingletonProofs` |
| `QuotaModel` | `internal/quota`: meters, `Primary`, severities, money, `ParseRetryAfter`; the two gauges: pure | |
| `Decoders` | both vendors' `decode`: pure | `QuotaModel` |
| `Presenter` | rows, captions, tooltip, status, icon of one reading: pure | `Decoders` |
| `MenuView`, `MCMenu` | the widgets and the answers, choices and failures that come between two draws; its instance | `Presenter`; `MenuView` |
| `MenuProofs` | what the conversions guarantee for every number, and the menu's theorems | `MenuView` |
| `IdentityCache` | `internal/identity/cache.go` among poller, UI and files | |
| `IdentityCacheProofs`, `MCIdentityCache` | its theorems; its instance | |
| `CredentialCache` | `Token`, `reload`, `Discover`, `Load` under `Fetch` | |
| `CredentialCacheProofs`, `MCCredentialCache` | its theorems; its instance | |
| `SettingsDocument` | `Config`, `UnmarshalJSON`, `Validate`, presets and choices: pure | |
| `SettingsStore` | abstract specification: a file that changes from one whole document to another | `SettingsDocument` |
| `Settings` | `Load`, `Save` call by call, `changeSettings`, clicks, crashes, losses of power, edits by hand | `SettingsDocument`, instance of `SettingsStore` |
| `SettingsProofs`, `MCSettings` | what the pure functions guarantee, and its theorems, with the refinement; its instance | |

Names follow the source: a variable or an operator named like a field or function
is that field or function. Definitions whose comment begins with "Mutant" are the
same operation with a plausible mistake in it. No specification uses them; each
belongs to a property, which is violated when the mutant takes the place of the
operation, and so is known to depend on what the code does there.

### Poller

One action per stretch of code that no other goroutine can enter. `Refresh` is
`AcceptRefresh` (to the unlock at `poller.go:155`) and `SendRefresh` (the
non-blocking send); a rejected call changes nothing and is no action. `pollOnce` is
the request (the state `"fetching"`), `RecordResult` (the locked section) and
`PublishAndArm` (`onUpdate`, the return, and `after(delay)`). The `select` is
`Stop`, `TimerWakes` and `RefreshWakes`. The snapshot is reduced to whether there
is one.

*Time.* The clock moves only when no goroutine can run: locked sections take no
time, a request takes between nothing and `FetchTimeout`, a wait takes what it
takes. `FetchTimeout` is a bound of the model and not a number of the code: the
HTTP request ends after 20 s, but reading credentials before it may boot a
distribution and nothing bounds that, so the configurations let a poll last as long
as the refresh floor. The theorems hold for any value.

### Identity cache

`inUse` is split at every value it reads: the path (`inUseSource`), `published`
(`inUseLoad`), whether the path is remote (`inUseRemote`), the lock (`inUseLock`).
`read` is one step per file, then the store, the release of the flag and the
announcement. A document is the path it was read beside and what it said, errors
included, since `equals` compares errors by their text. The poller is reduced to
what this cache sees of it: the path changes first, the signal comes later.

### Credential cache

`Token` under `Fetch`, one step per file it loads; time may pass and files may
change between any two. `Cache.mu` is held throughout and has no second contender.
Discovery goes through this machine's candidates and then, where `wsl.exe` answers,
through the distributions'. `Incomplete` is folded into `Malformed`; nothing in the
code tells them apart. The vendor answers with any of the statuses, with none, or
with a body that does not decode.

### Settings

`SettingsDocument` has the documents and the pure functions on them. A percentage
is a number of points; of the providers map only anthropic's path is kept, which is
the one an older shape of the file holds elsewhere. A language without a catalogue
is rejected by `Validate` and is not among the values.

In `Settings` each system call of `Save` is a step that may fail. A file is what it
holds, whether that was flushed, and who wrote it; `path` is what the name shows
now and `behind` what the directory names on the disk. `PowerLoss` picks either,
and what was not flushed is `Torn`. `Click` is systray sending a click into
a channel without a buffer: a forwarding goroutine that is free receives it, and one
that is not, or has not come round yet, loses it, which leaves the tick where systray's
own event put it (`Unheard`). `Choose` is the event loop receiving a choice. A forwarding
goroutine holds at most one click, for the one value it stands for, hence a set. Code that is not
in the repository and is modelled from how it is used: systray, the file system,
editors, the vendors' CLIs.

`SettingsStore` is the promise: the file goes from one whole document to another
that a choice made of the settings in force, settings come into force after they
were stored, a loss of power brings back a document the file held. `Settings`
implements it with `stored` read from `path`, `fallback` from `behind`, and
`accepted` between the rename and the moment the settings come into force.

### Tray

The composition `main.go` makes: pollers, an identity cache for each provider that
has documents, the event loop, the signal. Of `Poller` and `IdentityCache` only what
the loop can tell apart is left: that an answer was recorded and `onUpdate` comes
after it, that a document was stored and `onChange` comes after it, that one read of
a cache is in flight at a time and takes `forced` with it when it starts. Whose
document it is, the two floors and the interval are those modules' subject.

`apply` is `DrawAccount` and `DrawState` per provider: what is read goes into `taken`,
and the last one writes `shown`. A click goes through `RefreshAccepted` or
`RefreshRejected` per provider, each possible at any time, since a floor may or may
not have passed. `Interrupt` cancels the context, `ClickQuit` leaves the loop, and
`Unwind` is the main goroutine's two deferred calls in their order. `followed` and
`owed` are history: one errand, a poll or a read of one provider, chosen at the start
and followed from the click that asks for it to the draw that shows it. The credential
path is taken to be resolved once a provider has answered.

### Singleton

One step per system call, with a death possible before and after each. `windows`
says which of the two files was built. The mutex is the set of handles open to it;
the lock belongs to an open description of the file, and closing that gives it up.

### Quota, decoders, presentation, menu

`QuotaModel`, `Decoders` and `Presenter` hold one operator per function. Integers have
the width `Half` (2^63 in the code) and wrap; instants do not, except in `unixTime`:
`time.Unix` counts its seconds from the year 1, `Epoch` before 1970, and that count is an
int64, whose zero is the `time.Time` that stands for no reset at all. A percentage is a number
of points, which may be negative or above 100. A JSON document is its fields; what a
text says is a sequence of marks, a word counting as one, so the budgets of the tooltip
and of a field are scaled down with the words, while ampersands, controls and format
characters stand for themselves, since `sanitizeMenuField` is about them.

`MenuView` keeps the items with their captions and their visibility. `Answered` and
`Refused` are the ends of `Fetch` followed by `pollOnce`; `Apply` is the draw, `Tray`
having dealt with what changes while it is going on. `Screen` reads the captions off
the items from top to bottom, and `render` is `tray_other.go`'s: the property
`MenuIsTheReading` compares the reused widgets with the same reading printed afresh by
the other platform's code.

## 3. Runs

| Run | Configuration | Distinct states | Shows |
| --- | --- | --- | --- |
| `poller` | `MCPoller.cfg` | 858,002 | the floors, disclosure, the promised instant, service and cancellation |
| `backoff_loop` | `BackoffLoop.cfg` | 6,564 | the loop computes the closed form and does not wrap |
| `identity_cache` | `MCIdentityCache.cfg` | 1,041,162 | one writer, own documents, an end to announcements, a menu that ends up right |
| `credential_cache` | `MCCredentialCache.cfg` | 606,172 | the pinned account, live tokens, recovery |
| `settings` | `MCSettings.cfg` | 176,726 | the six invariants and the refinement of the store |
| `tray` | `MCTray.cfg` | 256,289 | a screen that catches up, clicks that are served, an end to the program |
| `singleton` | `MCSingleton.cfg` | 294 | one instance, and none kept out by a dead one |
| `menu` | `MCMenu.cfg` | 77,367 | the menu is the reading, the tooltip and the icon agree with it, numbers are exact |
| `poller_cadence`, `credential_outage`, `settings_overwrite`, `menu_captions` | the other configurations | | a sentence of the repository that the code does not keep: section 5 |

The bounds, and why they are enough:

- **poller**: two callers, because the hazards are a second request while the first
  is between unlock and send, and both at once; a clock of 9 with a floor of 2,
  a `DefaultInterval` of 3, a `DegradedInterval` of 4 and a `MaxBackoff` of 7 keeps
  the order of the code's constants and leaves room for two automatic polls or four
  refreshes. Requested intervals are one below the minimum and one between
  `DegradedInterval` and `MaxBackoff`. A `Retry-After` is absent or exceeds every
  interval but the ceiling.
- **backoff_loop**: minutes for durations and 2048 for 2^63. Cadences run up to the
  largest duration, on both sides of half of it and of `MaxBackoff`; fourteen
  failures double past the width of the integer.
- **identity_cache**: one local and one remote path, two versions one of which is a
  read error, one edit and one move of the path, two reader goroutines. The second
  reader is what `SingleWriter` is about: one that released the flag may still be
  announcing while the next one starts.
- **credential_cache**: a file here and one in WSL, three changes (an outage, a
  renewal, a recovery), and time for a token to be issued, run into both margins
  and be renewed.
- **settings**: files off the presets, of the older shape, of both shapes at once,
  with equal thresholds, and none; two clicks, received or not, which is what it
  takes for one choice to be made while another is held; one edit, two stops.

- **tray**: two providers, one with documents and one with `NoIdentity`, as `main.go`
  wires them; two readings and two accounts, which is what it takes to be out of date.
  Nothing counts: the state space is finite without a bound, and no behaviour is cut
  short.
- **singleton**: three processes, so that one may be running, one refused and one
  starting; each may start again and again.
- **menu**: three events between the first draw and the end, of seven answers of anthropic,
  five of openai, six failures, two accounts and three preferences or none of them, three
  settings and two steps of the clock; a draw between any two. Three readings is what it
  takes for a row to be shown, to be hidden and to be shown again. Three rows of meters
  make four meters too many. Integers of seven bits make seconds, amounts and their
  scaled forms overflow. 1970 is 5 seconds from the zero time, so that resets at 45 s, at
  63 s and at -5 s are one in reach, one past the last second and the zero time itself; a
  delay of 99 s has more digits than an integer. Percentages are at 0, at the reserved
  cells of either end (1, 2, 3, 96, 97), above 100 and below 0.

`CHECK_DEADLOCK FALSE` stands where the system stops: `backoff` returns, a process
whose file was rejected, or whose bounds are used up, does nothing more, and the
program ends.

### Fairness

- **Poller**: weak fairness of the send, of recording an answer, of publishing and
  of the select. The Go scheduler runs what can run; the HTTP client's timeout ends
  a request. Nobody has to click, to change the interval or to cancel. `CancelStops`
  and `RefreshServed` are checked up to the clock's bound, which also ends every row
  of slow polls. Without it, a `select` could for ever prefer one more request,
  granted during the last slow poll, to `ctx.Done`; in the code its choice among
  ready branches is random, so that it takes `ctx.Done` in the end.
- **Identity cache**: of the UI goroutine, of each reader and of the end of polls
  (the poller polls for ever). Files answer in the end. The liveness properties are
  of the form "from some point on", for files and paths that change finitely often.
- **Credential cache**: of `Token`, `Send` and `Answer`. Neither the clock nor the
  CLI that renews tokens has to go on; `RenewalResumesPolling` has the renewal as
  its premise.
- **Tray**: weak fairness of each poller, each reader and its announcement, of the
  loop's own steps and of the main goroutine; strong fairness of the two branches of
  the select that something waits for, the signal and `ctx.Done`, and of a poller that
  is cancelled while its timer or a request is ready as well: Go picks one of the
  ready branches at random, so none of them is passed over for ever. Nobody has to
  click, to interrupt or to rewrite a file.
- **Settings**, **Singleton** and **MenuView**: none; all their properties are safety.

## 4. Proofs

TLAPS checks every theorem for all values of the constants that meet the named
assumptions (`ScheduleConstants`, `PollerConstants`, `IdentityConstants`,
`CredentialConstants`, `DocumentConstants`, `SettingsConstants`, `TrayConstants`,
`SingletonConstants`, `QuotaConstants`, `DecoderConstants`, `LoopConstants`,
`NilDocuments`, `PresenterConstants`, `MenuConstants`, `MenuInputs`), which TLC
evaluates in the runs. They say that numbers are naturals, that a minimum is one, that
what comes from outside has the types the code decodes it into, and that the values
standing for nothing are not confused with anything else: a nil pointer is neither a
document, nor a snapshot, nor an error.

Every safety property of every run that passes is the statement of a theorem: the
type invariants, the invariants, the action property and the refinement.

*Induction.* The library states it for an operator, which no prover here can
instantiate. Where a proof needs it, `Induction` has it for a set of naturals and
`Recursion` for a function on them, both derived from the library's theorem that `<` is
well-founded on them; a recursive function of the model (`factor`, `tenTo`) is
known to meet its equation by `Recursion`, and a fold by the sequence of its partial
results. No module with a theorem declares a recursive operator.

**Poller.** `UserPollSpacing` is not inductive: that polls are spaced is due to
requests having been charged when they were granted. `FloorInv` says so in four
parts. `Causal`: recorded instants are in the past, in the order they were recorded.
`Charged`: a pending request was charged to `lastPollAt`, at this instant if `Run` is
about to look for it and during the poll in flight otherwise. `Spaced`: unless grants
overlapped, one request at most is on its way, and it was granted a floor after the
last user poll. `Timed`: the timer leaves `DefaultInterval` after the last answer.
TLC checks `FloorInv` in the run `poller`; `FloorKept` proves it. From it follow
`UserPollsSpaced`, `GrantsOverlap` and `TimerKeepsFloor`. The last rests on
`BackoffKeepsFloor`: no result and no number of failures makes `backoff` go below
`DefaultInterval`.
`NextPollIsShown` and `StaleIsDisclosed` have invariants of their own.

**Backoff.** `LoopComputesBackoff` speaks of the return. While the loop turns, its
`delay` is the cadence doubled `i - 1` times, without a bit lost (`LoopInv`): it is
doubled only below the ceiling, which is `MaxBackoff` wherever anything is doubled, and
twice that fits. `MoreFailuresNeverSooner` says of `backoff` that of two rows of
failures which end in the same kind, with the same `Retry-After`, the longer one waits at
least as long. It says nothing of rows that end in different kinds: section 5.

**Identity cache.** `SingleWriter` and `NoForeignDocuments` need each other: what is
carried forward is the reader's own because the previous documents it holds are
still the published ones, and they are because nobody else writes. `IdentityInv`
adds, per reader, what it holds at each phase (`Reads`), and is proved one action at
a time; a lemma says that a step of one reader, or of the UI, leaves the others'
`Reads` alone. `RemoteReadTwiceAtMost` counts reads, and its invariant says how one
gets from none to two (`RemoteReads`): after the first unforced read of the path in use,
either the documents are settled under that path or the reader that settles them is in
flight, and an accessor under way got its path from that source; a second read is taken
by an accessor that had loaded before they were settled, and after it none is left that
did.

**Credential cache.** `CredentialInv` adds to the types what `Token` keeps between
its steps. `Pinned` adds that with a configured path every step reads that path
only, since what a load finds is stamped with the path it was read at
(`LoadStampsPath`). `TokensLive` is an action property: the check against the clock
and the return are one step in each branch.

**Settings.** `OfferedChoiceIsTaken` is the heart: from any valid thresholds, on the
presets or off them, a choice the menu offers leaves valid ones, for every set of
presets under the ceiling. It rests on `LeastExists` (a nonempty set of naturals has
a least element, from the library's well-foundedness of `<`). `SettingsInv` says
that the document in force and the one being saved are valid, that the latter came
from a choice, that the temporary file is complete before it is flushed and flushed
before it is renamed, and that files under the name are flushed. From it follow
`RestartIsAccepted`, `WarningIsReachable` and `ChoicesAreTaken`; with `Shown`, which
relates cadence, file, settings and ticks, also `MenuAgreesWithDisk` and
`TicksAgree`. `MenuShowsDisk` does not ask what `decode` makes of the file as it is, but
of what its newer members say alone (`Modern`, proved the same by `ModernReadsTheSame`),
so that an older shape which outlives a save counts as wrong. `SettingsImplementStore` maps every step to a step of the store or to
a stutter; `SavedIsReadBack` is what makes the rename a `Save` of the store.

**Tray.** `ScreenIsCurrent` speaks of a loop at rest, and a draw takes many steps
during which everything it has read may change. The invariant says what holds in
between: of each provider the loop has passed in this draw, what it took is what is
there now, or a signal is waiting, or the change has not been announced yet and will
leave one; of those it has not come to, nothing is owed; and between draws the same
holds of what is shown. It is proved for any number of providers, one action at a
time.

**Singleton.** That instances exclude each other rests on who has what open at which
step: on Windows every process past `CreateMutex` has a handle, so the second finds the
object; elsewhere only the owner of the lock runs. `NothingStranded` follows from the
same invariant: what is open belongs to a process that is there.

**Quota and menu.** First, single calls, for integers of any width above a day.
`RetryAfterBounded`, `WaitExact`, `RelativeResetAhead`: no header and no number of
seconds makes the multiplication overflow once it is bounded, and within the bound the
wait is the one asked for. `FiguresExact`: an amount prints as the amount, at the ends of
the integers as well, unless its exponent is above the cap. `VendorNeverOverruled` and `SeverityGrows` are about
`SeverityFor`; `GaugesAgree` about `progressBar` and `fillHeight` at every percentage.

The invariants of the menu rest on two. `Readings`: what `State`, `Account` and
`Preferences` return is typed, and is accounted for by the last answer; a failure's wait
is the one in its header, and without a failure the snapshot is the document's.
`Displays`: after a draw each widget shows what the last draw read, whatever it showed
before (`Shows`, `Titled`). The second is not obvious: an item that a draw hides keeps
its caption, a draw with fewer meters leaves the rest as they were, a choice of settings
rewrites captions no draw does, and a click rewrites a status line that the next draw
has to take back. TLC checked both with the five invariants before they were proved.
From them, for any documents, settings, lengths of texts and widths of integers:

- `NumbersStayExact` from `Readings` and the single calls, through both decoders. The
  property names what it excepts, and the code does not keep there: an absolute reset
  whose seconds from the year 1 leave the width, a delay of more digits than an integer
  has, the point of an amount with more places than are printed (section 5).
- `IconAlwaysAgrees`: the icon is sent only when it differs from the last one, so that
  what is sent is compared with the primary meter, whether it is listed or beyond the
  rows (`PrimaryIsOne`: it is the first that nothing outranks, and there is one). Where
  it is listed, the cells are counted in the menu's own row.
- `ResetsAlwaysReadable`: a row that leaves its reset out is below one that names the
  same, with no row between them that has another or none, by induction on the rows of a
  draw. The rows have to fit (`Fits`): a label
  longer than an item is cut together with its reset.
- `TooltipAlwaysWhole`: `joinWithinBudget` keeps to the budget, takes lines from the
  front and cuts at most the status.
- `MenuAlwaysTheReading`: the commands and the intervals, which no terminal prints, are
  those of a menu made from the settings in force; the visible rows of the reused widgets, read from top to
  bottom, are what the other platform's `render` prints. Both sides are concatenations
  of sequences of unequal lengths. The proof brings them to one form, entry by entry:
  `FlattenSeq` of a concatenation is the concatenation (`Partial` is the sequence of
  partial results), a hidden row and an empty line both count as nothing (`Legible`),
  and a list that is longer than the rows loses the same tail on both sides.

**Only model-checked.** The liveness properties (`RefreshServed`, `CancelStops`,
`AnnouncementsEnd`, `MenuFollowsSource`, `PreferencesCatchUp`, `InvalidateHonoured`,
`RenewalResumesPolling`, `ClickIsAnswered`, `QuitEnds`): proofs under fairness need
`ENABLED`, which the prover does not support.

## 5. Where the code and its words differ

Four are runs that TLC must find violated, each quoting the sentence.

1. **A failed poll may bring the next one forward** (`poller_cadence`). `backoff`
   answers `DegradedInterval`, 15 minutes, to `Unauthorized` and `Protocol` whatever
   the cadence; at 30 minutes or an hour that is sooner than after a success.
   "Backoff exists to poll less often, never more." (`poller_test.go:175`)
2. **An outage drops a usable token** (`credential_outage`), when discovery finds
   another file with an older token. "a transient WSL outage cannot silently
   downgrade a usable token" (`cache.go:56`)
3. **An unparseable file is overwritten while the app runs** (`settings_overwrite`).
   "A config file that exists but cannot be parsed is an error and is never
   overwritten" (`README.md:198`)
4. **A caption with half an ampersand** (`menu_captions`). `sanitizeMenuField` cuts
   after it has doubled ampersands, so the cut may fall between the two of a pair, and
   the one that is left marks the ellipsis as the item's mnemonic. "None of that may be
   reachable from a document this app only reads" (`format.go:254`)

Six more are stated in the modules under "What the documentation says and the code
does not do", and TLC refutes each when its name is put into the configuration named
here, under `PROPERTIES` or, for the third and the last two, under `INVARIANTS`.

5. **A waiting click outruns a Retry-After** (`RetryAfterHonoured`, `MCPoller.cfg`). A
   request granted while the poll is in flight wins the select right after its 429 is
   recorded. "back off for at least RetryAfter" (`quota.go:196`)
6. **Two user polls closer than the floor** (`UserPollSpacingAlways`, `MCPoller.cfg`),
   when a poll outlasts the floor. "ManualRefreshFloor is the minimum spacing between
   user-triggered polls" (`poller.go:32`). How far it goes is a theorem:
   `GrantsOverlapOnlyInSlowPolls`.
7. **A second remote read nobody asked for** (`RemoteReadOnce`, `MCIdentityCache.cfg`):
   `inUse` decides under the lock by what it loaded before. "From a remote source they
   are read once and then only when the user asks" (`cache.go:51`).
   `RemoteReadTwiceAtMost` is how far it goes.
8. **An outage with a live token fails the poll** (`OutageKeepsPolling`,
   `MCCredentialCache.cfg`), in the last five minutes of its life: `Token` returns it
   and `Fetch` refuses it. "outage with a still-valid token must not fail the poll"
   (`cache_test.go:172`)
9. **A reset of the far future is long past** (`EpochSecondsComplete`, `MCMenu.cfg`).
   `time.Unix` adds the seconds from the year 1 to 1970 in an int64, so a `reset_at`
   above 2^63 - 1 - 62135596800 wraps and the window stands as one that has emptied; the
   zero time, which means no reset, is a `reset_at` too. "an absolute epoch second is a
   complete instant, and time.Unix is total over the whole int64 range" (`decode.go:140`)
10. **A delay too long is none** (`DelaySecondsHonoured`, `MCMenu.cfg`). A `Retry-After`
    of more digits than an int64 holds fails in `ParseInt`, is no date and becomes no
    wait, though the bound is there because a value too large would otherwise "be read as
    "no wait requested", which is the opposite of the instruction" (`quota.go:244`)

And smaller ones that came up while modelling, which the properties allow for:

- The bar and the icon "can never disagree" (`bar.go:32-34`), but at 95 to 97 percent
  the bar is full and the icon is not. `GaugesAgree` and `IconAgreesWithMenu` say how
  close they stay: within one cell, and empty together.
- A start may be refused on Windows though no instance runs, because another refused
  start has not closed its handle yet; `singleton.go:10` says "another instance holds
  the guard". `RefusedBesideAnother` asks only for a process that is there.
- A tooltip's status line "is elided instead of dropped" (`format.go:610`), but dropped
  where fewer than two characters are left for it.
- A title longer than an item is cut with what follows it, so that a meter with a long
  name shows no reset though the row below leaves its own out for it.
- A field of nothing but format characters is a blank line on the terminal, and hidden in
  the menu.
- With more meters than rows, the one the icon shows may not be among those listed.
- An amount with an exponent above six keeps its figures and loses places: it is shown
  too large by powers of ten. "Exponent only controls display" (`quota.go:101`), and
  `quota_test.go:22` pins the case. `NumbersExact` asks for the places up to the cap and
  for the figures always.
- A failure of another kind at the end of a row of failures may bring the next poll
  forward: after three `Transient` ones a `RateLimited` without `Retry-After`, or an
  `Unauthorized` where the cadence is short, waits less than a fourth would.
- A click that systray drops leaves its tick off until the next one that is received; the
  settings, the file and the pollers stay as they were (`TicksSettle`).
- A balance without a reset, below a row that names one, reads as belonging to it
  (`format.go:459`).
- An icon without a filled row has no colour, so an unconfirmed reading of nothing
  used does not show as grey.

## 6. Not modelled

- HTTP, JSON text, the spelling of timestamps, `wsl.exe` and its output, the names of
  home directories, file modes, the Windows API: input and output, of which only the
  outcomes appear.
- The fields of the two CLIs' credential, state and settings files: a document is what
  it says or that it cannot be read. `isRemoteSource` is a constant of `IdentityCache`.
- Percentages between two whole points and NaN (JSON has none); the layout of pixels
  and bytes in the icon; the padding of the terminal's columns.
- The catalogues' wording, `Parse` of a language tag, build information: text.
- In `Tray`, a provider on a remote source, whose documents are read once: `IdentityCache`
  has it. In `MenuView`, changes during a draw: `Tray` has them.
- In `Tray`, systray dropping a click: that module has the clicks that reach the loop, and
  promises nothing for others. `Settings` has both.
- Windows' clock changes: `now` is monotone in the models, as Go's `time.Time` is
  within a process.

## 7. Plan

Done: every component of section 1, except for what section 6 leaves out; one
composition (`Tray`) and one refinement (`SettingsStore`); theorems for every safety
property of the runs.

What would add most from here:

1. An abstract specification of a rate-limited poller, implemented by `Poller`, and
   one of the identity cache as "the last document read beside the path in use", so
   that `Tray` could be shown to be a composition of those instead of a reduction.
2. Discovery: home directories, `isPlainName` and the bounded lists.
3. Proofs: the refinements of item 1, step by step. `BackoffLoop` and `Poller` share the
   closed form of `PollSchedule`, so that `LoopIsBackoff` speaks of the poller's delays
   already.
