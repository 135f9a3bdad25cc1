------------------------------- MODULE MenuView -------------------------------
(***************************************************************************)
(* The widgets of the tray and what the event loop writes into them, from    *)
(* the vendors' answers to the captions, the tooltip and the icon.           *)
(*                                                                          *)
(* The widgets are made once, and a draw changes captions and hides items; a *)
(* hidden item keeps its last caption. Between two draws anything may have    *)
(* been answered, and the signals of that are one signal.                    *)
(***************************************************************************)
EXTENDS Presenter

CONSTANTS
    Usage,          \* bound: per vendor, the answers with status 200, decoded or not
    Plans,          \* bound: what anthropic's credential file says of the plan
    Failures,       \* bound: the other ends of a poll, with the Retry-After header
    RenewHint,      \* the command that renews a credential
    Accounts, Preferences,  \* bounds: what the CLI's documents may say, or Nil
    Settings,       \* bound: the settings a choice may lead to
    FirstSettings,  \* those of the start
    Presets,        \* IntervalPresets
    Steps,          \* bound: how far the clock goes at once
    MaxMeterRows,   \* maxMeterRows
    MaxEvents       \* bound

Vendors == <<"anthropic", "openai">>

ASSUME MenuConstants ==
    /\ FirstSettings \in Settings
    /\ Settings \subseteq [lang : Languages, warn : Int, crit : Int, interval : Int]
    /\ \A c \in Settings : c.warn < c.crit
    /\ {MaxMeterRows, MaxEvents} \subseteq Nat
    /\ Steps \subseteq Nat

Kinds == {"Unauthorized", "RateLimited", "Transient", "Protocol"}

\* What comes from outside has the types the code decodes it into, and an error or a
\* snapshot is told from none.
ASSUME MenuInputs ==
    /\ Usage["anthropic"] \subseteq Optional(AnthropicDocument)
    /\ Usage["openai"] \subseteq Optional(OpenaiDocument)
    /\ Plans \subseteq Word
    /\ RenewHint \in Word
    /\ Accounts \subseteq Optional([name : Word, email : Word, organization : Word])
    /\ Preferences \subseteq Optional([model : Word, effort : Word])
    /\ \A f \in Failures :
           /\ f.kind \in Kinds
           /\ f.header.form \in {"seconds", "date"} => f.header.value \in Int
    /\ Nil \notin [kind : Kinds, renewHint : {<<>>, RenewHint}, retryAfter : Int]
    /\ Nil \notin Snapshots

VARIABLES
    subs,       \* per provider, what State, Account and Preferences return
    now,
    signalled,  \* a signal waits in Updates
    cfg,        \* Presenter.cfg
    menu,       \* the widgets
    \* history
    heard,      \* per provider, the last answer and when it came
    drawn,      \* the subscriptions and the instant of the last draw
    notice,     \* the status line answers a click instead
    events      \* bound

vars == <<subs, now, signalled, cfg, menu, heard, drawn, notice, events>>

-------------------------------------------------------------------------------
(* Widgets *)

Item == [shown |-> FALSE, title |-> <<>>]
Readouts(n) == [i \in 1 .. n |-> Item]

newProviderEntry ==
    [row |-> Item, context |-> <<>>, prefs |-> Item, meters |-> Readouts(MaxMeterRows),
     status |-> Item, accounts |-> Readouts(3)]

\* Mutant: the fixed commands keep the language they were made in.
retitleSettings(m, c) ==
    [m EXCEPT !.commands = IF @ # <<>> THEN @ ELSE [i \in 1 .. 4 |-> Text(c.lang,
                  <<"MenuProviders", "MenuSettings", "MenuRefresh", "MenuQuit">>[i], <<>>)],
              !.settings = [i \in 1 .. 5 |-> MenuRowTitle(SettingsRows(c)[i])],
              !.intervals = [i \in DOMAIN Presets |-> IntervalLabel(c.lang, Presets[i])]]

\* Each fixed command, and each setting with its value.
retitle(m, c) ==
    [m EXCEPT !.commands = [i \in 1 .. 4 |-> Text(c.lang,
                  <<"MenuProviders", "MenuSettings", "MenuRefresh", "MenuQuit">>[i], <<>>)],
              !.settings = [i \in 1 .. 5 |-> MenuRowTitle(SettingsRows(c)[i])],
              !.intervals = [i \in DOMAIN Presets |-> IntervalLabel(c.lang, Presets[i])]]

newMenuView(c) ==
    retitle([header |-> Item, provider |-> Item, prefs |-> Item,
             meters |-> Readouts(MaxMeterRows), status |-> <<>>, providersMenu |-> TRUE,
             entries |-> [p \in DOMAIN Vendors |-> newProviderEntry],
             commands |-> <<>>, settings |-> <<>>, intervals |-> <<>>,
             lastIcon |-> Nil, icon |-> Nil, tooltip |-> <<>>], c)

setReadout(item, row) ==
    IF MenuRowTitle(row) = <<>> THEN [item EXCEPT !.shown = FALSE]
    ELSE [shown |-> TRUE, title |-> MenuRowTitle(row)]

\* Mutant: items past the last row are left as they are.
applyRowsKept(items, rows) ==
    [i \in DOMAIN items |-> IF i > Len(rows) THEN items[i] ELSE setReadout(items[i], rows[i])]

applyRows(items, rows) ==
    [i \in DOMAIN items |->
        IF i > Len(rows) THEN [items[i] EXCEPT !.shown = FALSE]
        ELSE setReadout(items[i], rows[i])]

applyProvider(entry, c, sub, at) ==
    LET name == MenuRowTitle(ProviderListRow(sub))
    IN  IF name = <<>> THEN [entry EXCEPT !.row.shown = FALSE]
        ELSE [row |-> [shown |-> TRUE, title |-> name],
              context |-> MenuRowTitle(ProviderRow(sub)),
              prefs |-> setReadout(entry.prefs, PreferencesRow(c.lang, sub)),
              meters |-> applyRows(entry.meters, MeterRows(c.lang, sub, at)),
              status |-> [shown |-> TRUE, title |-> StatusText(c.lang, sub, at)],
              accounts |-> applyRows(entry.accounts, AccountRows(c.lang, sub))]

apply(m, c, all, at) ==
    LET active == all[1]
        entries == [p \in DOMAIN all |-> applyProvider(m.entries[p], c, all[p], at)]
        icon == Render(IconState(c, active))
    IN  [m EXCEPT
            !.header = setReadout(@, HeaderRow),
            !.provider = setReadout(@, ProviderRow(active)),
            !.prefs = setReadout(@, PreferencesRow(c.lang, active)),
            !.meters = applyRows(@, MeterRows(c.lang, active, at)),
            !.status = StatusText(c.lang, active, at),
            !.entries = entries,
            !.providersMenu = \E p \in DOMAIN all : entries[p].row.shown,
            !.icon = IF icon # m.lastIcon THEN icon ELSE @,
            !.lastIcon = icon,
            !.tooltip = Tooltip(c.lang, active, at)]

-------------------------------------------------------------------------------
Waiting(vendor) ==
    [vendor |-> vendor, snapshot |-> Nil, updatedAt |-> Nil, lastError |-> Nil,
     nextPollAt |-> Nil, account |-> Nil, preferences |-> Nil]

Init ==
    /\ subs = [p \in DOMAIN Vendors |-> Waiting(Vendors[p])]
    /\ now = 0
    /\ signalled = FALSE
    /\ cfg = FirstSettings
    /\ menu = apply(newMenuView(cfg), cfg, subs, now)
    /\ heard = [p \in DOMAIN Vendors |-> Nil]
    /\ drawn = [subs |-> subs, at |-> now]
    /\ notice = FALSE
    /\ events = 0

Happens == events < MaxEvents /\ events' = events + 1

\* The end of a poll: what it leaves in State, and its signal. The delay after a
\* failure is PollSchedule's; no row shows it.
Record(p, state, answer) ==
    /\ Happens
    /\ subs' = [subs EXCEPT ![p] =
                   [@ EXCEPT !.snapshot = state.snapshot, !.updatedAt = state.updatedAt,
                             !.lastError = state.lastError,
                             !.nextPollAt = now + cfg.interval]]
    /\ heard' = [heard EXCEPT ![p] = answer]
    /\ signalled' = TRUE
    /\ UNCHANGED <<now, cfg, menu, drawn, notice>>

Observed(snapshot) == [snapshot |-> snapshot, updatedAt |-> now, lastError |-> Nil]

\* Client.fail, and the header of a status other than 200: the last figures stay.
Failed(p, kind, header) ==
    [snapshot |-> subs[p].snapshot, updatedAt |-> subs[p].updatedAt,
     lastError |-> [kind |-> kind,
                    renewHint |-> IF kind = "Unauthorized" THEN RenewHint ELSE <<>>,
                    retryAfter |-> ParseRetryAfter(header, now)]]

NoHeader == [form |-> "absent"]

\* A document that has no meter is a failure of kind Protocol.
Answered(p, doc, plan) ==
    LET snapshot == IF Vendors[p] = "anthropic" THEN decodeAnthropic(doc, plan, now)
                    ELSE decodeOpenai(doc, now)
    IN  Record(p, IF snapshot = Nil THEN Failed(p, "Protocol", NoHeader) ELSE Observed(snapshot),
               [doc |-> doc, header |-> NoHeader, at |-> now])

Refused(p, kind, header) ==
    Record(p, Failed(p, kind, header), [doc |-> Nil, header |-> header, at |-> now])

\* The identity cache of the one vendor that has documents was filled again.
DocumentsRead(account, preferences) ==
    /\ Happens
    /\ subs' = [subs EXCEPT ![1].account = account, ![1].preferences = preferences]
    /\ subs' # subs
    /\ signalled' = TRUE
    /\ UNCHANGED <<now, cfg, menu, heard, drawn, notice>>

Tick(step) ==
    /\ Happens
    /\ now' = now + step
    /\ UNCHANGED <<subs, signalled, cfg, menu, heard, drawn, notice>>

\* The loop takes the signal.
Apply ==
    /\ signalled
    /\ signalled' = FALSE
    /\ menu' = apply(menu, cfg, subs, now)
    /\ drawn' = [subs |-> subs, at |-> now]
    /\ notice' = FALSE
    /\ UNCHANGED <<subs, now, cfg, heard, events>>

\* changeSettings, once the choice is saved.
ChangeSettings(changed) ==
    /\ Happens
    /\ changed # cfg
    /\ cfg' = changed
    /\ menu' = apply(retitle(menu, changed), changed, subs, now)
    /\ drawn' = [subs |-> subs, at |-> now]
    /\ notice' = FALSE
    /\ UNCHANGED <<subs, now, signalled, heard>>

\* A choice that could not be saved, or a click no poller accepts.
Notify(key) ==
    /\ Happens
    /\ menu' = [menu EXCEPT !.status = Text(cfg.lang, key, <<>>)]
    /\ notice' = TRUE
    /\ UNCHANGED <<subs, now, signalled, cfg, heard, drawn>>

Next ==
    \/ \E p \in DOMAIN Vendors :
        \/ \E doc \in Usage[Vendors[p]], plan \in Plans : Answered(p, doc, plan)
        \/ \E f \in Failures : Refused(p, f.kind, f.header)
    \/ \E account \in Accounts, preferences \in Preferences :
        DocumentsRead(account, preferences)
    \/ \E step \in Steps : Tick(step)
    \/ Apply
    \/ \E changed \in Settings : ChangeSettings(changed)
    \/ \E key \in {"SettingsSaveFailed", "RefreshRejected"} : Notify(key)

Spec == Init /\ [][Next]_vars
-------------------------------------------------------------------------------
(* The same reading on a terminal: tray_other.go's render, which prints rows in
   the order the menu has them and skips the empty ones. A printed row is its
   caption, the column's padding being a terminal's column break. *)

writeRow(row) == IF row = Row(<<>>, <<>>, <<>>) THEN <<>> ELSE <<MenuRowTitle(row)>>
writeRows(rows) == FlattenSeq([i \in DOMAIN rows |-> writeRow(rows[i])])

subscriptionLines(c, sub, at) ==
    writeRow(ProviderRow(sub)) \o writeRow(PreferencesRow(c.lang, sub))
        \o writeRows(MeterRows(c.lang, sub, at)) \o <<StatusText(c.lang, sub, at)>>

render(all, c, at) ==
    LET entry(sub) == writeRow(ProviderListRow(sub)) \o subscriptionLines(c, sub, at)
                          \o writeRows(AccountRows(c.lang, sub))
    IN  writeRow(HeaderRow) \o subscriptionLines(c, all[1], at)
            \o FlattenSeq([p \in DOMAIN all |-> entry(all[p])]) \o writeRows(SettingsRows(c))

-------------------------------------------------------------------------------
(* Properties *)

Visible(items) ==
    FlattenSeq([i \in DOMAIN items |-> IF items[i].shown THEN <<items[i].title>> ELSE <<>>])

\* The captions of a menu from top to bottom, with every submenu open.
Screen(m) ==
    LET entry(e) == IF ~e.row.shown THEN <<>>
                    ELSE <<e.row.title, e.context>> \o Visible(<<e.prefs>>) \o Visible(e.meters)
                             \o Visible(<<e.status>>) \o Visible(e.accounts)
    IN  Visible(<<m.header>>) \o Visible(<<m.provider>>) \o Visible(<<m.prefs>>)
            \o Visible(m.meters) \o <<m.status>>
            \o (IF m.providersMenu
                THEN FlattenSeq([p \in DOMAIN m.entries |-> entry(m.entries[p])]) ELSE <<>>)
            \o m.settings

\* A caption without a character in it shows nothing.
Legible(captions) ==
    FlattenSeq([i \in DOMAIN captions |-> IF captions[i] = <<>> THEN <<>> ELSE <<captions[i]>>])

\* What the fixed number of rows leaves of a subscription.
Capped(sub) ==
    IF sub.snapshot = Nil THEN sub
    ELSE [sub EXCEPT !.snapshot.meters = SubSeq(@, 1, Min({Len(@), MaxMeterRows}))]

ActiveMeters == IF drawn.subs[1].snapshot = Nil THEN <<>> ELSE drawn.subs[1].snapshot.meters

\* However the widgets came to be what they are, row by row and draw by draw, the
\* menu reads as the terminal would print the last reading afresh, in the language
\* and with the settings in force; only the status line may answer a click
\* instead, and a line of nothing but format characters is none. The captions a
\* terminal has none of, commands and intervals, are those of a menu made now.
\* (menuView.apply and retitle, against tray_other.go's render and newMenuView.)
MenuIsTheReading ==
    LET status == StatusText(cfg.lang, drawn.subs[1], drawn.at)
    IN  /\ Screen([menu EXCEPT !.status = IF notice THEN status ELSE @])
              = Legible(render([p \in DOMAIN drawn.subs |-> Capped(drawn.subs[p])], cfg, drawn.at))
        /\ menu.commands = newMenuView(cfg).commands
        /\ menu.intervals = newMenuView(cfg).intervals

\* Every meter's reset can be read off the menu: from its own row, or from the
\* nearest row above that names one, all rows from there on having that reset, as
\* long as the names leave room for it.
\* (Presenter.MeterRows, which leaves out what the row above says already.)
ResetsReadable ==
    LET Fits(meter) == Len(neutralized(MeterLabel(cfg.lang, meter))) + 5 <= MaxField
        Says(item) == \E k \in DOMAIN item.title :
                          item.title[k] = <<"text", cfg.lang, "MeterResetSuffix">>
        Readable(items, meters) ==
            \A i \in DOMAIN items \cap DOMAIN meters :
                (meters[i].reset # Nil /\ \A j \in 1 .. i : Fits(meters[j])) =>
                    \E j \in 1 .. i :
                        /\ Says(items[j])
                        /\ \A k \in j .. i : meters[k].reset = meters[i].reset
                        /\ \A k \in j + 1 .. i : ~Says(items[k])
    IN  \A p \in DOMAIN drawn.subs :
            drawn.subs[p].snapshot # Nil =>
                /\ Readable(menu.entries[p].meters, drawn.subs[p].snapshot.meters)
                /\ p = 1 => Readable(menu.meters, drawn.subs[p].snapshot.meters)

\* The tooltip keeps to its budget, names the first meters and no later one in their
\* place, gives each the figure its row has in the menu, and cuts nothing but the
\* status line, which it leaves out only where nothing of it could be read.
\* (Presenter.Tooltip and joinWithinBudget.)
TooltipWhole ==
    LET sub == drawn.subs[1]
        Figure(i) == figure(cfg.lang, ActiveMeters[i])
        Line(i) == MeterLabel(cfg.lang, ActiveMeters[i]) \o <<Space>> \o Figure(i)
        Block(n) == Joined([i \in 1 .. n |-> Line(i)], <<Newline>>)
        Status(room) == IF room < 2 THEN <<>>
                        ELSE truncateRunes(tooltipStatus(cfg.lang, sub, drawn.at), room)
        InRow(i) == \E k \in DOMAIN menu.meters[i].title :
                        /\ menu.meters[i].title[k] = Column
                        /\ SubSeq(menu.meters[i].title, k + 1, k + Len(Figure(i))) = Figure(i)
    IN  /\ Len(menu.tooltip) <= MaxTooltip
        /\ \E n \in 0 .. Len(ActiveMeters), room \in 1 .. MaxTooltip :
              /\ menu.tooltip = Joined(<<Block(n), Status(room)>>, <<Newline>>)
              /\ n < Len(ActiveMeters) => Len(Block(n + 1)) > MaxTooltip
              /\ room < 2 => Len(Block(n)) + 3 > MaxTooltip
              /\ \A i \in 1 .. n : i <= MaxMeterRows => InRow(i)

\* The icon and the gauge tell of the primary meter, on the rows or beyond them,
\* within a cell of each other and are empty together; the icon is grey exactly when
\* the reading is not confirmed, and never milder than the vendor or the thresholds on
\* display have it. (IconState, trayicon.Render and the suppressed SetIcon, against
\* progressBar.)
IconAgreesWithMenu ==
    LET Filled(item) == Cardinality({k \in DOMAIN item.title : item.title[k] = Cell(TRUE)})
        rows == menu.icon.rows
        Agree(cells) == /\ 24 * cells - 10 * rows \in -23 .. 23
                        /\ cells = 0 <=> rows = 0
        m == Primary(ActiveMeters)
    IN  IF ActiveMeters = <<>> THEN rows = 0
        ELSE /\ Agree(progressBar(m.percent))
             /\ \A i \in DOMAIN menu.meters \cap DOMAIN ActiveMeters :
                   (ActiveMeters[i] = m /\ meterBar(m) # <<>>) => Agree(Filled(menu.meters[i]))
             /\ rows # 0 => (menu.icon.colour = "grey" <=> drawn.subs[1].lastError # Nil)
             /\ m.percent >= cfg.warn => menu.icon.colour # "green"
             /\ m.percent >= cfg.crit => menu.icon.colour # "amber"
             /\ m.level >= SeverityWarning => menu.icon.colour # "green"
             /\ m.level = SeverityCritical => menu.icon.colour # "amber"

\* The windows of a document, each with the kind of the meter it becomes.
StatedWindows(doc) ==
    {<<"session", primaryWindow(doc.rateLimit)>>,
     <<"weekly", secondaryWindow(doc.rateLimit)>>,
     <<"code_review_session", primaryWindow(doc.codeReviewRateLimit)>>,
     <<"code_review_weekly", secondaryWindow(doc.codeReviewRateLimit)>>}

\* What the last answer of a subscription left on display, if that was no failure.
MetersOf(p) == IF subs[p].snapshot = Nil THEN {} ELSE Range(subs[p].snapshot.meters)
Confirmed(p, vendor) == Vendors[p] = vendor /\ heard[p] # Nil /\ subs[p].lastError = Nil

\* A vendor's numbers mean on our side what they said, or are left out: a window
\* empties when its vendor said, a wait is the one asked for and at most a day, an
\* amount prints as the amount. Excepted are resets at the far end of an int64 of
\* seconds and waits of more digits than one (what becomes of those is below), and the
\* place of the point in an amount of more places than MaxMoneyExponent.
\* (windowReset, parseDollarString, ParseRetryAfter and Money.String, whose integers
\* overflow.)
NumbersExact ==
    LET AsStated(m, w, at) ==
            /\ (w.resetAt # Nil /\ w.resetAt + Epoch \in Int64 \ {0}) =>
                  m.reset = w.resetAt * Second
            /\ (w.resetAt = Nil /\ m.reset # Nil) =>
                  /\ w.resetAfterSeconds \in Nat
                  /\ m.reset = at + w.resetAfterSeconds * Second
        Exact(a) ==
            LET f == Figures(a)
            IN  /\ f.whole >= 0 /\ f.rest \in 0 .. tenTo[f.places] - 1
                /\ (IF f.negative THEN -1 ELSE 1) * (f.whole * tenTo[f.places] + f.rest) = a.minor
                /\ a.exponent <= MaxMoneyExponent => f.places = a.exponent
    IN  \A p \in DOMAIN subs :
            /\ \A m \in MetersOf(p) : \A a \in {m.used, m.limit} \ {Nil} : Exact(a)
            /\ LET header == heard[p].header
                   wait == subs[p].lastError.retryAfter
               IN  (heard[p] # Nil /\ subs[p].lastError # Nil) =>
                       /\ header.form = "date" =>
                             wait = Max({0, Min({Day, header.value - heard[p].at})})
                       /\ (header.form = "seconds" /\ header.value < Half) =>
                             wait = Max({0, Min({Day, header.value * Second})})
            /\ Confirmed(p, "openai") =>
                   \A m \in MetersOf(p) :
                       /\ m.shape = "utilization" =>
                             \E s \in StatedWindows(heard[p].doc) :
                                 m.name = Kind(s[1]) /\ s[2] # Nil /\ AsStated(m, s[2], heard[p].at)
                       /\ m.shape = "balance" =>
                             LET s == heard[p].doc.credits.balance
                                 unit == tenTo[IF s.places = Nil THEN 0 ELSE s.places]
                             IN  (IF s.negative THEN -1 ELSE 1) * m.used.minor * unit
                                   = (s.whole * unit + (IF s.places = Nil THEN 0 ELSE s.fraction))
                                         * tenTo[DollarExponent]

-------------------------------------------------------------------------------
(* What the documentation says and the code does not do *)

\* Refuted: decode.go:140 says "an absolute epoch second is a complete instant, and
\* time.Unix is total over the whole int64 range"; a window that empties later would
\* then be shown to empty later.
EpochSecondsComplete ==
    \A p \in DOMAIN subs : Confirmed(p, "openai") =>
        \A m \in MetersOf(p), s \in StatedWindows(heard[p].doc) :
            /\ m.name = Kind(s[1])
            /\ s[2].resetAt # Nil
            /\ s[2].resetAt * Second > heard[p].at
            => m.reset # Nil /\ m.reset > heard[p].at

\* Refuted: quota.go:244 says that a delay too large would without the bound "be read
\* as "no wait requested", which is the opposite of the instruction"; every delay would
\* then be a wait.
DelaySecondsHonoured ==
    \A p \in DOMAIN subs :
        LET header == heard[p].header
        IN  /\ heard[p] # Nil
            /\ subs[p].lastError # Nil
            /\ header.form = "seconds" /\ header.value > 0
            => subs[p].lastError.retryAfter > 0

\* Refuted: format.go:254 says of an ampersand that takes the next character as the
\* item's mnemonic that "none of that may be reachable from a document this app only
\* reads"; a caption's ampersands would then come in pairs.
CaptionsAreLiteral ==
    \A title \in Range(Screen(menu)) : \A i, j \in DOMAIN title :
        (/\ i <= j
         /\ \A k \in i .. j : title[k] = Marker
         /\ i = 1 \/ title[i - 1] # Marker
         /\ j = Len(title) \/ title[j + 1] # Marker)
            => (j - i + 1) % 2 = 0
===============================================================================
