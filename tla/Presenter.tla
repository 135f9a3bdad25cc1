------------------------------- MODULE Presenter -------------------------------
(***************************************************************************)
(* The text, the gauge and the icon that internal/tray makes of one reading.  *)
(*                                                                          *)
(* A text is a sequence of characters, each a pair or triple whose first part *)
(* says what it is: a letter of a document, a message or a label of the       *)
(* catalogue, a number, an amount, a cell of a gauge. A whole word counts as  *)
(* one character, so the two limits on lengths are bounds scaled down with    *)
(* the words. What a message says around its arguments is left out.          *)
(***************************************************************************)
EXTENDS Decoders

CONSTANTS
    Languages,          \* those with a catalogue
    Translated,         \* the meters that have a label in it
    MaxTooltip,         \* maxTooltipRunes
    MaxField            \* maxMenuFieldRunes

ASSUME PresenterConstants ==
    /\ Languages # {}
    /\ {MaxTooltip, MaxField} \subseteq Nat \ {0, 1}
    /\ MaxField >= 10               \* a gauge is not cut

Letter(c) == <<"letter", c>>
Marker == Letter("&")           \* menuMnemonicMarker
Control == Letter("control")
Format == Letter("format")      \* draws nothing, reorders the rest
Space == Letter(" ")
Column == Letter("tab")         \* menuRightAlign
Newline == Letter("newline")
Ellipsis == Letter("ellipsis")
Cell(filled) == <<"cell", filled>>

\* What a translation says, with its arguments.
Text(lang, key, args) == << <<"text", lang, key>> >> \o FlattenSeq(args)

MeterLabel(lang, meter) ==
    IF meter.id \in Translated THEN << <<"label", lang, meter.id>> >> ELSE meter.name

\* Only a letter has a capital.
capitalizeFirst(text) ==
    IF text = <<>> \/ text[1] \in {Marker, Control, Format} THEN text
    ELSE << <<"capital", text[1]>> >> \o Tail(text)

-------------------------------------------------------------------------------
(* Rows and captions *)

truncateRunes(text, limit) ==
    IF Len(text) <= limit THEN text ELSE SubSeq(text, 1, limit - 1) \o <<Ellipsis>>

neutral(c) ==
    CASE c = Marker -> <<Marker, Marker>>
      [] c = Control -> <<Space>>
      [] c = Format -> <<>>
      [] OTHER -> <<c>>

neutralized(field) == FlattenSeq([i \in DOMAIN field |-> neutral(field[i])])

sanitizeMenuField(field) == truncateRunes(neutralized(field), MaxField)

Row(label, detail, bar) == [label |-> label, detail |-> detail, bar |-> bar]

\* Non-empty texts, with a separator between two.
Joined(texts, separator) ==
    LET leads(i) == \A j \in 1 .. i - 1 : texts[j] = <<>>
    IN  FlattenSeq([i \in DOMAIN texts |-> IF leads(i) \/ texts[i] = <<>> THEN texts[i]
                                           ELSE separator \o texts[i]])

MenuRowTitle(row) ==
    LET right == Joined(<<sanitizeMenuField(row.detail), sanitizeMenuField(row.bar)>>, <<Space>>)
        label == sanitizeMenuField(row.label)
    IN  IF right = <<>> THEN label ELSE label \o <<Column>> \o right

-------------------------------------------------------------------------------
(* The rows of one subscription *)

HeaderRow == Row(<<Letter("meterAI")>>, <<Letter("version")>>, <<>>)

Product == [anthropic |-> <<Letter("Claude")>>, openai |-> <<Letter("ChatGPT")>>]

\* Both providers name themselves and what they sell.
providerPlan(sub) ==
    IF sub.snapshot = Nil THEN <<>>
    ELSE Joined(<<Product[sub.vendor], capitalizeFirst(sub.snapshot.plan)>>, <<Space>>)

providerVendor(sub) == capitalizeFirst(<<Letter(sub.vendor)>>)

ProviderRow(sub) == Row(providerVendor(sub), providerPlan(sub), <<>>)
ProviderListRow(sub) == Row(providerVendor(sub), <<>>, <<>>)

PreferencesRow(lang, sub) ==
    LET prefs == sub.preferences
        effort == IF prefs.effort = <<>> THEN <<>>
                  ELSE Text(lang, "EffortLevel", <<capitalizeFirst(prefs.effort)>>)
    IN  Row(IF prefs = Nil THEN <<>>
            ELSE Joined(<<capitalizeFirst(prefs.model), effort>>, <<Letter("bullet")>>),
            <<>>, <<>>)

AccountRows(lang, sub) ==
    LET stated(key, value) == IF value = <<>> THEN <<>>
                              ELSE <<Row(Text(lang, key, <<>>), value, <<>>)>>
    IN  IF sub.account = Nil THEN <<>>
        ELSE stated("AccountName", sub.account.name)
                 \o stated("AccountEmail", sub.account.email)
                 \o stated("AccountOrganization", sub.account.organization)

-------------------------------------------------------------------------------
(* The rows of its meters *)

countdown(lang, d) ==
    LET number(n) == << <<"number", n>> >>
    IN  CASE d <= 0 -> Text(lang, "CountdownNow", <<>>)
          [] d > 0 /\ d < Minute -> Text(lang, "CountdownUnderMinute", <<>>)
          [] d >= Minute /\ d < Hour -> Text(lang, "CountdownMinutes", <<number(d \div Minute)>>)
          [] d >= Hour /\ d < Day ->
                 Text(lang, "CountdownHours",
                      <<number(d \div Hour), number((d % Hour) \div Minute)>>)
          [] d >= Day ->
                 Text(lang, "CountdownDays", <<number(d \div Day), number((d % Day) \div Hour)>>)

amount(m) == << <<"amount", Figures(m)>> >>
percentText(percent) == << <<"percent", percent>> >>

figure(lang, meter) ==
    IF meter.shape = "utilization" THEN percentText(meter.percent)
    ELSE IF meter.limit = Nil THEN amount(meter.used)
    ELSE Text(lang, "BalanceUsedOfLimit", <<amount(meter.used), amount(meter.limit)>>)

meterBar(meter) ==
    IF meter.shape = "balance" /\ meter.limit = Nil THEN <<>>
    ELSE [i \in 1 .. 10 |-> Cell(i <= progressBar(meter.percent))]

\* Mutant: a row without a reset hands on the one above it.
statesResetAcross(meters, i) ==
    LET above == {j \in 1 .. i - 1 : meters[j].reset # Nil}
    IN  /\ meters[i].reset # Nil
        /\ above # {} => meters[i].reset # meters[Max(above)].reset

\* A row says when its meter resets unless the row above speaks of the same instant.
statesReset(meters, i) ==
    /\ meters[i].reset # Nil
    /\ i > 1 => meters[i].reset # meters[i - 1].reset

meterTitle(lang, meters, i, now) ==
    LET label == MeterLabel(lang, meters[i])
        left == countdown(lang, Sub(meters[i].reset, now))
    IN  IF statesReset(meters, i)
        THEN label \o <<Space>> \o Text(lang, "MeterResetSuffix", <<left>>)
        ELSE label

MeterRows(lang, sub, now) ==
    IF sub.snapshot = Nil THEN <<>>
    ELSE LET meters == sub.snapshot.meters
         IN  [i \in DOMAIN meters |->
                 Row(meterTitle(lang, meters, i, now), figure(lang, meters[i]),
                     meterBar(meters[i]))]

-------------------------------------------------------------------------------
(* The status line and the tooltip *)

humanizeError(lang, error) ==
    CASE error.kind = "Unauthorized" -> Text(lang, "ErrorUnauthorized", <<error.renewHint>>)
      [] error.kind = "RateLimited" -> Text(lang, "ErrorRateLimited", <<>>)
      [] error.kind = "Transient" -> Text(lang, "ErrorTransient", <<>>)
      [] error.kind = "Protocol" -> Text(lang, "ErrorProtocol", <<>>)

StatusText(lang, sub, now) ==
    LET age == countdown(lang, Sub(now, sub.updatedAt))
        next == countdown(lang, Sub(sub.nextPollAt, now))
    IN  IF sub.lastError # Nil
        THEN Joined(<<humanizeError(lang, sub.lastError),
                      IF sub.snapshot = Nil THEN <<>> ELSE Text(lang, "StatusStale", <<age>>)>>,
                    <<Space>>)
        ELSE IF sub.snapshot = Nil THEN Text(lang, "StatusFirstPoll", <<>>)
        ELSE Text(lang, "StatusUpdated", <<age, next>>)

tooltipStatus(lang, sub, now) ==
    IF sub.lastError # Nil \/ sub.snapshot = Nil THEN StatusText(lang, sub, now)
    ELSE Text(lang, "StatusUpdatedBrief", <<countdown(lang, Sub(now, sub.updatedAt))>>)

\* Mutant: lines and status are joined first and cut together.
joinWithinBudgetCut(lines, trailing, limit) ==
    truncateRunes(Joined(lines \o <<trailing>>, <<Newline>>), limit)

\* As many whole lines as fit, in their order, and then what fits of the trailing one.
joinWithinBudget(lines, trailing, limit) ==
    LET first(n) == Joined(SubSeq(lines, 1, n), <<Newline>>)
        fit == Max({n \in 0 .. Len(lines) : Len(first(n)) <= limit})
        room == limit - Len(first(fit)) - (IF fit > 0 THEN 1 ELSE 0)
    IN  IF room < 2 THEN first(fit)
        ELSE Joined(<<first(fit), truncateRunes(trailing, room)>>, <<Newline>>)

Tooltip(lang, sub, now) ==
    LET meters == IF sub.snapshot = Nil THEN <<>> ELSE sub.snapshot.meters
        lines == [i \in DOMAIN meters |->
                     MeterLabel(lang, meters[i]) \o <<Space>> \o figure(lang, meters[i])]
    IN  joinWithinBudget(lines, tooltipStatus(lang, sub, now), MaxTooltip)

-------------------------------------------------------------------------------
(* The icon *)

IconState(alerts, sub) ==
    LET primary == IF sub.snapshot = Nil THEN Nil ELSE Primary(sub.snapshot.meters)
    IN  IF primary = Nil THEN [percent |-> 0, level |-> SeverityNormal, stale |-> TRUE]
        ELSE [percent |-> primary.percent,
              level |-> SeverityFor(alerts, primary.percent, primary.level),
              stale |-> sub.lastError # Nil]

fillColor(level, stale) ==
    CASE stale -> "grey"
      [] ~stale /\ level = SeverityCritical -> "red"
      [] ~stale /\ level = SeverityWarning -> "amber"
      [] ~stale /\ level = SeverityNormal -> "green"

\* Two icons are the same bytes when as many rows are filled in the same colour.
Render(icon) ==
    LET rows == fillHeight(icon.percent)
    IN  [rows |-> rows,
         colour |-> IF rows = 0 THEN "none" ELSE fillColor(icon.level, icon.stale)]

-------------------------------------------------------------------------------
(* The rows of the settings *)

IntervalLabel(lang, interval) ==
    LET number(n) == << <<"number", n>> >>
    IN  IF interval % Hour = 0
        THEN Text(lang, "IntervalHours", <<number(interval \div Hour)>>)
        ELSE IF interval % Minute = 0
        THEN Text(lang, "IntervalMinutes", <<number(interval \div Minute)>>)
        ELSE << <<"duration", interval>> >>

SettingsRows(cfg) ==
    LET warn == percentText(cfg.warn)
        crit == percentText(cfg.crit)
        Setting(key, value) == Row(Text(cfg.lang, key, <<>>), value, <<>>)
    IN  <<Setting("MenuUsageAlerts", warn \o <<Letter("bullet")>> \o crit),
          Setting("MenuWarnThreshold", warn),
          Setting("MenuCriticalThreshold", crit),
          Setting("MenuInterval", IntervalLabel(cfg.lang, cfg.interval)),
          Setting("MenuLanguage", << <<"native", cfg.lang>> >>)>>
===============================================================================
