--------------------------- MODULE SettingsDocument ---------------------------
(***************************************************************************)
(* The pure half of the settings: what internal/config accepts and makes of  *)
(* the file, and how a choice in the menu of internal/tray becomes a whole   *)
(* new document. A percentage is a number of points of whatever precision;   *)
(* of the providers only the path pinned for anthropic is kept, the one an   *)
(* older file may hold in another place.                                     *)
(***************************************************************************)
EXTENDS Naturals

CONSTANTS
    MinInterval,        \* poll.DefaultInterval
    Ceiling,            \* quota.percentCeiling
    DefaultWarn,        \* quota.defaultWarnPercent
    DefaultCritical,    \* quota.defaultCriticalPercent
    IntervalPresets,    \* tray.intervalPresets
    AlertPresets,       \* tray.alertPresets
    Languages,          \* i18n.Available
    DefaultLanguage,    \* i18n.DefaultLang
    Pins,               \* what credentialPath may hold
    NoPin,              \* ""
    Missing,            \* a key the file omits
    Rejected            \* the error of a choice that leaves no valid document

ASSUME DocumentConstants ==
    /\ MinInterval \in Nat
    /\ Ceiling \in Nat
    /\ DefaultWarn \in 1 .. Ceiling
    /\ DefaultCritical \in 1 .. Ceiling
    /\ DefaultWarn < DefaultCritical
    /\ IntervalPresets \subseteq {d \in Nat : d >= MinInterval}
    /\ AlertPresets \subseteq 1 .. Ceiling
    /\ DefaultLanguage \in Languages
    /\ NoPin \in Pins
    /\ Missing \notin Nat \cup Languages \cup Pins \cup [warn : Nat \cup {Missing},
                                                      critical : Nat \cup {Missing}]

-------------------------------------------------------------------------------
(* The document in memory, config.Config *)

Document == [pin : Pins, interval : Nat, warn : Nat, critical : Nat,
             language : Languages]

Default == [pin |-> NoPin, interval |-> MinInterval, warn |-> DefaultWarn,
            critical |-> DefaultCritical, language |-> DefaultLanguage]

\* Mutant: equal thresholds pass.
ValidEqualAllowed(doc) ==
    /\ doc.interval >= MinInterval
    /\ doc.warn \in 1 .. Ceiling
    /\ doc.critical \in 1 .. Ceiling
    /\ doc.warn <= doc.critical

\* Config.Validate, for languages that have a catalogue.
Valid(doc) ==
    /\ doc.interval >= MinInterval
    /\ doc.warn \in 1 .. Ceiling
    /\ doc.critical \in 1 .. Ceiling
    /\ doc.warn < doc.critical

-------------------------------------------------------------------------------
(* The file *)

Optional(S) == S \cup {Missing}

\* What parses. The thresholds of the current shape are nested; an earlier one had
\* them, and one credentialPath, at the top level.
Raw == [providers : Optional(Pins), credentialPath : Optional(Pins),
        pollInterval : Optional(Nat),
        usageAlerts : Optional([warn : Optional(Nat), critical : Optional(Nat)]),
        warnAtPercent : Optional(Nat), criticalAtPercent : Optional(Nat),
        language : Optional(Languages)]

Else(value, default) == IF value = Missing THEN default ELSE value

\* Mutant: the language is not among the defaults the document is read into.
decodeUnseeded(raw) ==
    LET nested == raw.usageAlerts # Missing
    IN  [pin      |-> Else(raw.providers, Else(raw.credentialPath, NoPin)),
         interval |-> Else(raw.pollInterval, MinInterval),
         warn     |-> Else(IF nested THEN raw.usageAlerts.warn ELSE raw.warnAtPercent,
                           DefaultWarn),
         critical |-> Else(IF nested THEN raw.usageAlerts.critical
                                     ELSE raw.criticalAtPercent,
                           DefaultCritical),
         language |-> raw.language]

\* Mutant: what the current shape leaves out is looked for in the older one.
decodeMerged(raw) ==
    LET nested(key) == raw.usageAlerts # Missing /\ raw.usageAlerts[key] # Missing
    IN  [pin      |-> Else(raw.providers, Else(raw.credentialPath, NoPin)),
         interval |-> Else(raw.pollInterval, MinInterval),
         warn     |-> IF nested("warn") THEN raw.usageAlerts.warn
                      ELSE Else(raw.warnAtPercent, DefaultWarn),
         critical |-> IF nested("critical") THEN raw.usageAlerts.critical
                      ELSE Else(raw.criticalAtPercent, DefaultCritical),
         language |-> Else(raw.language, DefaultLanguage)]

\* Config.UnmarshalJSON into the defaults: what the file omits keeps its default,
\* and an older key counts only where the current one is missing.
decode(raw) ==
    LET nested == raw.usageAlerts # Missing
    IN  [pin      |-> Else(raw.providers, Else(raw.credentialPath, NoPin)),
         interval |-> Else(raw.pollInterval, MinInterval),
         warn     |-> Else(IF nested THEN raw.usageAlerts.warn ELSE raw.warnAtPercent,
                           DefaultWarn),
         critical |-> Else(IF nested THEN raw.usageAlerts.critical
                                     ELSE raw.criticalAtPercent,
                           DefaultCritical),
         language |-> Else(raw.language, DefaultLanguage)]

\* json.MarshalIndent: the current shape, with every key.
encode(doc) ==
    [providers |-> doc.pin, credentialPath |-> Missing,
     pollInterval |-> doc.interval,
     usageAlerts |-> [warn |-> doc.warn, critical |-> doc.critical],
     warnAtPercent |-> Missing, criticalAtPercent |-> Missing,
     language |-> doc.language]

-------------------------------------------------------------------------------
(* Choices in the menu *)

Above(percent) == {p \in AlertPresets : p > percent}
Below(percent) == {p \in AlertPresets : p < percent}

\* Mutant: a threshold already at a preset stays there.
presetAboveOrSame(percent) ==
    CHOOSE p \in AlertPresets : p >= percent /\ \A q \in AlertPresets : q >= percent => p <= q

\* The nearest preset on either side, where there is one.
presetAbove(percent) == CHOOSE p \in Above(percent) : \A q \in Above(percent) : p <= q
presetBelow(percent) == CHOOSE p \in Below(percent) : \A q \in Below(percent) : p >= q

\* Each list is without the end it cannot hold.
WarnPresets == {p \in AlertPresets : Above(p) # {}}
CriticalPresets == {p \in AlertPresets : Below(p) # {}}

Checked(changed) == IF Valid(changed) THEN changed ELSE Rejected

WithInterval(cfg, interval) == Checked([cfg EXCEPT !.interval = interval])

WithLanguage(cfg, lang) == Checked([cfg EXCEPT !.language = lang])

\* The threshold the user did not choose moves when it is in the way.
WithWarnThreshold(cfg, percent) ==
    IF cfg.critical > percent
    THEN Checked([cfg EXCEPT !.warn = percent])
    ELSE IF Above(percent) = {} THEN Rejected
    ELSE Checked([cfg EXCEPT !.warn = percent, !.critical = presetAbove(percent)])

WithCriticalThreshold(cfg, percent) ==
    IF cfg.warn < percent
    THEN Checked([cfg EXCEPT !.critical = percent])
    ELSE IF Below(percent) = {} THEN Rejected
    ELSE Checked([cfg EXCEPT !.critical = percent, !.warn = presetBelow(percent)])

\* What the settings submenus offer.
Choice ==
    [setting : {"interval"}, value : IntervalPresets] \cup
    [setting : {"language"}, value : Languages] \cup
    [setting : {"warn"}, value : WarnPresets] \cup
    [setting : {"critical"}, value : CriticalPresets]

With(cfg, choice) ==
    CASE choice.setting = "interval" -> WithInterval(cfg, choice.value)
      [] choice.setting = "language" -> WithLanguage(cfg, choice.value)
      [] choice.setting = "warn"     -> WithWarnThreshold(cfg, choice.value)
      [] choice.setting = "critical" -> WithCriticalThreshold(cfg, choice.value)

===============================================================================
