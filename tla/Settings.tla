------------------------------- MODULE Settings -------------------------------
(***************************************************************************)
(* The settings from the file to the pollers and back: config.Load at the    *)
(* start, the choices of the menu, menuView.changeSettings and config.Save,  *)
(* with a file system that may fail at every call, lose power, and hold what *)
(* a hand wrote.                                                            *)
(*                                                                          *)
(* Each system call of Save is a step. The event loop of the tray runs one   *)
(* change at a time; clicks reach it through a goroutine per item, each of   *)
(* which holds at most one; a click it does not take is dropped.             *)
(***************************************************************************)
EXTENDS SettingsDocument

CONSTANTS
    FirstFiles,     \* bound: what the file may hold before the first start
    Edits,          \* bound: what a hand may write into it
    Unparseable,    \* the ones of these that do not parse
    Nothing,        \* no file, no settings in force, no document
    Torn,           \* what a file holds whose data never reached the disk
    Smudged,        \* ticks systray has moved on its own
    Unheard,        \* the same, since a click nobody received
    MaxEdits, MaxClicks, MaxStops     \* bounds

\* A file: what it holds, whether that is on the disk, and who wrote it.
Contents == Raw \cup {Unparseable, Torn}
File == [holds : Contents, synced : BOOLEAN, writer : {"app", "hand"}]

ASSUME SettingsConstants ==
    /\ FirstFiles \subseteq Raw
    /\ Edits \subseteq Raw \cup {Unparseable}
    /\ Nothing \notin Document
    /\ Nothing \notin File
    /\ Rejected \notin Document
    /\ {Smudged, Unheard} \cap Document = {}
    /\ Smudged # Unheard
    /\ Torn \notin Raw \cup {Unparseable}
    /\ Unparseable \notin Raw
    /\ {MaxEdits, MaxClicks, MaxStops} \subseteq Nat

VARIABLES
    \* the file system
    path,           \* the file named config.json
    behind,         \* the one its directory names on the disk
    temp,           \* the temporary file of the Save under way
    \* the process
    pc,             \* "stopped", "idle", or the next step of a Save
    cfg,            \* Presenter.cfg
    cadence,        \* the interval the pollers were given
    saving,         \* the argument of the Save under way
    ticked,         \* the settings whose items carry the ticks
    clicked,        \* the choices the forwarding goroutines hold
    \* bounds and history
    edits, clicks, stops,
    edited          \* a hand wrote the file after the app read or wrote it

disk == <<path, behind>>
running == <<cfg, cadence, ticked>>
bounds == <<edits, clicks, stops>>
vars == <<path, behind, temp, pc, cfg, cadence, saving, ticked, clicked, edits,
          clicks, stops, edited>>

-------------------------------------------------------------------------------
\* A hand saves with whatever its editor does, and it reached the disk.
ByHand(holds) == [holds |-> holds, synced |-> TRUE, writer |-> "hand"]

TypeOK ==
    /\ path \in File \cup {Nothing}
    /\ behind \in File \cup {Nothing}
    /\ temp \in File \cup {Nothing}
    /\ pc \in {"stopped", "idle", "create", "write", "sync", "rename", "saved", "failed"}
    /\ cfg \in Document \cup {Nothing}
    /\ cadence \in Nat
    /\ saving \in Document \cup {Nothing}
    /\ ticked \in Document \cup {Nothing, Smudged, Unheard}
    /\ clicked \subseteq Choice
    /\ {edits, clicks, stops} \subseteq Nat
    /\ edited \in BOOLEAN

Init ==
    /\ path \in {ByHand(raw) : raw \in FirstFiles} \cup {Nothing}
    /\ behind = path
    /\ temp = Nothing
    /\ pc = "stopped"
    /\ cfg = Nothing
    /\ cadence = 0
    /\ saving = Nothing
    /\ ticked = Nothing
    /\ clicked = {}
    /\ edits = 0 /\ clicks = 0 /\ stops = 0
    /\ edited = FALSE

-------------------------------------------------------------------------------
(* config.Load. A file that cannot be read, parsed or used ends the start and
   changes nothing. *)

StartWithFile ==
    /\ pc = "stopped"
    /\ path # Nothing
    /\ path.holds \in Raw
    /\ Valid(decode(path.holds))
    /\ pc' = "idle"
    /\ cfg' = decode(path.holds)
    /\ cadence' = cfg'.interval
    /\ ticked' = cfg'
    /\ edited' = FALSE
    /\ UNCHANGED <<disk, temp, saving, clicked, bounds>>

StartWithoutFile ==
    /\ pc = "stopped"
    /\ path = Nothing
    /\ pc' = "create"
    /\ saving' = Default
    /\ UNCHANGED <<disk, temp, running, clicked, bounds, edited>>

-------------------------------------------------------------------------------
(* The menu *)

\* systray moves the tick of the item and offers the click to its channel, which is not
\* buffered: it is dropped if the goroutine behind it is not receiving, be it that it
\* has not come to it or that it still holds a click, which stands for the same choice.
Click(choice) ==
    /\ cfg # Nothing
    /\ clicks < MaxClicks
    /\ clicks' = clicks + 1
    /\ \/ choice \notin clicked /\ clicked' = clicked \cup {choice} /\ ticked' = Smudged
       \/ ticked' = Unheard /\ UNCHANGED clicked
    /\ UNCHANGED <<disk, temp, pc, cfg, cadence, saving, edits, stops, edited>>

\* The event loop receives a choice, and changeSettings either rejects what it
\* leads to or calls Save.
Choose(choice) ==
    LET changed == With(cfg, choice)
    IN  /\ pc = "idle"
        /\ choice \in clicked
        /\ clicked' = clicked \ {choice}
        /\ IF changed = Rejected
           THEN ticked' = cfg /\ UNCHANGED <<pc, saving>>
           ELSE pc' = "create" /\ saving' = changed /\ UNCHANGED ticked
        /\ UNCHANGED <<disk, temp, cfg, cadence, bounds, edited>>

-------------------------------------------------------------------------------
(* config.Save *)

CreateTemp ==
    /\ pc = "create"
    /\ temp' = [holds |-> Torn, synced |-> FALSE, writer |-> "app"]
    /\ pc' = "write"
    /\ UNCHANGED <<disk, running, saving, clicked, bounds, edited>>

WriteTemp ==
    /\ pc = "write"
    /\ temp' = [temp EXCEPT !.holds = encode(saving)]
    /\ pc' = "sync"
    /\ UNCHANGED <<disk, running, saving, clicked, bounds, edited>>

\* Mutant: the file is closed without being flushed.
SyncTempSkipped ==
    /\ pc = "sync"
    /\ pc' = "rename"
    /\ UNCHANGED <<disk, temp, running, saving, clicked, bounds, edited>>

SyncTemp ==
    /\ pc = "sync"
    /\ temp' = [temp EXCEPT !.synced = TRUE]
    /\ pc' = "rename"
    /\ UNCHANGED <<disk, running, saving, clicked, bounds, edited>>

Rename ==
    /\ pc = "rename"
    /\ path' = temp
    /\ temp' = Nothing
    /\ pc' = "saved"
    /\ edited' = FALSE
    /\ UNCHANGED <<behind, running, saving, clicked, bounds>>

\* Any of the calls fails, and the temporary file is removed.
SaveFails ==
    /\ pc \in {"create", "write", "sync", "rename"}
    /\ temp' = Nothing
    /\ pc' = "failed"
    /\ UNCHANGED <<disk, running, saving, clicked, bounds, edited>>

\* The rest of changeSettings, or of a first start: the settings come into force.
Applied ==
    /\ pc = "saved"
    /\ cfg' = saving
    /\ cadence' = saving.interval
    /\ ticked' = saving
    /\ saving' = Nothing
    /\ pc' = "idle"
    /\ UNCHANGED <<disk, temp, clicked, bounds, edited>>

\* Mutant: the pollers are told before the outcome is known.
RefusedButTold ==
    /\ pc = "failed"
    /\ saving' = Nothing
    /\ cadence' = saving.interval
    /\ IF cfg = Nothing
       THEN pc' = "stopped" /\ UNCHANGED ticked
       ELSE pc' = "idle" /\ ticked' = cfg
    /\ UNCHANGED <<disk, temp, cfg, clicked, bounds, edited>>

\* Mutant: the ticks are left as the click moved them.
RefusedUnsynced ==
    /\ pc = "failed"
    /\ saving' = Nothing
    /\ pc' = IF cfg = Nothing THEN "stopped" ELSE "idle"
    /\ UNCHANGED <<disk, temp, running, clicked, bounds, edited>>

\* Nothing comes into force. A first start ends here.
Refused ==
    /\ pc = "failed"
    /\ saving' = Nothing
    /\ IF cfg = Nothing
       THEN pc' = "stopped" /\ UNCHANGED ticked
       ELSE pc' = "idle" /\ ticked' = cfg
    /\ UNCHANGED <<disk, temp, cfg, cadence, clicked, bounds, edited>>

-------------------------------------------------------------------------------
(* The machine, and the hand that edits the file *)

\* The process ends, wherever it is; a temporary file stays behind unread.
ProcessEnds ==
    /\ stops < MaxStops
    /\ stops' = stops + 1
    /\ pc' = "stopped"
    /\ cfg' = Nothing
    /\ cadence' = 0
    /\ saving' = Nothing
    /\ ticked' = Nothing
    /\ clicked' = {}
    /\ temp' = Nothing
    /\ UNCHANGED <<edits, clicks, edited>>

Killed ==
    /\ pc # "stopped"
    /\ ProcessEnds
    /\ UNCHANGED disk

AfterLoss(file) ==
    IF file = Nothing \/ file.synced THEN file
    ELSE [file EXCEPT !.holds = Torn, !.synced = TRUE]

\* The rename may not have reached the disk, nor data nobody flushed.
PowerLoss ==
    /\ ProcessEnds
    /\ path' \in {AfterLoss(path), AfterLoss(behind)}
    /\ behind' = path'

Writeback ==
    /\ behind # path
    /\ path' = [path EXCEPT !.synced = TRUE]
    /\ behind' = path'
    /\ UNCHANGED <<temp, pc, running, saving, clicked, bounds, edited>>

HandEdit(holds) ==
    /\ edits < MaxEdits
    /\ edits' = edits + 1
    /\ path' = ByHand(holds)
    /\ behind' = path'
    /\ edited' = TRUE
    /\ UNCHANGED <<temp, pc, running, saving, clicked, clicks, stops>>

Next ==
    \/ StartWithFile \/ StartWithoutFile
    \/ \E choice \in Choice : Click(choice) \/ Choose(choice)
    \/ CreateTemp \/ WriteTemp \/ SyncTemp \/ Rename \/ SaveFails
    \/ Applied \/ Refused
    \/ Killed \/ PowerLoss \/ Writeback
    \/ \E holds \in Edits : HandEdit(holds)

Spec == Init /\ [][Next]_vars

-------------------------------------------------------------------------------
\* Whenever the power fails, the next start finds a whole document if the app wrote
\* it, and one it accepts: no change of a setting ever locks the user out.
RestartAccepts ==
    \A file \in {path, behind} :
        file # Nothing /\ AfterLoss(file).writer = "app" =>
            /\ AfterLoss(file).holds \in Raw
            /\ Valid(decode(file.holds))

\* The warning level can be reached, whatever the user chose, whatever hand-written
\* or older file the settings came from, and in whatever order the choices arrived.
WarningReachable ==
    cfg # Nothing => 0 < cfg.warn /\ cfg.warn < cfg.critical /\ cfg.critical <= Ceiling

\* Nothing the menu offers is a click that does nothing (settings.go:162).
NoChoiceRefused ==
    cfg # Nothing => \A choice \in Choice : With(cfg, choice) # Rejected

\* A file in the shape this release writes: an older key stands for a part of it where
\* that part is missing, and for nothing else.
Modern(raw) ==
    [raw EXCEPT
        !.providers = IF @ = Missing THEN raw.credentialPath ELSE @,
        !.usageAlerts = IF @ = Missing THEN [warn |-> raw.warnAtPercent,
                                             critical |-> raw.criticalAtPercent] ELSE @,
        !.credentialPath = Missing, !.warnAtPercent = Missing, !.criticalAtPercent = Missing]

\* The menu and the pollers have what is on disk, unless a hand changed that, also
\* after a Save that failed at any of its steps (tray_windows.go:368); of a file in both
\* shapes they have the current one, and no merge of the two (config.go:134).
MenuShowsDisk ==
    pc = "idle" /\ ~edited =>
        /\ path # Nothing /\ decode(Modern(path.holds)) = cfg
        /\ cadence = cfg.interval

\* Once every click has been dealt with the ticks are at the settings in force, though
\* systray moved them and some of the clicks came to nothing; only a click that nobody
\* received leaves them off, until the next one that is.
TicksSettle == pc = "idle" /\ clicked = {} => ticked \in {cfg, Unheard}

-------------------------------------------------------------------------------
HeldBy(file) == IF file = Nothing THEN Nothing ELSE file.holds

Store == INSTANCE SettingsStore WITH
    stored <- HeldBy(path),
    fallback <- HeldBy(behind),
    accepted <- IF pc = "saved" THEN saving ELSE Nothing,
    inForce <- cfg

\* The settings are a store that changes from one whole document to another.
ImplementsStore == Store!Spec

-------------------------------------------------------------------------------
(* What the documentation says and the code does not do *)

\* "A config file that exists but cannot be parsed is an error and is never
\* overwritten" (README.md:198). The code looks at the file only when it starts.
UnparseableKept == [][HeldBy(path) = Unparseable => ~Rename]_vars

===============================================================================
