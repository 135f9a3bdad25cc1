---------------------------- MODULE SettingsProofs ----------------------------
(***************************************************************************)
(* Theorems of Settings, for every value of its constants.                  *)
(*                                                                          *)
(* Every document that comes into force, or is about to be saved, is valid:    *)
(* a start checks it, and a choice keeps it so (OfferedChoiceIsTaken). Every   *)
(* file the app wrote holds such a document and was flushed before its name    *)
(* was given to it, so the loss of power takes nothing from it.              *)
(***************************************************************************)
EXTENDS Settings, WellFoundedInduction, TLAPS

-------------------------------------------------------------------------------
(* The file *)

\* What the app writes parses.
LEMMA EncodeParses ==
    ASSUME NEW doc \in Document
    PROVE  encode(doc) \in Raw
BY DEF Document, Raw, Optional, encode

\* What parses becomes a whole document, whatever it omits and whichever shape it has.
LEMMA DecodeCompletes ==
    ASSUME NEW raw \in Raw
    PROVE  decode(raw) \in Document
<1>1. /\ raw.providers \in Pins \cup {Missing}
      /\ raw.credentialPath \in Pins \cup {Missing}
      /\ raw.pollInterval \in Nat \cup {Missing}
      /\ raw.warnAtPercent \in Nat \cup {Missing}
      /\ raw.criticalAtPercent \in Nat \cup {Missing}
      /\ raw.language \in Languages \cup {Missing}
  BY DEF Raw, Optional
<1>2. raw.usageAlerts # Missing =>
        /\ raw.usageAlerts.warn \in Nat \cup {Missing}
        /\ raw.usageAlerts.critical \in Nat \cup {Missing}
  BY DEF Raw, Optional
<1>3. DefaultWarn \in Nat /\ DefaultCritical \in Nat
  BY DocumentConstants
<1>4. Else(raw.providers, Else(raw.credentialPath, NoPin)) \in Pins
  BY <1>1, DocumentConstants DEF Else
<1>5. Else(raw.pollInterval, MinInterval) \in Nat
  BY <1>1, DocumentConstants DEF Else
<1>6. Else(raw.language, DefaultLanguage) \in Languages
  BY <1>1, DocumentConstants DEF Else
<1>7. CASE raw.usageAlerts # Missing
  BY <1>2, <1>3, <1>4, <1>5, <1>6, <1>7 DEF decode, Document, Else
<1>8. CASE raw.usageAlerts = Missing
  BY <1>1, <1>3, <1>4, <1>5, <1>6, <1>8 DEF decode, Document, Else
<1>9. QED
  BY <1>7, <1>8

\* A restart reads back exactly the settings that were saved (config.go:113, 228): no
\* key of an older shape ever wins over, or is merged into, what this release wrote.
THEOREM SavedIsReadBack ==
    ASSUME NEW doc \in Document
    PROVE  decode(encode(doc)) = doc
<1>1. /\ doc.pin # Missing
      /\ doc.interval # Missing /\ doc.warn # Missing /\ doc.critical # Missing
      /\ doc.language # Missing
  BY DocumentConstants DEF Document
<1>2. [warn |-> doc.warn, critical |-> doc.critical] # Missing
  BY DocumentConstants DEF Document
<1>3. decode(encode(doc)) = [pin |-> doc.pin, interval |-> doc.interval,
                             warn |-> doc.warn, critical |-> doc.critical,
                             language |-> doc.language]
  BY <1>1, <1>2 DEF decode, encode, Else
<1>4. QED
  BY <1>3 DEF Document

\* A file of an older shape, or of both, reads as the one in the current shape does.
LEMMA ModernReadsTheSame ==
    ASSUME NEW raw \in Raw
    PROVE  decode(Modern(raw)) = decode(raw)
<1> DEFINE thresholds == [warn |-> raw.warnAtPercent, critical |-> raw.criticalAtPercent]
           modern == Modern(raw)
<1>1. thresholds # Missing
  BY DocumentConstants DEF Raw, Optional
<1>2. /\ modern.providers = IF raw.providers = Missing THEN raw.credentialPath ELSE raw.providers
      /\ modern.credentialPath = Missing
      /\ modern.pollInterval = raw.pollInterval /\ modern.language = raw.language
      /\ modern.usageAlerts = IF raw.usageAlerts = Missing THEN thresholds ELSE raw.usageAlerts
  BY DEF Modern, Raw
<1> HIDE DEF modern
<1>3. decode(modern) = decode(raw)
  BY <1>1, <1>2 DEF decode, Else
<1>4. QED
  BY <1>3 DEF modern

\* The defaults are a document the next start accepts.
LEMMA DefaultIsValid == Default \in Document /\ Valid(Default)
BY DocumentConstants DEF Default, Document, Valid

-------------------------------------------------------------------------------
(* Choices *)

\* Every nonempty set of figures has a least one.
LEMMA LeastExists ==
    ASSUME NEW S \in SUBSET Nat, S # {}
    PROVE  \E x \in S : \A y \in S : x <= y
<1>1. PICK x \in S : \A y \in S : <<y, x>> \notin OpToRel(<, Nat)
  BY NatLessThanWellFounded, WFMin
<1>2. \A y \in S : ~(y < x)
  BY <1>1 DEF OpToRel
<1>3. QED
  BY <1>2

\* The preset above is a preset, and above.
LEMMA AboveIsAbove ==
    ASSUME NEW percent \in Nat, Above(percent) # {}
    PROVE  presetAbove(percent) \in Above(percent)
<1>1. Above(percent) \in SUBSET Nat
  <2>1. AlertPresets \subseteq Nat
    BY DocumentConstants
  <2>2. QED
    BY <2>1 DEF Above
<1>2. \E p \in Above(percent) : \A q \in Above(percent) : p <= q
  BY <1>1, LeastExists
<1>3. QED
  BY <1>2 DEF presetAbove

\* The preset below is a preset, and below.
LEMMA BelowIsBelow ==
    ASSUME NEW percent \in Nat, Below(percent) # {}
    PROVE  presetBelow(percent) \in Below(percent)
<1> DEFINE Depths == {Ceiling - p : p \in Below(percent)}
<1>1. Ceiling \in Nat /\ Below(percent) \subseteq 1 .. Ceiling
  BY DocumentConstants DEF Below
<1>2. Depths \in SUBSET Nat /\ Depths # {}
  BY <1>1
<1>3. \E d \in Depths : \A e \in Depths : d <= e
  <2> HIDE DEF Depths
  <2>1. QED
    BY <1>2, LeastExists
<1>4. PICK p \in Below(percent) : \A q \in Below(percent) : Ceiling - p <= Ceiling - q
  BY <1>3
<1>5. \A q \in Below(percent) : p >= q
  BY <1>1, <1>4
<1>6. QED
  BY <1>5 DEF presetBelow

\* A choice leaves a document the next start accepts, whichever it is and whatever the
\* settings were: the companion threshold finds a preset to move to (settings.go:162).
THEOREM OfferedChoiceIsTaken ==
    ASSUME NEW old \in Document, Valid(old), NEW choice \in Choice
    PROVE  With(old, choice) \in Document /\ Valid(With(old, choice))
<1>1. CASE choice.setting = "interval"
  <2>1. choice.value \in IntervalPresets
    BY <1>1 DEF Choice
  <2>2. choice.value \in Nat /\ choice.value >= MinInterval
    BY <2>1, DocumentConstants
  <2>3. With(old, choice) = Checked([old EXCEPT !.interval = choice.value])
    BY <1>1 DEF With, WithInterval
  <2>4. QED
    BY <2>2, <2>3 DEF Document, Valid, Checked
<1>2. CASE choice.setting = "language"
  <2>1. choice.value \in Languages
    BY <1>2 DEF Choice
  <2>2. With(old, choice) = Checked([old EXCEPT !.language = choice.value])
    BY <1>2 DEF With, WithLanguage
  <2>3. QED
    BY <2>1, <2>2 DEF Document, Valid, Checked
<1>3. CASE choice.setting = "warn"
  <2> DEFINE percent == choice.value
  <2>1. percent \in WarnPresets
    BY <1>3 DEF Choice
  <2>2. percent \in 1 .. Ceiling /\ Above(percent) # {}
    BY <2>1, DocumentConstants DEF WarnPresets
  <2>3. With(old, choice) = WithWarnThreshold(old, percent)
    BY <1>3 DEF With
  <2> HIDE DEF percent
  <2>4. CASE old.critical > percent
    BY <2>2, <2>3, <2>4, DocumentConstants DEF WithWarnThreshold, Document, Valid, Checked
  <2>5. CASE ~(old.critical > percent)
    <3>1. presetAbove(percent) \in Above(percent)
      BY <2>2, AboveIsAbove, DocumentConstants
    <3>2. presetAbove(percent) \in 1 .. Ceiling /\ presetAbove(percent) > percent
      BY <3>1, DocumentConstants DEF Above
    <3> DEFINE changed == [old EXCEPT !.warn = percent, !.critical = presetAbove(percent)]
    <3>3. With(old, choice) = Checked(changed)
      BY <2>2, <2>3, <2>5 DEF WithWarnThreshold
    <3>4. /\ changed \in Document
          /\ changed.interval = old.interval
          /\ changed.warn = percent /\ changed.critical = presetAbove(percent)
      <4>1. percent \in Nat /\ presetAbove(percent) \in Nat
        BY <2>2, <3>2, DocumentConstants
      <4>2. old \in [pin : Pins, interval : Nat, warn : Nat, critical : Nat,
                     language : Languages]
        BY DEF Document
      <4>3. QED
        BY <4>1, <4>2 DEF Document
    <3> HIDE DEF changed
    <3>5. Valid(changed)
      BY <2>2, <3>2, <3>4, DocumentConstants DEF Valid
    <3>6. QED
      BY <3>3, <3>4, <3>5 DEF Checked
  <2>6. QED
    BY <2>4, <2>5
<1>4. CASE choice.setting = "critical"
  <2> DEFINE percent == choice.value
  <2>1. percent \in CriticalPresets
    BY <1>4 DEF Choice
  <2>2. percent \in 1 .. Ceiling /\ Below(percent) # {}
    BY <2>1, DocumentConstants DEF CriticalPresets
  <2>3. With(old, choice) = WithCriticalThreshold(old, percent)
    BY <1>4 DEF With
  <2> HIDE DEF percent
  <2>4. CASE old.warn < percent
    BY <2>2, <2>3, <2>4, DocumentConstants DEF WithCriticalThreshold, Document, Valid, Checked
  <2>5. CASE ~(old.warn < percent)
    <3>1. presetBelow(percent) \in Below(percent)
      BY <2>2, BelowIsBelow, DocumentConstants
    <3>2. presetBelow(percent) \in 1 .. Ceiling /\ presetBelow(percent) < percent
      BY <3>1, DocumentConstants DEF Below
    <3> DEFINE changed == [old EXCEPT !.critical = percent, !.warn = presetBelow(percent)]
    <3>3. With(old, choice) = Checked(changed)
      BY <2>2, <2>3, <2>5 DEF WithCriticalThreshold
    <3>4. /\ changed \in Document
          /\ changed.interval = old.interval
          /\ changed.warn = presetBelow(percent) /\ changed.critical = percent
      <4>1. percent \in Nat /\ presetBelow(percent) \in Nat
        BY <2>2, <3>2, DocumentConstants
      <4>2. old \in [pin : Pins, interval : Nat, warn : Nat, critical : Nat,
                     language : Languages]
        BY DEF Document
      <4>3. QED
        BY <4>1, <4>2 DEF Document
    <3> HIDE DEF changed
    <3>5. Valid(changed)
      BY <2>2, <3>2, <3>4, DocumentConstants DEF Valid
    <3>6. QED
      BY <3>3, <3>4, <3>5 DEF Checked
  <2>6. QED
    BY <2>4, <2>5
<1>5. QED
  BY <1>1, <1>2, <1>3, <1>4 DEF Choice

-------------------------------------------------------------------------------
(* What holds while the app runs, and between two runs *)

\* The document in force, and the one being saved, which is what a first start or a
\* choice made of it.
InForce ==
    /\ pc = "stopped" => cfg = Nothing
    /\ pc = "idle" => cfg # Nothing
    /\ cfg # Nothing => Valid(cfg)

Saving ==
    /\ pc \in {"stopped", "idle"} <=> saving = Nothing
    /\ saving # Nothing =>
          /\ Valid(saving)
          /\ IF cfg = Nothing THEN saving = Default
             ELSE \E choice \in Choice : saving = With(cfg, choice)

\* The temporary file holds the document before it is flushed, and both before it gets
\* the name.
Written ==
    /\ pc \in {"write", "sync", "rename"} => temp # Nothing /\ temp.writer = "app"
    /\ pc \in {"sync", "rename"} => temp.holds = encode(saving)
    /\ pc = "rename" => temp.synced

Durable(file) ==
    file # Nothing =>
        /\ file.synced
        /\ file.writer = "app" => file.holds \in Raw /\ Valid(decode(file.holds))

\* A file stays once there is one.
Stays == path = Nothing => behind = Nothing

SettingsInv ==
    /\ TypeOK
    /\ InForce /\ Saving /\ Written
    /\ Durable(path) /\ Durable(behind) /\ Stays

-------------------------------------------------------------------------------
(* The invariant *)

\* What was written by hand is on the disk.
LEMMA ByHandIsDurable ==
    ASSUME NEW holds \in Raw \cup {Unparseable}
    PROVE  ByHand(holds) \in File /\ Durable(ByHand(holds)) /\ ByHand(holds) # Nothing
<1>1. holds \in Contents
  BY DEF Contents
<1>2. ByHand(holds) \in File
  BY <1>1 DEF ByHand, File
<1>3. QED
  BY <1>2, SettingsConstants DEF ByHand, Durable

\* A loss of power takes nothing from a durable file.
LEMMA DurableSurvives ==
    ASSUME NEW file, Durable(file)
    PROVE  AfterLoss(file) = file
BY DEF Durable, AfterLoss

\* The system starts with a file on the disk, or without one.
LEMMA InitSettings == Init => SettingsInv
<1> SUFFICES ASSUME Init PROVE SettingsInv
  OBVIOUS
<1>1. path \in File \cup {Nothing} /\ Durable(path)
  <2>1. CASE path = Nothing
    BY <2>1 DEF Durable
  <2>2. CASE path # Nothing
    <3>1. PICK raw \in FirstFiles : path = ByHand(raw)
      BY <2>2 DEF Init
    <3>2. raw \in Raw \cup {Unparseable}
      BY SettingsConstants
    <3>3. QED
      BY <3>1, <3>2, ByHandIsDurable
  <2>3. QED
    BY <2>1, <2>2
<1>2. behind \in File \cup {Nothing} /\ Durable(behind)
  BY <1>1 DEF Init
<1>3. TypeOK
  <2>1. {edits, clicks, stops} \subseteq Nat /\ cadence \in Nat
    BY DEF Init
  <2>2. clicked \subseteq Choice /\ edited \in BOOLEAN
    BY DEF Init
  <2>3. /\ pc = "stopped"
        /\ temp = Nothing /\ cfg = Nothing /\ saving = Nothing /\ ticked = Nothing
    BY DEF Init
  <2>4. QED
    BY <1>1, <1>2, <2>1, <2>2, <2>3 DEF TypeOK
<1>4. InForce /\ Saving /\ Written /\ Stays
  BY DEF Init, InForce, Saving, Written, Stays
<1>5. QED
  BY <1>1, <1>2, <1>3, <1>4 DEF SettingsInv

\* Every step of the system preserves it.
LEMMA NextSettings == SettingsInv /\ [Next]_vars => SettingsInv'
<1> SUFFICES ASSUME SettingsInv, [Next]_vars PROVE SettingsInv'
  OBVIOUS
<1> USE SettingsConstants DEF SettingsInv
<1>1. 0 \in Nat /\ \A n \in Nat : n + 1 \in Nat
  OBVIOUS
<1>2. CASE StartWithFile
  <2>1. decode(path.holds) \in Document
    BY <1>2, DecodeCompletes DEF StartWithFile
  <2>2. decode(path.holds).interval \in Nat
    BY <2>1 DEF Document
  <2>3. TypeOK'
    BY <1>2, <2>1, <2>2 DEF StartWithFile, TypeOK, disk, bounds
  <2>4. InForce' /\ Saving' /\ Written'
    BY <1>2, <2>1 DEF StartWithFile, InForce, Saving, Written
  <2>5. Durable(path)' /\ Durable(behind)' /\ Stays'
    BY <1>2 DEF StartWithFile, Durable, Stays, disk
  <2>6. QED
    BY <2>3, <2>4, <2>5
<1>3. CASE StartWithoutFile
  <2>1. TypeOK'
    BY <1>3, DefaultIsValid DEF StartWithoutFile, TypeOK, disk, running, bounds
  <2>2. InForce' /\ Saving' /\ Written'
    BY <1>3, DefaultIsValid DEF StartWithoutFile, InForce, Saving, Written, running
  <2>3. Durable(path)' /\ Durable(behind)' /\ Stays'
    BY <1>3 DEF StartWithoutFile, Durable, Stays, disk
  <2>4. QED
    BY <2>1, <2>2, <2>3
<1>4. ASSUME NEW choice \in Choice, Click(choice) PROVE SettingsInv'
  <2>1. TypeOK'
    BY <1>4, <1>1 DEF Click, TypeOK, disk
  <2>2. InForce' /\ Saving' /\ Written'
    BY <1>4 DEF Click, InForce, Saving, Written
  <2>3. Durable(path)' /\ Durable(behind)' /\ Stays'
    BY <1>4 DEF Click, Durable, Stays, disk
  <2>4. QED
    BY <2>1, <2>2, <2>3
<1>5. ASSUME NEW choice \in Choice, Choose(choice) PROVE SettingsInv'
  <2>1. cfg \in Document /\ cfg # Nothing /\ Valid(cfg)
    BY <1>5 DEF Choose, TypeOK, InForce
  <2>2. With(cfg, choice) \in Document /\ Valid(With(cfg, choice))
    BY <2>1, OfferedChoiceIsTaken
  <2>3. pc' = "create" /\ saving' = With(cfg, choice) /\ ticked' = ticked /\ cfg' = cfg
    BY <1>5, <2>2 DEF Choose
  <2>4. TypeOK'
    BY <1>5, <2>2, <2>3 DEF Choose, TypeOK, disk, bounds
  <2>5. InForce' /\ Saving' /\ Written'
    BY <2>1, <2>2, <2>3 DEF InForce, Saving, Written
  <2>6. Durable(path)' /\ Durable(behind)' /\ Stays'
    BY <1>5 DEF Choose, Durable, Stays, disk
  <2>7. QED
    BY <2>4, <2>5, <2>6
<1>6. CASE CreateTemp
  <2>1. temp' \in File /\ temp' # Nothing /\ temp'.writer = "app"
    <3>1. Torn \in Contents
      BY DEF Contents
    <3>2. temp' \in File
      BY <1>6, <3>1 DEF CreateTemp, File
    <3>3. QED
      BY <1>6, <3>2 DEF CreateTemp
  <2>2. TypeOK'
    BY <1>6, <2>1 DEF CreateTemp, TypeOK, disk, running, bounds
  <2>3. InForce' /\ Saving' /\ Written'
    BY <1>6, <2>1 DEF CreateTemp, InForce, Saving, Written, running
  <2>4. Durable(path)' /\ Durable(behind)' /\ Stays'
    BY <1>6 DEF CreateTemp, Durable, Stays, disk
  <2>5. QED
    BY <2>2, <2>3, <2>4
<1>7. CASE WriteTemp
  <2>1. saving \in Document /\ encode(saving) \in Raw
    BY <1>7, EncodeParses DEF WriteTemp, TypeOK, Saving
  <2>2. temp \in File /\ temp.writer = "app"
    BY <1>7 DEF WriteTemp, TypeOK, Written
  <2>3. /\ temp' \in File /\ temp' # Nothing
        /\ temp'.writer = "app" /\ temp'.holds = encode(saving)
    BY <1>7, <2>1, <2>2 DEF WriteTemp, File, Contents
  <2>4. TypeOK'
    BY <1>7, <2>3 DEF WriteTemp, TypeOK, disk, running, bounds
  <2>5. InForce' /\ Saving' /\ Written'
    BY <1>7, <2>3 DEF WriteTemp, InForce, Saving, Written, running
  <2>6. Durable(path)' /\ Durable(behind)' /\ Stays'
    BY <1>7 DEF WriteTemp, Durable, Stays, disk
  <2>7. QED
    BY <2>4, <2>5, <2>6
<1>8. CASE SyncTemp
  <2>1. temp \in File /\ temp.writer = "app" /\ temp.holds = encode(saving)
    BY <1>8 DEF SyncTemp, TypeOK, Written
  <2>2. /\ temp' \in File /\ temp' # Nothing /\ temp'.synced
        /\ temp'.writer = "app" /\ temp'.holds = encode(saving)
    BY <1>8, <2>1 DEF SyncTemp, File
  <2>3. TypeOK'
    BY <1>8, <2>2 DEF SyncTemp, TypeOK, disk, running, bounds
  <2>4. InForce' /\ Saving' /\ Written'
    BY <1>8, <2>2 DEF SyncTemp, InForce, Saving, Written, running
  <2>5. Durable(path)' /\ Durable(behind)' /\ Stays'
    BY <1>8 DEF SyncTemp, Durable, Stays, disk
  <2>6. QED
    BY <2>3, <2>4, <2>5
<1>9. CASE Rename
  <2>1. saving \in Document /\ Valid(saving)
    BY <1>9 DEF Rename, TypeOK, Saving
  <2>2. temp \in File /\ temp.synced /\ temp.holds = encode(saving)
    BY <1>9 DEF Rename, TypeOK, Written
  <2>3. Durable(temp)
    BY <2>1, <2>2, EncodeParses, SavedIsReadBack DEF Durable
  <2>4. TypeOK'
    BY <1>9, <2>2 DEF Rename, TypeOK, running, bounds
  <2>5. InForce' /\ Saving' /\ Written'
    BY <1>9 DEF Rename, InForce, Saving, Written, running
  <2>6. Durable(path)' /\ Durable(behind)' /\ Stays'
    <3>1. temp # Nothing
      BY <1>9 DEF Rename, Written
    <3>2. QED
      BY <1>9, <2>3, <3>1 DEF Rename, Durable, Stays
  <2>7. QED
    BY <2>4, <2>5, <2>6
<1>10. CASE SaveFails
  <2>1. TypeOK'
    BY <1>10 DEF SaveFails, TypeOK, disk, running, bounds
  <2>2. InForce' /\ Saving' /\ Written'
    BY <1>10 DEF SaveFails, InForce, Saving, Written, running
  <2>3. Durable(path)' /\ Durable(behind)' /\ Stays'
    BY <1>10 DEF SaveFails, Durable, Stays, disk
  <2>4. QED
    BY <2>1, <2>2, <2>3
<1>11. CASE Applied
  <2>1. saving \in Document /\ Valid(saving) /\ saving # Nothing
    BY <1>11 DEF Applied, TypeOK, Saving
  <2>2. saving.interval \in Nat
    BY <2>1 DEF Document
  <2>3. TypeOK'
    BY <1>11, <2>1, <2>2 DEF Applied, TypeOK, disk, bounds
  <2>4. InForce' /\ Saving' /\ Written'
    BY <1>11, <2>1 DEF Applied, InForce, Saving, Written
  <2>5. Durable(path)' /\ Durable(behind)' /\ Stays'
    BY <1>11 DEF Applied, Durable, Stays, disk
  <2>6. QED
    BY <2>3, <2>4, <2>5
<1>12. CASE Refused
  <2>1. TypeOK'
    BY <1>12 DEF Refused, TypeOK, disk, bounds
  <2>2. InForce' /\ Saving' /\ Written'
    BY <1>12 DEF Refused, InForce, Saving, Written
  <2>3. Durable(path)' /\ Durable(behind)' /\ Stays'
    BY <1>12 DEF Refused, Durable, Stays, disk
  <2>4. QED
    BY <2>1, <2>2, <2>3
<1>13. ASSUME ProcessEnds, disk' = disk \/ (path' \in {path, behind} /\ behind' = path')
       PROVE  SettingsInv'
  <2>1. TypeOK'
    BY <1>13, <1>1 DEF ProcessEnds, TypeOK, disk
  <2>2. InForce' /\ Saving' /\ Written'
    BY <1>13 DEF ProcessEnds, InForce, Saving, Written
  <2>3. Durable(path)' /\ Durable(behind)' /\ Stays'
    BY <1>13 DEF Durable, Stays, disk
  <2>4. QED
    BY <2>1, <2>2, <2>3
<1>14. CASE Killed
  BY <1>13, <1>14 DEF Killed
<1>15. CASE PowerLoss
  <2>1. AfterLoss(path) = path /\ AfterLoss(behind) = behind
    BY DurableSurvives
  <2>2. QED
    BY <1>13, <1>15, <2>1 DEF PowerLoss
<1>16. CASE Writeback
  <2>1. PICK file \in {path'} : file = [path EXCEPT !.synced = TRUE] /\ behind' = file
    BY <1>16 DEF Writeback
  <2>2. path # Nothing => file \in File /\ file = path
    BY <2>1 DEF TypeOK, Durable, File
  <2>3. path # Nothing
    BY <1>16 DEF Writeback, Stays
  <2>4. path' = path /\ behind' = path
    BY <2>1, <2>2, <2>3
  <2>5. TypeOK'
    BY <1>16, <2>4 DEF Writeback, TypeOK, running, bounds
  <2>6. InForce' /\ Saving' /\ Written'
    BY <1>16 DEF Writeback, InForce, Saving, Written, running
  <2>7. Durable(path)' /\ Durable(behind)' /\ Stays'
    BY <2>3, <2>4 DEF Durable, Stays
  <2>8. QED
    BY <2>5, <2>6, <2>7
<1>17. ASSUME NEW holds \in Edits, HandEdit(holds) PROVE SettingsInv'
  <2>1. holds \in Raw \cup {Unparseable}
    OBVIOUS
  <2>2. /\ path' \in File /\ Durable(path)'
        /\ behind' \in File /\ Durable(behind)' /\ Stays'
    BY <1>17, <2>1, ByHandIsDurable DEF HandEdit, Durable, Stays
  <2>3. TypeOK'
    BY <1>17, <1>1, <2>2 DEF HandEdit, TypeOK, running
  <2>4. InForce' /\ Saving' /\ Written'
    BY <1>17 DEF HandEdit, InForce, Saving, Written, running
  <2>5. QED
    BY <2>2, <2>3, <2>4
<1>18. CASE UNCHANGED vars
  <2>1. TypeOK'
    BY <1>18 DEF vars, TypeOK
  <2>2. InForce' /\ Saving' /\ Written' /\ Durable(path)' /\ Durable(behind)' /\ Stays'
    BY <1>18 DEF vars, InForce, Saving, Written, Durable, Stays
  <2>3. QED
    BY <2>1, <2>2
<1>19. QED
  BY <1>2, <1>3, <1>4, <1>5, <1>6, <1>7, <1>8, <1>9, <1>10, <1>11, <1>12, <1>14, <1>15,
     <1>16, <1>17, <1>18 DEF Next

\* The invariant holds in every reachable state.
LEMMA SettingsInvariant == Spec => []SettingsInv
<1>1. QED
  BY InitSettings, NextSettings, PTL DEF Spec

-------------------------------------------------------------------------------
(* What the menu shows *)

\* A file with that document in it.
Has(file, doc) == file # Nothing /\ file.holds \in Raw /\ decode(file.holds) = doc

\* The pollers have the interval in force, and the file holds the settings in force, or
\* those about to come into force, unless a hand changed it.
Shown ==
    /\ cfg # Nothing => cadence = cfg.interval
    /\ pc = "saved" /\ ~edited => Has(path, saving)
    /\ pc # "saved" /\ cfg # Nothing /\ ~edited => Has(path, cfg)
    /\ TicksSettle

\* Every step that may change one of the settings in force, the file and the ticks keeps
\* them together.
LEMMA NextShown == SettingsInv /\ Shown /\ [Next]_vars => Shown'
<1> SUFFICES ASSUME SettingsInv, Shown, [Next]_vars PROVE Shown'
  OBVIOUS
<1> USE SettingsConstants DEF Shown, TicksSettle, Has
<1>1. CASE StartWithFile
  BY <1>1 DEF StartWithFile, disk
<1>2. CASE StartWithoutFile
  BY <1>2 DEF StartWithoutFile, disk, running, SettingsInv, InForce
<1>3. ASSUME NEW choice \in Choice, Click(choice) PROVE Shown'
  BY <1>3 DEF Click, disk
<1>4. ASSUME NEW choice \in Choice, Choose(choice) PROVE Shown'
  BY <1>4 DEF Choose, disk
<1>5. CASE CreateTemp
  BY <1>5 DEF CreateTemp, disk, running
<1>6. CASE WriteTemp
  BY <1>6 DEF WriteTemp, disk, running
<1>7. CASE SyncTemp
  BY <1>7 DEF SyncTemp, disk, running
<1>8. CASE Rename
  <2>1. saving \in Document /\ temp # Nothing /\ temp.holds = encode(saving)
    BY <1>8 DEF Rename, SettingsInv, TypeOK, Saving, Written
  <2>2. path' # Nothing /\ path'.holds \in Raw /\ decode(path'.holds) = saving'
    BY <1>8, <2>1, EncodeParses, SavedIsReadBack DEF Rename
  <2>3. QED
    BY <1>8, <2>2 DEF Rename, running
<1>9. CASE SaveFails
  BY <1>9 DEF SaveFails, disk, running
<1>10. CASE Applied
  BY <1>10 DEF Applied, disk
<1>11. CASE Refused
  BY <1>11 DEF Refused, disk
<1>12. CASE Killed
  BY <1>12 DEF Killed, ProcessEnds
<1>13. CASE PowerLoss
  BY <1>13 DEF PowerLoss, ProcessEnds
<1>14. CASE Writeback
  <2>1. path \in File /\ path # Nothing
    BY <1>14 DEF Writeback, SettingsInv, TypeOK, Stays
  <2>2. path' # Nothing /\ path'.holds = path.holds
    BY <1>14, <2>1 DEF Writeback, File, SettingsInv, Durable
  <2>3. QED
    BY <1>14, <2>1, <2>2 DEF Writeback, running
<1>15. ASSUME NEW holds \in Edits, HandEdit(holds) PROVE Shown'
  BY <1>15 DEF HandEdit, running
<1>16. CASE UNCHANGED vars
  BY <1>16 DEF vars
<1>17. QED
  BY <1>1, <1>2, <1>3, <1>4, <1>5, <1>6, <1>7, <1>8, <1>9, <1>10, <1>11, <1>12, <1>13,
     <1>14, <1>15, <1>16 DEF Next

-------------------------------------------------------------------------------
(* Theorems *)

\* Every variable stays in its type.
THEOREM SettingsTypeCorrect == Spec => []TypeOK
<1>1. SettingsInv => TypeOK
  BY DEF SettingsInv
<1>2. QED
  BY <1>1, SettingsInvariant, PTL

\* No setting the menu lets through, and no step of Save the power fails at, leaves a
\* file the next start rejects (config.go:222).
THEOREM RestartIsAccepted == Spec => []RestartAccepts
<1>1. SettingsInv => RestartAccepts
  <2> SUFFICES ASSUME SettingsInv, NEW file \in {path, behind}, file # Nothing,
                      AfterLoss(file).writer = "app"
               PROVE  AfterLoss(file).holds \in Raw /\ Valid(decode(file.holds))
    BY DEF RestartAccepts
  <2>1. Durable(file)
    BY DEF SettingsInv
  <2>2. AfterLoss(file) = file
    BY <2>1, DurableSurvives
  <2>3. QED
    BY <2>1, <2>2 DEF Durable
<1>2. QED
  BY <1>1, SettingsInvariant, PTL

\* The settings in force always leave room for a warning (threshold.go:66).
THEOREM WarningIsReachable == Spec => []WarningReachable
<1>1. SettingsInv => WarningReachable
  BY DocumentConstants DEF SettingsInv, TypeOK, InForce, WarningReachable, Valid, Document
<1>2. QED
  BY <1>1, SettingsInvariant, PTL

\* Whatever the settings in force, every item of the menu leads somewhere
\* (settings.go:156).
THEOREM ChoicesAreTaken == Spec => []NoChoiceRefused
<1>1. SettingsInv => NoChoiceRefused
  <2> SUFFICES ASSUME SettingsInv, cfg # Nothing, NEW choice \in Choice
               PROVE  With(cfg, choice) # Rejected
    BY DEF NoChoiceRefused
  <2>1. cfg \in Document /\ Valid(cfg)
    BY DEF SettingsInv, TypeOK, InForce
  <2>2. With(cfg, choice) \in Document
    BY <2>1, OfferedChoiceIsTaken
  <2>3. QED
    BY <2>2, SettingsConstants
<1>2. QED
  BY <1>1, SettingsInvariant, PTL

\* The menu, the pollers and the file agree between two changes (tray_windows.go:366),
\* whichever shape the file is in.
THEOREM MenuAgreesWithDisk == Spec => []MenuShowsDisk
<1>1. Init => Shown
  BY DEF Init, Shown, TicksSettle
<1>2. SettingsInv /\ Shown => MenuShowsDisk
  BY ModernReadsTheSame DEF SettingsInv, InForce, Shown, Has, MenuShowsDisk
<1>3. QED
  BY <1>1, <1>2, NextShown, SettingsInvariant, PTL DEF Spec

\* The ticks come back to the settings in force (tray_windows.go:425) with every click
\* that is received.
THEOREM TicksAgree == Spec => []TicksSettle
<1>1. Init => Shown
  BY DEF Init, Shown, TicksSettle
<1>2. Shown => TicksSettle
  BY DEF Shown
<1>3. QED
  BY <1>1, <1>2, NextShown, SettingsInvariant, PTL DEF Spec

-------------------------------------------------------------------------------
(* Refinement *)

\* The store knows the same documents.
LEMMA SameDocuments ==
    /\ Store!Document = Document /\ Store!Raw = Raw
    /\ Store!Default = Default /\ Store!Choice = Choice
    /\ \A doc : Store!Valid(doc) <=> Valid(doc)
    /\ \A raw : Store!decode(raw) = decode(raw)
    /\ \A doc : Store!encode(doc) = encode(doc)
    /\ \A doc, choice : Store!With(doc, choice) = With(doc, choice)
<1>1. Store!Document = Document /\ Store!Default = Default
  BY DEF Store!Document, Document, Store!Default, Default
<1>2. \A S : Store!Optional(S) = Optional(S)
  BY DEF Store!Optional, Optional
<1>3. Store!Raw = Raw
  BY <1>2 DEF Store!Raw, Raw
<1>4. \A percent : Store!Above(percent) = Above(percent) /\ Store!Below(percent) = Below(percent)
  BY DEF Store!Above, Above, Store!Below, Below
<1>5. Store!WarnPresets = WarnPresets /\ Store!CriticalPresets = CriticalPresets
  BY <1>4 DEF Store!WarnPresets, WarnPresets, Store!CriticalPresets, CriticalPresets
<1>6. Store!Choice = Choice
  BY <1>5 DEF Store!Choice, Choice
<1>7. \A doc : Store!Valid(doc) <=> Valid(doc)
  BY DEF Store!Valid, Valid
<1>8. \A value, default : Store!Else(value, default) = Else(value, default)
  BY DEF Store!Else, Else
<1>9. \A raw : Store!decode(raw) = decode(raw)
  BY <1>8 DEF Store!decode, decode
<1>10. \A doc : Store!encode(doc) = encode(doc)
  BY DEF Store!encode, encode
<1>11. \A doc : Store!Checked(doc) = Checked(doc)
  BY <1>7 DEF Store!Checked, Checked
<1>12. \A percent : /\ Store!presetAbove(percent) = presetAbove(percent)
                    /\ Store!presetBelow(percent) = presetBelow(percent)
  BY <1>4 DEF Store!presetAbove, presetAbove, Store!presetBelow, presetBelow
<1>13. \A doc, value :
          /\ Store!WithInterval(doc, value) = WithInterval(doc, value)
          /\ Store!WithLanguage(doc, value) = WithLanguage(doc, value)
          /\ Store!WithWarnThreshold(doc, value) = WithWarnThreshold(doc, value)
          /\ Store!WithCriticalThreshold(doc, value) = WithCriticalThreshold(doc, value)
  BY <1>4, <1>11, <1>12
  DEF Store!WithInterval, WithInterval, Store!WithLanguage, WithLanguage,
      Store!WithWarnThreshold, WithWarnThreshold,
      Store!WithCriticalThreshold, WithCriticalThreshold
<1>14. \A doc, choice : Store!With(doc, choice) = With(doc, choice)
  BY <1>13 DEF Store!With, With
<1>15. QED
  BY <1>1, <1>3, <1>6, <1>7, <1>9, <1>10, <1>14

\* Before the first start the store holds what the file does.
LEMMA InitStore == Init => Store!Init
<1> SUFFICES ASSUME Init PROVE Store!Init
  OBVIOUS
<1>1. HeldBy(path) \in Raw \cup {Nothing}
  <2>1. CASE path = Nothing
    BY <2>1 DEF HeldBy
  <2>2. CASE path # Nothing
    <3>1. PICK raw \in FirstFiles : path = ByHand(raw)
      BY <2>2 DEF Init
    <3>2. HeldBy(path) = raw
      BY <2>2, <3>1 DEF HeldBy, ByHand
    <3>3. QED
      BY <3>2, SettingsConstants
  <2>3. QED
    BY <2>1, <2>2
<1>2. QED
  BY <1>1, SameDocuments DEF Init, Store!Init

\* The rename is the store's Save, coming into force its Apply, and the other steps of
\* a Save change nothing the store knows of.
LEMMA NextStore == SettingsInv /\ SettingsInv' /\ [Next]_vars => [Store!Next]_(Store!vars)
<1> SUFFICES ASSUME SettingsInv, SettingsInv', [Next]_vars
             PROVE  Store!Next \/ UNCHANGED Store!vars
  OBVIOUS
<1> DEFINE accepted == IF pc = "saved" THEN saving ELSE Nothing
<1> USE SettingsConstants
<1>1. CASE StartWithFile
  <2>1. Store!Load
    BY <1>1, SameDocuments
    DEF StartWithFile, Store!Load, SettingsInv, InForce, HeldBy, disk
  <2>2. QED
    BY <2>1 DEF Store!Next
<1>2. CASE StartWithoutFile
  BY <1>2 DEF StartWithoutFile, disk, running, Store!vars, HeldBy
<1>3. ASSUME NEW choice \in Choice, Click(choice) PROVE UNCHANGED Store!vars
  BY <1>3 DEF Click, disk, Store!vars, HeldBy
<1>4. ASSUME NEW choice \in Choice, Choose(choice) PROVE UNCHANGED Store!vars
  BY <1>4 DEF Choose, disk, Store!vars, HeldBy
<1>5. CASE CreateTemp
  BY <1>5 DEF CreateTemp, disk, running, Store!vars, HeldBy
<1>6. CASE WriteTemp
  BY <1>6 DEF WriteTemp, disk, running, Store!vars, HeldBy
<1>7. CASE SyncTemp
  BY <1>7 DEF SyncTemp, disk, running, Store!vars, HeldBy
<1>8. CASE Rename
  <2>1. saving \in Document /\ saving # Rejected
    BY <1>8 DEF Rename, SettingsInv, TypeOK, Saving
  <2>2. saving \in IF cfg = Nothing THEN {Default}
                  ELSE {With(cfg, choice) : choice \in Choice} \ {Rejected}
    BY <1>8, <2>1 DEF Rename, SettingsInv, Saving
  <2>3. temp # Nothing /\ temp.holds = encode(saving)
    BY <1>8 DEF Rename, SettingsInv, Written
  <2>4. accepted = Nothing /\ accepted' = saving
    BY <1>8 DEF Rename
  <2>5. HeldBy(path)' = encode(saving)
    BY <1>8, <2>3 DEF Rename, HeldBy
  <2>6. UNCHANGED <<HeldBy(behind), cfg>>
    BY <1>8 DEF Rename, running, HeldBy
  <2>7. Store!Save
    BY <2>2, <2>4, <2>5, <2>6, SameDocuments DEF Store!Save
  <2>8. QED
    BY <2>7 DEF Store!Next
<1>9. CASE SaveFails
  BY <1>9 DEF SaveFails, disk, running, Store!vars, HeldBy
<1>10. CASE Applied
  <2>1. saving # Nothing
    BY <1>10 DEF Applied, SettingsInv, Saving
  <2>2. Store!Apply
    BY <1>10, <2>1 DEF Applied, disk, Store!Apply, HeldBy
  <2>3. QED
    BY <2>2 DEF Store!Next
<1>11. CASE Refused
  BY <1>11 DEF Refused, disk, Store!vars, HeldBy
<1>12. ASSUME ProcessEnds, disk' = disk \/ (path' \in {path, behind} /\ behind' = path')
       PROVE  Store!Stop
  <2>1. /\ HeldBy(path)' \in {HeldBy(path), HeldBy(behind)}
        /\ HeldBy(behind)' \in {HeldBy(behind), HeldBy(path)'}
    BY <1>12 DEF disk, HeldBy
  <2>2. accepted' = Nothing /\ cfg' = Nothing
    BY <1>12 DEF ProcessEnds
  <2>3. QED
    BY <2>1, <2>2 DEF Store!Stop
<1>13. CASE Killed
  BY <1>12, <1>13 DEF Killed, Store!Next
<1>14. CASE PowerLoss
  <2>1. AfterLoss(path) = path /\ AfterLoss(behind) = behind
    BY DurableSurvives DEF SettingsInv
  <2>2. QED
    BY <1>12, <1>14, <2>1 DEF PowerLoss, Store!Next
<1>15. CASE Writeback
  <2>1. path \in File /\ path # Nothing
    BY <1>15 DEF Writeback, SettingsInv, TypeOK, Stays
  <2>2. path' # Nothing /\ path'.holds = path.holds /\ behind' = path'
    BY <1>15, <2>1 DEF Writeback, File, SettingsInv, Durable
  <2>3. HeldBy(path)' = HeldBy(path) /\ HeldBy(behind)' = HeldBy(path)
    BY <2>1, <2>2 DEF HeldBy
  <2>4. accepted' = accepted /\ cfg' = cfg
    BY <1>15 DEF Writeback, running
  <2>5. Store!Settle
    BY <2>3, <2>4 DEF Store!Settle
  <2>6. QED
    BY <2>5 DEF Store!Next
<1>16. ASSUME NEW holds \in Edits, HandEdit(holds) PROVE Store!Edit
  <2>1. path' = ByHand(holds) /\ behind' = path' /\ path' # Nothing
    BY <1>16, ByHandIsDurable DEF HandEdit
  <2>2. HeldBy(path)' = holds /\ HeldBy(behind)' = holds
    BY <2>1 DEF HeldBy, ByHand
  <2>3. accepted' = accepted /\ cfg' = cfg
    BY <1>16 DEF HandEdit, running
  <2>4. QED
    BY <2>2, <2>3, SameDocuments DEF Store!Edit
<1>17. CASE UNCHANGED vars
  BY <1>17 DEF vars, Store!vars, HeldBy
<1>18. QED
  BY <1>1, <1>2, <1>3, <1>4, <1>5, <1>6, <1>7, <1>8, <1>9, <1>10, <1>11, <1>13, <1>14,
     <1>15, <1>16, <1>17 DEF Next, Store!Next

\* The settings implement the store: the file goes from one whole document to another,
\* what comes into force was saved first, and a loss of power brings back nothing but
\* a document the file held (config.go:222, tray_windows.go:366).
THEOREM SettingsImplementStore == Spec => ImplementsStore
<1>1. QED
  BY InitStore, NextStore, SettingsInvariant, PTL DEF Spec, Store!Spec, ImplementsStore

===============================================================================
