------------------------------ MODULE MCSettings ------------------------------
(***************************************************************************)
(* Settings with three presets for the thresholds and two for the interval.  *)
(* The file at the first start is absent, off the presets, of the older       *)
(* shape or of both, with equal thresholds, or not a document; a hand may     *)
(* later bring back any of these.                                           *)
(***************************************************************************)
EXTENDS Settings

CONSTANTS English, Portuguese, Pinned

MCAlertPresets == {2, 4, 6}
MCFiles ==
    LET absent == encode(Default)
        older == [absent EXCEPT !.providers = Missing, !.credentialPath = Pinned,
                                !.usageAlerts = Missing, !.language = Missing]
    IN  { \* off the presets, below the lowest and above all but the highest
          encode([Default EXCEPT !.warn = 1, !.critical = 5]),
          \* the older shape, with one threshold of its own
          [older EXCEPT !.criticalAtPercent = 5],
          \* both shapes at once: one no document, the other one with either's thresholds
          [older EXCEPT !.usageAlerts = [warn |-> 5, critical |-> Missing],
                        !.criticalAtPercent = 2],
          [older EXCEPT !.usageAlerts = [warn |-> 1, critical |-> Missing],
                        !.criticalAtPercent = 2],
          \* a warning level that could not be reached
          encode([Default EXCEPT !.warn = 4, !.critical = 4]),
          Unparseable }
MCFirstFiles == MCFiles \ {Unparseable}

===============================================================================
