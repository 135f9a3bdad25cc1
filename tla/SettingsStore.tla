---------------------------- MODULE SettingsStore ----------------------------
(***************************************************************************)
(* What config.Save and the settings menu promise together: a file that      *)
(* changes from one whole document to another, and settings that come into   *)
(* force only when they are in it. A loss of power may bring back a document *)
(* the file held before; it brings back nothing else.                       *)
(***************************************************************************)
EXTENDS SettingsDocument

CONSTANTS
    Nothing,        \* no file, or no settings in force
    Unparseable     \* what a hand may write and UnmarshalJSON rejects

VARIABLES
    stored,         \* what the file holds
    fallback,       \* what it may hold after a loss of power
    accepted,       \* the document saved last, until it is in force
    inForce         \* the settings the menu shows and the pollers run at

vars == <<stored, fallback, accepted, inForce>>

Init ==
    /\ stored \in Raw \cup {Nothing}
    /\ fallback = stored
    /\ accepted = Nothing
    /\ inForce = Nothing

\* A start finds settings it can use, and leaves the file as it is.
Load ==
    /\ inForce = Nothing
    /\ accepted = Nothing
    /\ stored \in Raw
    /\ Valid(decode(stored))
    /\ inForce' = decode(stored)
    /\ UNCHANGED <<stored, fallback, accepted>>

\* The file is replaced: by the defaults, or by what one choice made of the
\* settings in force.
Save ==
    /\ accepted = Nothing
    /\ accepted' \in IF inForce = Nothing THEN {Default}
                     ELSE {With(inForce, choice) : choice \in Choice} \ {Rejected}
    /\ stored' = encode(accepted')
    /\ UNCHANGED <<fallback, inForce>>

Apply ==
    /\ accepted # Nothing
    /\ inForce' = accepted
    /\ accepted' = Nothing
    /\ UNCHANGED <<stored, fallback>>

Settle ==
    /\ fallback' = stored
    /\ UNCHANGED <<stored, accepted, inForce>>

Edit ==
    /\ stored' \in Raw \cup {Unparseable}
    /\ fallback' = stored'
    /\ UNCHANGED <<accepted, inForce>>

Stop ==
    /\ stored' \in {stored, fallback}
    /\ fallback' \in {fallback, stored'}
    /\ accepted' = Nothing
    /\ inForce' = Nothing

Next == Load \/ Save \/ Apply \/ Settle \/ Edit \/ Stop

Spec == Init /\ [][Next]_vars

===============================================================================
