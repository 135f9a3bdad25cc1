CONSTANTS
    English = English
    Portuguese = Portuguese
    Pinned = Pinned
    MinInterval = 5
    Ceiling = 6
    DefaultWarn = 3
    DefaultCritical = 5
    IntervalPresets = {5, 10}
    AlertPresets <- MCAlertPresets
    Languages = {English, Portuguese}
    DefaultLanguage = English
    NoPin = NoPin
    Pins = {NoPin, Pinned}
    Missing = Missing
    Rejected = Rejected
    Unparseable = Unparseable
    Nothing = Nothing
    Torn = Torn
    Smudged = Smudged
    Unheard = Unheard
    FirstFiles <- MCFirstFiles
    Edits <- MCFiles
    MaxEdits = 1
    MaxClicks = 2
    MaxStops = 2
SPECIFICATION Spec
PROPERTIES
    UnparseableKept
CHECK_DEADLOCK FALSE
