CONSTANTS
    Nil = nil
    Half = 64
    Second = 2
    Minute = 4
    Hour = 8
    Day = 16
    MaxMoneyExponent = 1
    MaxRelativeReset = 40
    Epoch = 5
    DollarExponent = 1
    Languages = {"en", "pt"}
    Translated <- MCTranslated
    MaxTooltip = 11
    MaxField = 12
    Usage <- MCUsage
    Plans <- MCPlans
    Failures <- MCFailures
    RenewHint <- MCHint
    Accounts <- MCAccounts
    Preferences <- MCPreferences
    Settings <- MCSettings
    FirstSettings <- MCFirst
    Presets <- MCPresets
    Steps = {3, 17}
    MaxMeterRows = 3
    MaxEvents = 3
SPECIFICATION Spec
INVARIANT CaptionsAreLiteral
CHECK_DEADLOCK FALSE
