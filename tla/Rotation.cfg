SPECIFICATION Spec
CONSTANTS
    MaxClients = 3
    Lifetime = 2
    Wait = 3
    Hold = 1
INVARIANTS
    TokensStayServed
    SecretStaysUsable
    OldIsRetired
    SettingsSurvive
    ServedAsPermitted
CHECK_DEADLOCK FALSE
