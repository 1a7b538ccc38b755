SPECIFICATION FairSpec
CONSTANTS
    Radix = 4
    MQTT_BUF_SIZE = 18
    TextSize = 4
    Ids = 3
    Topics <- const_Topics
    Payloads <- const_Payloads
    Stale <- const_Stale
    none = none
    NULL = none
    r1 = r1
    r2 = r2
    Request <- const_Request
    MaxBuffer = 2
    MaxSegments = 3
    Alphabets <- const_Alphabets
    MaxTokens = 7
    Temps <- const_Temps
    KpLengths = {2, 4, 5, 6}
    TempLengths = {5, 9}
    Inputs = {0, 1, 2}
    Outputs = {0, 4}
    PidSetpoint = 1
    Tunings <- const_Tunings
    Limits <- const_Limits
    CreateLimits <- const_CreateLimits
    Elapses = {1, 2}
INVARIANTS
    LengthAgrees
    ReadAsSent
    HeapSound
    AnsweredOnce
    TextsConverted
    FieldsShown
    PidSound
    KnobFollowed
PROPERTIES
    IdFresh
    EveryRequestAnswered
    Bumpless
