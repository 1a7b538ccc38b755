SPECIFICATION WFairSpec
CONSTANTS
    PERIOD = 6
    DEADBAND = 1
    CONFIG_KP = 1
    CONFIG_KI = 1
    CONFIG_KD = 1
    CONFIG_TEMP = 0
    Word = 16
    KPs <- const_KPs
    KIs <- const_KIs
    KDs <- const_KDs
    Setpoints <- const_Setpoints
    Readings <- const_Readings
    Seconds <- const_Seconds
    BootTimes <- const_BootTimes
INVARIANTS
    TypeOK
    Interlock
    DisplayTruth
    DutyExact
PROPERTIES
    FridgeSpec
    OutputServed
