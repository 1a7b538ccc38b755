SPECIFICATION BFairSpec
CONSTANTS
    PERIOD = 1
    DEADBAND = 0
    CONFIG_KP = 0
    CONFIG_KI = 1
    CONFIG_KD = 0
    CONFIG_TEMP = 16
    Word = 65536
    KPs <- const_Zero
    KIs <- const_One
    KDs <- const_Zero
    Setpoints <- const_TwoSetpoints
    Readings <- const_Readings
    Seconds <- const_Seconds
    BootTimes <- const_BootTimes
    s1 = s1
    none = none
    DS18B20_SCAN_CNT = 2
    MAX_SENSORS = 2
    Devices <- const_Devices
    Supported <- const_Supported
    Temps <- const_Temps
    PowerOn = 20
    NoReading = none
    Faults <- const_None
    Second = 2
    Jitter = 1
    Wrap = 9
    TempPayloads <- const_TwoPayloads
    KPPayloads <- const_Zero
PROPERTIES
    ControllerSpec
    NoDivideByZero
    DtMeasured
    WarmBeerCooled

