SPECIFICATION WatchSpec
CONSTANTS
    s1 = s1
    s2 = s2
    foreign = foreign
    none = none
    DS18B20_SCAN_CNT = 4
    MAX_SENSORS = 2
    Devices <- const_Devices
    Supported <- const_Supported
    Temps <- const_Temps
    PowerOn = 1360
    NoReading = none
    Faults <- const_Faults
INVARIANTS
    STypeOK
    LostSensorSilent
    SettledSensorRead
PROPERTIES
    Cadence
