SPECIFICATION FairSpec
CONSTANTS
    Bits = 4
    FamilyBits = 2
    Devices <- const_Devices
    Families <- const_Families
    MAX_SENSORS = 2
    MaxAttached = 3
    BitsPerByte = 3
    WireBytes <- const_WireBytes
    SEARCHROM <- const_SEARCHROM
    READ_SCRATCHPAD <- const_READ_SCRATCHPAD
    Retries = 125
    SampleTimes = {15, 60}
    HoldTimes = {15, 60}
    PresenceDelays = {15, 60}
    PresenceTimes = {60, 240}
    ResetTime = 480
    Late = 3
    RegisterBits = 8
    FrameBits = 72
    Burst = 8
    ByteWidth = 3
    OLED_ADDRESS <- const_OLED_ADDRESS
    Registers <- const_Registers
    Values <- const_Values
    COMMAND <- const_COMMAND
INVARIANTS
    ScanComplete
    OnlyThere
    SlotsUnderstood
    NoContention
    CrcTells
    WrittenAsSent
    BusReleased
PROPERTIES
    ScanEnds
