SPECIFICATION MSpec
CONSTANTS
    b1 = b1
    b2 = b2
    NoBlock = NoBlock
    Block <- const_Block
    NULL = NoBlock
    MQTT_SUB_TOPIC_NUM = 2
    MQTT_RECONNECT_TIMEOUT = 1
    KeepAlive = 2
    Hosts <- const_Hosts
    WifiDrops = TRUE
    Packets <- const_Acked
    Long <- const_Long
    MaxDown = 1
INVARIANTS
    MTypeOK
    NoStaleBlock
    OneBlock
    TaskNotLost
    KeptAlive
