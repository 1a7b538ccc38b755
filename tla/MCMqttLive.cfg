SPECIFICATION MFairSpec
CONSTANTS
    b1 = b1
    b2 = b2
    NoBlock = NoBlock
    Block <- const_Block
    NULL = NoBlock
    MQTT_SUB_TOPIC_NUM = 3
    MQTT_RECONNECT_TIMEOUT = 1
    KeepAlive = 1
    Hosts <- const_Address
    WifiDrops = FALSE
    Packets <- const_Mixed
    Long = {}
    MaxDown = 3
PROPERTIES
    SessionSpec
    Recovers
