SPECIFICATION MFairSpec
CONSTANTS
    b1 = b1
    b2 = b2
    NoBlock = NoBlock
    Block <- const_Block
    NULL = NoBlock
    MQTT_SUB_TOPIC_NUM = 1
    MQTT_RECONNECT_TIMEOUT = 1
    KeepAlive = 2
    Hosts <- const_Name
    WifiDrops = FALSE
    Packets <- const_QoS0
    Long = {}
    MaxDown = 2
PROPERTIES
    KnownNameConnects
