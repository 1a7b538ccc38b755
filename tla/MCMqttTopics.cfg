SPECIFICATION MSpec
CONSTANTS
    b1 = b1
    b2 = b2
    NoBlock = NoBlock
    Block <- const_Block
    NULL = NoBlock
    MQTT_SUB_TOPIC_NUM = 3
    MQTT_RECONNECT_TIMEOUT = 1
    KeepAlive = 2
    Hosts <- const_Address
    WifiDrops = FALSE
    Packets <- const_QoS0
    Long = {}
    MaxDown = 2
INVARIANTS
    AllTopicsSubscribed
