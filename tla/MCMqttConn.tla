------------------------------ MODULE MCMqttConn ------------------------------
(* MqttConn for TLC: two control blocks, Wi-Fi started over after the      *)
(* second failure and a keep-alive of one or two seconds.                  *)
EXTENDS MqttConn

CONSTANTS b1, b2, NoBlock

const_Block == {b1, b2}
const_Address == {"address"}
const_Name == {"name"}
const_Hosts == {"address", "name"}
const_QoS0 == {"PUBLISH", "PINGRESP"}
const_Mixed == {"PUBLISH1", "BANNER"}
const_Long == {"PUBLISH1", "BANNER"}
const_Acked == {"PUBLISH1", "PUBREC", "PINGREQ", "BANNER"}
===============================================================================
