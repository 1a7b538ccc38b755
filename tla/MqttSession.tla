------------------------------ MODULE MqttSession ------------------------------
(***************************************************************************)
(* What the MQTT client promises a broker, free of timers, callbacks,      *)
(* control blocks and the states of the program.  Each connection begins   *)
(* with one CONNECT; then the topics are subscribed to one after the       *)
(* other, from some first one to the last, and none is passed over; only   *)
(* then are messages taken and sent.  A connection may be lost or left at  *)
(* any moment, but one that stays does not stand still on its way.         *)
(*                                                                         *)
(* MqttConn implements this specification while Wi-Fi does not fail under  *)
(* a connection (see MCMqttLive.cfg).                                      *)
(***************************************************************************)
EXTENDS Integers, FiniteSets

CONSTANT Topics     \* number of topics

VARIABLES
    phase,          \* of the connection: "none", "open", "greeted" or "ready"
    first,          \* topic that this session begins with
    subscribed      \* topics the broker has been asked for in this session

svars == <<phase, first, subscribed>>

SInit == phase = "none" /\ first = 0 /\ subscribed = {}

Open == /\ phase = "none"
        /\ phase' = "open"
        /\ UNCHANGED <<first, subscribed>>

Greet == /\ phase = "open"
         /\ phase' = "greeted"
         /\ first' \in 0 .. Topics - 1
         /\ UNCHANGED subscribed

NextTopic == first + Cardinality(subscribed)

Subscribe == /\ phase = "greeted"
             /\ NextTopic < Topics
             /\ subscribed' = subscribed \cup {NextTopic}
             /\ UNCHANGED <<phase, first>>

Ready == /\ phase = "greeted"
         /\ NextTopic = Topics
         /\ phase' = "ready"
         /\ UNCHANGED <<first, subscribed>>

Leave == /\ phase # "none"
         /\ phase' = "none" /\ first' = 0 /\ subscribed' = {}

SNext == Open \/ Greet \/ Subscribe \/ Ready \/ Leave

(* A connection becomes ready unless it is lost or left.                   *)
Progress == phase \in {"open", "greeted"} ~> phase \in {"ready", "none"}

SSafety == SInit /\ [][SNext]_svars
SSpec == SSafety /\ Progress
===============================================================================
