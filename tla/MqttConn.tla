------------------------------- MODULE MqttConn -------------------------------
(***************************************************************************)
(* The MQTT client of user/mqtt.c as a connection state machine: two       *)
(* timers, one task behind a queue of length one, and the callbacks of the *)
(* TCP stack, all sharing the global connState and pCon.                   *)
(*                                                                         *)
(* The stack (espconn), the Wi-Fi station and the broker are external and  *)
(* modelled by what mqtt.c uses of them: a control block stays in use from *)
(* espconn_connect() to the callback that ends the connection, and every   *)
(* callback works on the global pCon whatever block it was called for.     *)
(***************************************************************************)
EXTENDS Integers, Sequences

CONSTANTS
    Block,                  \* control blocks the heap can hold
    NULL,                   \* pCon before the first connection
    MQTT_SUB_TOPIC_NUM,     \* topics to subscribe to, user_config.h:15
    MQTT_RECONNECT_TIMEOUT, \* failures before Wi-Fi is started over
    KeepAlive,              \* keepAlive, in seconds
    Hosts,                  \* what sysCfg.mqtt_host may be: "address", "name"
    WifiDrops,              \* whether an established Wi-Fi link may fail
    Packets,                \* what the broker may send by itself
    Long,                   \* those of them that may fill a segment beyond MQTT_BUF_SIZE
    MaxDown                 \* bound: packets under way from the broker

ASSUME TopicAssumption == MQTT_SUB_TOPIC_NUM \in Nat \ {0}
ASSUME CounterAssumption == MQTT_RECONNECT_TIMEOUT \in Nat /\ KeepAlive \in Nat /\ MaxDown \in Nat
ASSUME BlockAssumption == NULL \notin Block
ASSUME SwitchAssumption == Hosts \subseteq {"address", "name"} /\ WifiDrops \in BOOLEAN
ASSUME LongAssumption == Long \subseteq Packets

VARIABLES
    (* the program *)
    connState, topic_idx, reconnectCounter, keepAliveTick,
    outbound,       \* mqtt_state.outbound_message, or "none"
    pCon,           \* the global control block pointer
    mqtt_ip,        \* an address has been stored in mqtt_ip
    mqtt_host,      \* sysCfg.mqtt_host, set once by CFG_Load()
    (* the SDK *)
    posted,         \* the queue of the task holds an event
    timers,         \* WiFiLinker and mqttKeeper have been armed
    wifi,           \* status of the station: "IDLE", "GOT_IP" or "FAILED"
    cached,         \* the resolver knows the name of the host
    live,           \* blocks allocated and not freed
    con,            \* the connection of each block, and the broker's view of it
    (* history *)
    fault,          \* a block was used or freed that is not allocated
    forgot,         \* wifi_check_ip() has left a connection for a Wi-Fi error
    silent          \* keeper ticks in MQTT_DATA since a packet was sent

client == <<connState, topic_idx, reconnectCounter, keepAliveTick, outbound, pCon, mqtt_ip, mqtt_host>>
sdk == <<posted, timers, wifi, cached, live, con>>
station == <<wifi, forgot>>
mvars == <<client, sdk, fault, forgot, silent>>

Topic == 0 .. MQTT_SUB_TOPIC_NUM - 1

Closed == [tcp |-> "none", hooked |-> FALSE, greeted |-> FALSE,
           from |-> 0, subs |-> {}, down |-> <<>>]

(* The end of MQTT_Start(). *)
MInit == /\ connState = "WIFI_INIT" /\ topic_idx = 0 /\ reconnectCounter = 0
         /\ keepAliveTick = 0 /\ outbound = "none" /\ pCon = NULL /\ mqtt_ip = FALSE
         /\ mqtt_host \in Hosts
         /\ posted = TRUE /\ timers = FALSE /\ wifi = "IDLE" /\ cached = FALSE
         /\ live = {} /\ con = [c \in Block |-> Closed]
         /\ fault = FALSE /\ forgot = FALSE /\ silent = 0

(* Mutant: an event is lost. *)
Post_lossy == posted' \in {posted, TRUE}

(* system_os_post(): a full queue already holds the event that is needed. *)
Post == posted' = TRUE

(* States below WIFI_CONNECTED in tConnState. *)
BeforeWifi == {"WIFI_INIT", "WIFI_CONNECTING", "WIFI_CONNECTING_ERROR"}
ConnState == BeforeWifi \cup
    {"WIFI_CONNECTED", "DNS_RESOLVE", "TCP_RECONNECT_REQ", "TCP_CONNECTING",
     "MQTT_CONNECT_SEND", "MQTT_CONNECT_SENDING", "MQTT_SUBSCIBE_SEND",
     "MQTT_SUBSCIBE_SENDING", "MQTT_DATA"}

-------------------------------------------------------------------------------
(* The broker and the stack below a send. *)

(* The broker answers what it is asked; the client has no timer that waits *)
(* for its answers.                                                        *)
Arrives(c, packet) ==
    CASE packet = "CONNECT" -> [c EXCEPT !.greeted = TRUE, !.from = topic_idx,
                                         !.down = Append(@, "CONNACK")]
      [] packet = "SUBSCRIBE" -> [c EXCEPT !.subs = @ \cup {topic_idx},
                                           !.down = Append(@, "SUBACK")]
      [] OTHER -> c

(* espconn_sent(pCon, packet); an error it returns is ignored. *)
Send(packet) ==
    /\ con' = IF pCon \in live /\ con[pCon].tcp = "open"
              THEN [con EXCEPT ![pCon] = Arrives(@, packet)] ELSE con
    /\ fault' = (fault \/ pCon \notin live)
    /\ silent' = 0

(* The broker sends retained and live messages of subscribed topics, and   *)
(* answers to pings; something that is no broker greets first.             *)
BrokerSends(c, packet) ==
    /\ con[c].tcp = "open" /\ Len(con[c].down) < MaxDown
    /\ packet # "BANNER" => con[c].greeted
    /\ packet \notin {"BANNER", "PINGRESP"} => con[c].subs # {}
    /\ con' = [con EXCEPT ![c].down = Append(@, packet)]
    /\ UNCHANGED <<client, posted, timers, station, cached, live, fault, silent>>

(* The station finds or loses its access point. *)
WifiEvent ==
    /\ wifi' \in {"IDLE", "GOT_IP", "FAILED"} \ {wifi}
    /\ wifi = "GOT_IP" => WifiDrops
    /\ UNCHANGED <<client, posted, timers, forgot, cached, live, con, fault, silent>>

-------------------------------------------------------------------------------
(* MQTT_Task: one case of its switch per action. *)

Task(s) == posted /\ posted' = FALSE /\ connState = s

TaskInit ==
    /\ Task("WIFI_INIT")
    /\ timers' = TRUE
    /\ wifi' = "IDLE"
    /\ connState' = "WIFI_CONNECTING"
    /\ UNCHANGED <<topic_idx, reconnectCounter, keepAliveTick, outbound, pCon, mqtt_ip, mqtt_host,
                   forgot, cached, live, con, fault, silent>>

(* A new control block.  For a host name the resolver answers at once if   *)
(* it knows the name, and then does not call mqtt_dns_found().             *)
TaskConnect ==
    /\ Task("WIFI_CONNECTED")
    /\ \E c \in Block \ live :
          /\ pCon' = c
          /\ live' = live \cup {c}
          /\ con' = [con EXCEPT ![c] = [Closed EXCEPT !.tcp =
                        IF mqtt_host = "address" THEN "connecting" ELSE IF cached THEN "none" ELSE "resolving"]]
    /\ connState' = IF mqtt_host = "address" THEN "TCP_CONNECTING" ELSE "DNS_RESOLVE"
    /\ mqtt_ip' = (mqtt_ip \/ (mqtt_host = "name" /\ cached))
    /\ UNCHANGED <<topic_idx, reconnectCounter, keepAliveTick, outbound, mqtt_host,
                   timers, station, cached, fault, silent>>

TaskHello ==
    /\ Task("MQTT_CONNECT_SEND")
    /\ Send("CONNECT")
    /\ connState' = "MQTT_CONNECT_SENDING" /\ outbound' = "none"
    /\ UNCHANGED <<topic_idx, reconnectCounter, keepAliveTick, pCon, mqtt_ip, mqtt_host,
                   timers, station, cached, live>>

(* MQTT_Sub() *)
TaskSubscribe ==
    /\ Task("MQTT_SUBSCIBE_SEND")
    /\ Send("SUBSCRIBE")
    /\ connState' = "MQTT_SUBSCIBE_SENDING" /\ outbound' = "none"
    /\ UNCHANGED <<topic_idx, reconnectCounter, keepAliveTick, pCon, mqtt_ip, mqtt_host,
                   timers, station, cached, live>>

TaskData ==
    /\ Task("MQTT_DATA")
    /\ IF outbound = "none"
       THEN UNCHANGED <<con, fault, silent>>
       ELSE Send(outbound)
    /\ outbound' = "none"
    /\ UNCHANGED <<connState, topic_idx, reconnectCounter, keepAliveTick, pCon, mqtt_ip, mqtt_host,
                   timers, station, cached, live>>

TaskNothing ==
    /\ posted /\ posted' = FALSE
    /\ connState \notin {"WIFI_INIT", "WIFI_CONNECTED", "MQTT_CONNECT_SEND",
                         "MQTT_SUBSCIBE_SEND", "MQTT_DATA"}
    /\ UNCHANGED <<client, timers, station, cached, live, con, fault, silent>>

MQTT_Task == TaskInit \/ TaskConnect \/ TaskHello \/ TaskSubscribe \/ TaskData \/ TaskNothing

-------------------------------------------------------------------------------
(* Timers. *)

(* Mutant: connects again in every state. *)
Unconnected_any == ConnState
Unconnected == BeforeWifi \cup {"TCP_RECONNECT_REQ"}

(* wifi_check_ip(); its counter mqttConnectCouter has no effect. *)
wifi_check_ip ==
    /\ timers
    /\ \/ /\ wifi = "GOT_IP"
          /\ connState' = IF connState \in Unconnected
                          THEN "WIFI_CONNECTED" ELSE connState
          /\ UNCHANGED station
       \/ /\ wifi = "FAILED"
          /\ connState' = "WIFI_CONNECTING_ERROR"
          /\ wifi' = "IDLE"
          /\ forgot' = (forgot \/ live # {})
       \/ /\ wifi = "IDLE"
          /\ UNCHANGED <<connState, station>>
    /\ Post
    /\ UNCHANGED <<topic_idx, reconnectCounter, keepAliveTick, outbound, pCon, mqtt_ip, mqtt_host,
                   timers, cached, live, con, fault, silent>>

(* Mutant: compares before it counts. *)
Expired_late(tick) == tick > KeepAlive
Expired(tick) == tick + 1 > KeepAlive

(* mqtt_keepalive(), once a second: the task has run since the last time. *)
mqtt_keepalive ==
    /\ timers /\ ~posted
    /\ connState = "MQTT_DATA"
    /\ LET expired == Expired(keepAliveTick)
       IN  /\ keepAliveTick' = IF expired THEN 0 ELSE keepAliveTick + 1
           /\ outbound' = IF expired THEN "PINGREQ" ELSE outbound
    /\ silent' = IF silent <= KeepAlive + 1 THEN silent + 1 ELSE silent
    /\ Post
    /\ UNCHANGED <<connState, topic_idx, reconnectCounter, pCon, mqtt_ip, mqtt_host,
                   timers, station, cached, live, con, fault>>

(* MQTT_Pub(), called for each reading: one slot, and no event posted. *)
MQTT_Pub ==
    /\ connState = "MQTT_DATA"
    /\ outbound' = "PUBLISH"
    /\ UNCHANGED <<connState, topic_idx, reconnectCounter, keepAliveTick, pCon, mqtt_ip, mqtt_host,
                   sdk, fault, forgot, silent>>

-------------------------------------------------------------------------------
(* Callbacks of the stack for block c.  A block that was freed while the   *)
(* stack still uses it is a fault as well.                                 *)

mqtt_dns_found(c, found) ==
    /\ con[c].tcp = "resolving"
    /\ cached' = found
    /\ IF found /\ ~mqtt_ip
       THEN /\ con' = [con EXCEPT ![c].tcp = "none", ![pCon].tcp = "connecting"]
            /\ connState' = "TCP_CONNECTING"
            /\ fault' = (fault \/ pCon \notin live)
       ELSE /\ con' = [con EXCEPT ![c].tcp = "none"]
            /\ UNCHANGED <<connState, fault>>
    /\ IF found THEN Post ELSE UNCHANGED posted
    /\ UNCHANGED <<topic_idx, reconnectCounter, keepAliveTick, outbound, pCon, mqtt_ip, mqtt_host,
                   timers, station, live, silent>>

mqtt_tcpclient_connect_cb(c) ==
    /\ con[c].tcp = "connecting"
    /\ con' = [con EXCEPT ![c].tcp = "open", ![pCon].hooked = TRUE]
    /\ fault' = (fault \/ {c, pCon} \ live # {})
    /\ connState' = "MQTT_CONNECT_SEND"
    /\ Post
    /\ UNCHANGED <<topic_idx, reconnectCounter, keepAliveTick, outbound, pCon, mqtt_ip, mqtt_host,
                   timers, station, cached, live, silent>>

(* Mutant: a leak. *)
Without_leak(c) == live
Without(c) == live \ {c}

(* os_free(pCon), in the two callbacks that end connection c. *)
FreeCon(c) ==
    /\ con' = [con EXCEPT ![c].tcp = "none", ![c].down = <<>>]
    /\ live' = Without(pCon)
    /\ fault' = (fault \/ {c, pCon} \ live # {})
    /\ Post
    /\ UNCHANGED <<topic_idx, keepAliveTick, outbound, pCon, mqtt_ip, mqtt_host,
                   timers, station, cached, silent>>

(* The connection, or the attempt, fails. *)
mqtt_tcpclient_recon_cb(c) ==
    /\ con[c].tcp \in {"connecting", "open", "closing"}
    /\ FreeCon(c)
    /\ IF reconnectCounter + 1 > MQTT_RECONNECT_TIMEOUT
       THEN reconnectCounter' = 0 /\ connState' = "WIFI_INIT"
       ELSE reconnectCounter' = reconnectCounter + 1 /\ connState' = "TCP_RECONNECT_REQ"

(* The connection is closed by either side. *)
mqtt_tcpclient_discon_cb(c) ==
    /\ con[c].tcp \in {"open", "closing"} /\ con[c].hooked
    /\ FreeCon(c)
    /\ connState' = "WIFI_CONNECTED"
    /\ UNCHANGED reconnectCounter

(* Mutant: the last topic is tested for too late. *)
NextTopic_past == IF topic_idx + 1 > MQTT_SUB_TOPIC_NUM THEN 0 ELSE topic_idx + 1
NextTopic == IF topic_idx + 1 >= MQTT_SUB_TOPIC_NUM THEN 0 ELSE topic_idx + 1

(* Mutant: the test that is commented out, without its espconn_disconnect. *)
Subacked_tested(packet) == packet = "SUBACK"
Subacked(packet) == TRUE

(* Mutant: a packet that is no CONNACK is reported, and that is all. *)
AfterInvalid_reported == "open"
AfterInvalid == "closing"

Hears(c) == con[c].tcp \in {"open", "closing"} /\ con[c].hooked

(* mqtt_tcpclient_recv(): a segment may carry several packets, of which    *)
(* only the first is looked at.                                            *)
mqtt_tcpclient_recv(c) ==
    /\ Hears(c)
    /\ \E n \in 1 .. Len(con[c].down) :
          LET packet == con[c].down[1]
              rest == [con EXCEPT ![c].down = SubSeq(@, n + 1, Len(@))]
          IN  /\ connState' =
                    CASE connState = "MQTT_CONNECT_SENDING" /\ packet = "CONNACK" -> "MQTT_SUBSCIBE_SEND"
                      [] connState = "MQTT_SUBSCIBE_SENDING" /\ Subacked(packet) ->
                             IF NextTopic = 0 THEN "MQTT_DATA" ELSE "MQTT_SUBSCIBE_SEND"
                      [] OTHER -> connState
              /\ topic_idx' = IF connState = "MQTT_SUBSCIBE_SENDING" /\ Subacked(packet)
                              THEN NextTopic ELSE topic_idx
              /\ IF connState = "MQTT_CONNECT_SENDING" /\ packet # "CONNACK"
                 THEN con' = [rest EXCEPT ![pCon].tcp = AfterInvalid]
                 ELSE con' = rest
              /\ outbound' = CASE connState # "MQTT_DATA" -> outbound
                               [] packet = "PUBLISH1" -> "PUBACK"
                               [] packet = "PUBLISH2" -> "PUBREC"
                               [] packet = "PUBREC" -> "PUBREL"
                               [] packet = "PUBREL" -> "PUBCOMP"
                               [] packet = "PINGREQ" -> "PINGRESP"
                               [] OTHER -> outbound
    /\ fault' = (fault \/ c \notin live)
    /\ Post
    /\ silent' = IF connState' = "MQTT_DATA" /\ connState # "MQTT_DATA" THEN 0 ELSE silent
    /\ UNCHANGED <<reconnectCounter, keepAliveTick, pCon, mqtt_ip, mqtt_host, timers, station, cached, live>>

(* mqtt_tcpclient_recv() of MQTT_BUF_SIZE bytes or more: all packets of    *)
(* the segment are lost, and the task is posted nevertheless.              *)
mqtt_tcpclient_recv_long(c) ==
    /\ Hears(c)
    /\ \E n \in 1 .. Len(con[c].down) :
          /\ \E i \in 1 .. n : con[c].down[i] \in Long
          /\ con' = [con EXCEPT ![c].down = SubSeq(@, n + 1, Len(@))]
    /\ fault' = (fault \/ c \notin live)
    /\ Post
    /\ UNCHANGED <<client, timers, station, cached, live, silent>>

mqtt_tcpclient_sent_cb(c) ==
    /\ con[c].tcp = "open" /\ con[c].hooked /\ con[c].greeted
    /\ Post
    /\ UNCHANGED <<client, timers, station, cached, live, con, fault, silent>>

-------------------------------------------------------------------------------
Timers == wifi_check_ip \/ mqtt_keepalive
Establish(c) == mqtt_tcpclient_connect_cb(c) \/ \E found \in BOOLEAN : mqtt_dns_found(c, found)
Lose(c) == mqtt_tcpclient_recon_cb(c) \/ mqtt_tcpclient_discon_cb(c)
Receive(c) == mqtt_tcpclient_recv(c) \/ mqtt_tcpclient_recv_long(c)
Transfer(c) == Receive(c) \/ mqtt_tcpclient_sent_cb(c)

MNext == \/ MQTT_Task \/ Timers \/ MQTT_Pub \/ WifiEvent
         \/ \E c \in Block : \/ Establish(c) \/ Lose(c) \/ Transfer(c)
                              \/ \E p \in Packets : BrokerSends(c, p)

MSpec == MInit /\ [][MNext]_mvars

(* A connection attempt or a name query comes to an end, whichever, and so *)
(* does a connection that the client has asked the stack to close.         *)
Settle(c) ==
    \/ Establish(c)
    \/ con[c].tcp = "connecting" /\ mqtt_tcpclient_recon_cb(c)
    \/ con[c].tcp = "closing" /\ Lose(c)

(* Posted tasks run, armed timers expire and segments arrive.  Nothing     *)
(* makes a connection fail that is open, nor the access point come back.   *)
MFairSpec ==
    /\ MSpec
    /\ WF_mvars(MQTT_Task) /\ WF_mvars(wifi_check_ip) /\ WF_mvars(mqtt_keepalive)
    /\ \A c \in Block : WF_mvars(Receive(c)) /\ WF_mvars(Settle(c))

-------------------------------------------------------------------------------
(* Properties. *)

ServerPacket == Packets \cup {"CONNACK", "SUBACK"}
Connection == [tcp : {"none", "resolving", "connecting", "open", "closing"},
               hooked : BOOLEAN, greeted : BOOLEAN, from : Topic,
               subs : SUBSET Topic, down : Seq(ServerPacket)]

(* Types; the states of tConnState that are listed are those the code ever *)
(* assigns.                                                                *)
MTypeOK ==
    /\ connState \in ConnState /\ topic_idx \in Topic
    /\ reconnectCounter \in 0 .. MQTT_RECONNECT_TIMEOUT
    /\ keepAliveTick \in 0 .. KeepAlive /\ silent \in 0 .. KeepAlive + 2
    /\ outbound \in {"none", "PUBLISH", "PINGREQ", "PINGRESP", "PUBACK", "PUBREC", "PUBREL", "PUBCOMP"}
    /\ pCon \in Block \cup {NULL} /\ live \subseteq Block
    /\ {mqtt_ip, posted, timers, cached, fault, forgot} \subseteq BOOLEAN
    /\ mqtt_host \in Hosts
    /\ wifi \in {"IDLE", "GOT_IP", "FAILED"}
    /\ con \in [Block -> Connection]

(* No callback and no task uses or frees a control block that is not       *)
(* allocated, although all of them go through the one global pointer,      *)
(* unless Wi-Fi has failed under a connection: wifi_check_ip() forgets it  *)
(* while the stack still has it.                                           *)
NoStaleBlock == fault => forgot

(* Reconnecting does not leak: between two connections the old block has   *)
(* been freed, and the stack knows of no other block than pCon.            *)
OneBlock == \/ forgot
            \/ /\ live \subseteq {pCon}
               /\ \A c \in Block : con[c].tcp # "none" => c \in live

(* The queue of length one loses no work: whenever the state machine waits *)
(* for its task, the task is posted.                                       *)
TaskNotLost ==
    connState \in {"WIFI_INIT", "WIFI_CONNECTED", "MQTT_CONNECT_SEND", "MQTT_SUBSCIBE_SEND"} => posted

(* The client implements MqttSession: on each connection it greets once    *)
(* and first, subscribes from one topic to the last without a gap, and     *)
(* takes and sends messages after that, although any packet counts as the  *)
(* SUBACK, packets that share a segment are dropped and the states of the  *)
(* program outlive their connection.  (For a connection that the client    *)
(* has begun to close, whoever is at its other end, the session is over.)  *)
Session ==
    LET c == IF pCon = NULL THEN Closed ELSE con[pCon]
    IN  IF c.tcp = "open" THEN c ELSE Closed
Phase == CASE Session.tcp # "open" -> "none"
           [] Session.tcp = "open" /\ ~Session.greeted -> "open"
           [] OTHER -> IF connState = "MQTT_DATA" THEN "ready" ELSE "greeted"
S == INSTANCE MqttSession WITH Topics <- MQTT_SUB_TOPIC_NUM, phase <- Phase,
                               first <- Session.from, subscribed <- Session.subs
SessionSpec == S!SSpec
SessionSafety == S!SSafety

(* The broker is never left without a packet for longer than KeepAlive     *)
(* and one second, although publications overwrite a waiting ping.         *)
KeptAlive == silent <= KeepAlive + 1

(* The client gets to MQTT_DATA, after any number of failures, once the    *)
(* access point stays and connections are no longer lost, whatever the     *)
(* broker sends between its answers: a client that waits for ever on a     *)
(* connection that stays does not, nor one that stays without.             *)
Recovers == /\ <>[](wifi = "GOT_IP")
            /\ <>[][\A c \in Block : ~Lose(c)]_mvars
            => <>[](connState = "MQTT_DATA")

(* A host name is as good as an address, user_config.h:8: when the         *)
(* resolver knows the name, the client goes on to connect.                 *)
KnownNameConnects == connState = "DNS_RESOLVE" /\ cached ~> connState # "DNS_RESOLVE"

(* "1st topic to subscribe to", "2nd...", "3rd...", mqtt.c:587-589: in     *)
(* MQTT_DATA all of them have been subscribed to.                          *)
AllTopicsSubscribed == connState = "MQTT_DATA" => con[pCon].subs = Topic
===============================================================================
