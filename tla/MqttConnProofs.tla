---------------------------- MODULE MqttConnProofs ----------------------------
(***************************************************************************)
(* Theorems about MqttConn, for any number of control blocks, topics and   *)
(* failures, any keep-alive and any packets of the broker: no block is     *)
(* used after it was freed, none leaks, the task is always posted when it  *)
(* has work, the broker is kept informed, and each connection carries a    *)
(* session of MqttSession.                                                 *)
(***************************************************************************)
EXTENDS MqttConn, SequenceTheorems, FiniteSetTheorems, TLAPS

Tcp == {"none", "resolving", "connecting", "open", "closing"}
Blocks == [Block -> Connection]

-------------------------------------------------------------------------------
(* Types. *)

(* A field at a time, a connection stays one. *)
LEMMA ConnectionField ==
    ASSUME NEW c \in Connection
    PROVE  /\ \A x \in Tcp : [c EXCEPT !.tcp = x] \in Connection
           /\ \A x \in BOOLEAN : [c EXCEPT !.hooked = x] \in Connection
           /\ \A x \in BOOLEAN : [c EXCEPT !.greeted = x] \in Connection
           /\ \A x \in Topic : [c EXCEPT !.from = x] \in Connection
           /\ \A x \in SUBSET Topic : [c EXCEPT !.subs = x] \in Connection
           /\ \A x \in Seq(ServerPacket) : [c EXCEPT !.down = x] \in Connection
<1>1. \A x \in Tcp : [c EXCEPT !.tcp = x] \in Connection
  BY DEF Connection, Tcp
<1>2. \A x \in BOOLEAN : [c EXCEPT !.hooked = x] \in Connection
  BY DEF Connection
<1>3. \A x \in BOOLEAN : [c EXCEPT !.greeted = x] \in Connection
  BY DEF Connection
<1>4. \A x \in Topic : [c EXCEPT !.from = x] \in Connection
  BY DEF Connection
<1>5. \A x \in SUBSET Topic : [c EXCEPT !.subs = x] \in Connection
  BY DEF Connection
<1>6. \A x \in Seq(ServerPacket) : [c EXCEPT !.down = x] \in Connection
  BY DEF Connection
<1> QED BY <1>1, <1>2, <1>3, <1>4, <1>5, <1>6

(* pCon may be NULL, and then nothing changes. *)
LEMMA BlockField ==
    ASSUME NEW f \in Blocks, NEW c, NEW x, c \in Block => x \in Connection
    PROVE  [f EXCEPT ![c] = x] \in Blocks
BY DEF Blocks

LEMMA ClosedType == Closed \in Connection
<1>1. 0 \in Topic
  BY TopicAssumption DEF Topic
<1>2. <<>> \in Seq(ServerPacket)
  OBVIOUS
<1> QED BY <1>1, <1>2 DEF Closed, Connection

(* What reaches the broker keeps the connection well-formed. *)
LEMMA ArrivesType ==
    ASSUME NEW c \in Connection, NEW packet, topic_idx \in Topic
    PROVE  Arrives(c, packet) \in Connection
<1>1. CASE packet = "CONNECT"
  <2> DEFINE d == Append(c.down, "CONNACK")
             c1 == [c EXCEPT !.greeted = TRUE]
             c2 == [c1 EXCEPT !.from = topic_idx]
  <2>1. d \in Seq(ServerPacket)
    BY DEF Connection, ServerPacket
  <2>2. c1 \in Connection
    BY ConnectionField
  <2>3. c2 \in Connection
    <3> HIDE DEF c1
    <3> QED BY <2>2, ConnectionField
  <2>4. Arrives(c, packet) = [c2 EXCEPT !.down = d]
    BY <1>1 DEF Arrives, Connection
  <2> HIDE DEF c2, d
  <2> QED BY <2>1, <2>3, <2>4, ConnectionField
<1>2. CASE packet = "SUBSCRIBE"
  <2> DEFINE d == Append(c.down, "SUBACK")
             s == c.subs \cup {topic_idx}
             c1 == [c EXCEPT !.subs = s]
  <2>1. d \in Seq(ServerPacket) /\ s \in SUBSET Topic
    BY DEF Connection, ServerPacket
  <2>2. c1 \in Connection
    <3> HIDE DEF s
    <3> QED BY <2>1, ConnectionField
  <2>4. Arrives(c, packet) = [c1 EXCEPT !.down = d]
    BY <1>2 DEF Arrives, Connection
  <2> HIDE DEF c1, d
  <2> QED BY <2>1, <2>2, <2>4, ConnectionField
<1>3. CASE packet \notin {"CONNECT", "SUBSCRIBE"}
  BY <1>3 DEF Arrives
<1> QED BY <1>1, <1>2, <1>3

LEMMA SendType ==
    ASSUME MTypeOK, NEW packet, Send(packet)
    PROVE  con' \in Blocks /\ fault' \in BOOLEAN /\ silent' = 0
<1>1. CASE pCon \in live /\ con[pCon].tcp = "open"
  <2>1. con' = [con EXCEPT ![pCon] = Arrives(con[pCon], packet)]
    BY <1>1 DEF Send
  <2>2. con \in Blocks /\ topic_idx \in Topic /\ (pCon \in Block => con[pCon] \in Connection)
    BY DEF MTypeOK, Blocks
  <2>3. pCon \in Block => Arrives(con[pCon], packet) \in Connection
    BY <2>2, ArrivesType
  <2>4. con' \in Blocks
    BY <2>1, <2>2, <2>3, BlockField
  <2> QED BY <2>4 DEF Send, MTypeOK
<1>2. CASE ~(pCon \in live /\ con[pCon].tcp = "open")
  BY <1>2 DEF Send, MTypeOK, Blocks
<1> QED BY <1>1, <1>2

(* The callbacks set fields of up to two blocks. *)
LEMMA TcpSet ==
    ASSUME NEW f \in Blocks, NEW c, NEW x \in Tcp
    PROVE  [f EXCEPT ![c].tcp = x] \in Blocks
<1>1. [f EXCEPT ![c].tcp = x] = [f EXCEPT ![c] = [f[c] EXCEPT !.tcp = x]]
  OBVIOUS
<1>2. c \in Block => f[c] \in Connection
  BY DEF Blocks
<1>3. c \in Block => [f[c] EXCEPT !.tcp = x] \in Connection
  BY <1>2, ConnectionField
<1> QED BY <1>1, <1>3, BlockField

LEMMA DownSet ==
    ASSUME NEW f \in Blocks, NEW c, NEW x, c \in Block => x \in Seq(ServerPacket)
    PROVE  [f EXCEPT ![c].down = x] \in Blocks
<1>1. [f EXCEPT ![c].down = x] = [f EXCEPT ![c] = [f[c] EXCEPT !.down = x]]
  OBVIOUS
<1>2. c \in Block => f[c] \in Connection
  BY DEF Blocks
<1>3. c \in Block => [f[c] EXCEPT !.down = x] \in Connection
  BY <1>2, ConnectionField
<1> QED BY <1>1, <1>3, BlockField

LEMMA HookedSet ==
    ASSUME NEW f \in Blocks, NEW c
    PROVE  [f EXCEPT ![c].hooked = TRUE] \in Blocks
<1>1. [f EXCEPT ![c].hooked = TRUE] = [f EXCEPT ![c] = [f[c] EXCEPT !.hooked = TRUE]]
  OBVIOUS
<1>2. c \in Block => f[c] \in Connection
  BY DEF Blocks
<1>3. c \in Block => [f[c] EXCEPT !.hooked = TRUE] \in Connection
  BY <1>2, ConnectionField
<1> QED BY <1>1, <1>3, BlockField

(* The types of everything but con. *)
Flags == /\ mqtt_ip \in BOOLEAN /\ posted \in BOOLEAN /\ timers \in BOOLEAN
         /\ cached \in BOOLEAN /\ fault \in BOOLEAN /\ forgot \in BOOLEAN
Scalars ==
    /\ Flags
    /\ connState \in ConnState /\ topic_idx \in Topic
    /\ reconnectCounter \in 0 .. MQTT_RECONNECT_TIMEOUT
    /\ keepAliveTick \in 0 .. KeepAlive /\ silent \in 0 .. KeepAlive + 2
    /\ outbound \in {"none", "PUBLISH", "PINGREQ", "PINGRESP", "PUBACK", "PUBREC", "PUBREL", "PUBCOMP"}
    /\ pCon \in Block \cup {NULL} /\ live \subseteq Block
    /\ mqtt_host \in Hosts
    /\ wifi \in {"IDLE", "GOT_IP", "FAILED"}

LEMMA TypeParts == MTypeOK <=> Scalars /\ con \in Blocks
BY DEF MTypeOK, Scalars, Flags, Blocks

LEMMA TypePartsNext == MTypeOK' <=> Scalars' /\ con' \in Blocks
BY DEF MTypeOK, Scalars, Flags, Blocks

LEMMA MTypeInit == MInit => MTypeOK
<1> SUFFICES ASSUME MInit PROVE MTypeOK
  OBVIOUS
<1>3. Flags
  BY DEF MInit, Flags
<1>1. Scalars
  BY <1>3, TopicAssumption, CounterAssumption DEF MInit, Scalars, ConnState, BeforeWifi, Topic
<1>2. con \in Blocks
  BY ClosedType DEF MInit, Blocks
<1> QED BY <1>1, <1>2, TypeParts

LEMMA TaskType == MTypeOK /\ MQTT_Task => MTypeOK'
<1> SUFFICES ASSUME MTypeOK, MQTT_Task PROVE MTypeOK'
  OBVIOUS
<1>0. Scalars /\ con \in Blocks
  BY TypeParts
<1> USE CounterAssumption
<1>1. CASE TaskInit
  <2>3. Flags'
    BY <1>0, <1>1 DEF TaskInit, Task, Scalars, Flags
  <2>1. Scalars'
    BY <1>0, <1>1, <2>3 DEF TaskInit, Scalars, ConnState, BeforeWifi
  <2>2. con' \in Blocks
    BY <1>0, <1>1 DEF TaskInit
  <2> QED BY <2>1, <2>2, TypePartsNext
<1>2. CASE TaskConnect
  <2>1. PICK c \in Block \ live :
          /\ pCon' = c
          /\ live' = live \cup {c}
          /\ con' = [con EXCEPT ![c] = [Closed EXCEPT !.tcp =
                        IF mqtt_host = "address" THEN "connecting" ELSE IF cached THEN "none" ELSE "resolving"]]
    BY <1>2 DEF TaskConnect
  <2>2. con' \in Blocks
    <3> DEFINE x == IF mqtt_host = "address" THEN "connecting" ELSE IF cached THEN "none" ELSE "resolving"
    <3>1. x \in Tcp
      BY DEF Tcp
    <3>2. con' = [con EXCEPT ![c] = [Closed EXCEPT !.tcp = x]]
      BY <2>1
    <3> HIDE DEF x
    <3>3. [Closed EXCEPT !.tcp = x] \in Connection
      BY <3>1, ClosedType, ConnectionField
    <3> QED BY <1>0, <3>2, <3>3, BlockField
  <2>3. Scalars'
    BY <1>0, <1>2, <2>1 DEF TaskConnect, Task, station, Scalars, Flags, ConnState, BeforeWifi
  <2> QED BY <2>2, <2>3, TypePartsNext
<1>3. CASE TaskHello
  <2>1. con' \in Blocks /\ fault' \in BOOLEAN /\ silent' = 0
    BY <1>3, SendType DEF TaskHello
  <2>3. Flags'
    BY <1>0, <1>3, <2>1 DEF TaskHello, Task, station, Scalars, Flags
  <2>2. Scalars'
    BY <1>0, <1>3, <2>1, <2>3 DEF TaskHello, station, Scalars, Flags, ConnState
  <2> QED BY <2>1, <2>2, TypePartsNext
<1>4. CASE TaskSubscribe
  <2>1. con' \in Blocks /\ fault' \in BOOLEAN /\ silent' = 0
    BY <1>4, SendType DEF TaskSubscribe
  <2>3. Flags'
    BY <1>0, <1>4, <2>1 DEF TaskSubscribe, Task, station, Scalars, Flags
  <2>2. Scalars'
    BY <1>0, <1>4, <2>1, <2>3 DEF TaskSubscribe, station, Scalars, Flags, ConnState
  <2> QED BY <2>1, <2>2, TypePartsNext
<1>5. CASE TaskData
  <2>1. con' \in Blocks /\ fault' \in BOOLEAN /\ silent' \in {0, silent}
    <3>1. CASE outbound = "none"
      BY <1>0, <1>5, <3>1 DEF TaskData, Scalars, Flags
    <3>2. CASE outbound # "none"
      BY <1>5, <3>2, SendType DEF TaskData
    <3> QED BY <3>1, <3>2
  <2>2. 0 \in 0 .. KeepAlive + 2
    OBVIOUS
  <2> QED BY <1>0, <1>5, <2>1, <2>2, TypePartsNext DEF TaskData, Task, station, Scalars, Flags
<1>6. CASE TaskNothing
  BY <1>0, <1>6, TypePartsNext DEF TaskNothing, client, station, Scalars, Flags
<1> QED BY <1>1, <1>2, <1>3, <1>4, <1>5, <1>6 DEF MQTT_Task

LEMMA TimerType == MTypeOK /\ (Timers \/ MQTT_Pub) => MTypeOK'
<1> SUFFICES ASSUME MTypeOK, Timers \/ MQTT_Pub PROVE MTypeOK'
  OBVIOUS
<1>0. Scalars /\ con \in Blocks
  BY TypeParts
<1> USE CounterAssumption
<1>1. CASE wifi_check_ip
  BY <1>0, <1>1, TypePartsNext DEF wifi_check_ip, Post, station, Scalars, Flags, ConnState, BeforeWifi
<1>2. CASE mqtt_keepalive
  BY <1>0, <1>2, TypePartsNext DEF mqtt_keepalive, Post, Expired, station, Scalars, Flags
<1>3. CASE MQTT_Pub
  BY <1>0, <1>3, TypePartsNext DEF MQTT_Pub, sdk, station, Scalars, Flags
<1> QED BY <1>1, <1>2, <1>3 DEF Timers

LEMMA StackType ==
    ASSUME MTypeOK, NEW c \in Block, Establish(c) \/ Lose(c) PROVE MTypeOK'
<1>0. Scalars /\ con \in Blocks
  BY TypeParts
<1> USE CounterAssumption
<1>1. ASSUME NEW found \in BOOLEAN, mqtt_dns_found(c, found) PROVE MTypeOK'
  <2>1. con' \in Blocks
    <3> DEFINE f == [con EXCEPT ![c].tcp = "none"]
    <3>1. f \in Blocks
      BY <1>0, TcpSet DEF Tcp
    <3>2. [f EXCEPT ![pCon].tcp = "connecting"] \in Blocks
      <4> HIDE DEF f
      <4> QED BY <3>1, TcpSet DEF Tcp
    <3>3. con' \in {f, [f EXCEPT ![pCon].tcp = "connecting"]}
      BY <1>1 DEF mqtt_dns_found
    <3> HIDE DEF f
    <3> QED BY <3>1, <3>2, <3>3
  <2>2. Flags'
    BY <1>0, <1>1 DEF mqtt_dns_found, Post, station, Scalars, Flags
  <2>3. Scalars'
    BY <1>0, <1>1, <2>2 DEF mqtt_dns_found, station, Scalars, ConnState
  <2> QED BY <2>1, <2>3, TypePartsNext
<1>2. CASE mqtt_tcpclient_connect_cb(c)
  <2>1. con' \in Blocks
    <3> DEFINE f == [con EXCEPT ![c].tcp = "open"]
    <3>1. f \in Blocks
      BY <1>0, TcpSet DEF Tcp
    <3>2. con' = [f EXCEPT ![pCon].hooked = TRUE]
      BY <1>2 DEF mqtt_tcpclient_connect_cb
    <3> HIDE DEF f
    <3> QED BY <3>1, <3>2, HookedSet
  <2>2. Flags'
    BY <1>0, <1>2 DEF mqtt_tcpclient_connect_cb, Post, station, Scalars, Flags
  <2>3. Scalars'
    BY <1>0, <1>2, <2>2 DEF mqtt_tcpclient_connect_cb, station, Scalars, ConnState
  <2> QED BY <2>1, <2>3, TypePartsNext
<1>3. ASSUME FreeCon(c) PROVE con' \in Blocks /\ Flags' /\ live' \subseteq Block
  <2> DEFINE f == [con EXCEPT ![c].tcp = "none"]
  <2>1. f \in Blocks
    BY <1>0, TcpSet DEF Tcp
  <2>2. con' = [f EXCEPT ![c].down = <<>>]
    BY <1>3 DEF FreeCon
  <2>3. con' \in Blocks
    <3> HIDE DEF f
    <3>1. <<>> \in Seq(ServerPacket)
      OBVIOUS
    <3> QED BY <2>1, <2>2, <3>1, DownSet
  <2> QED BY <1>0, <1>3, <2>3 DEF FreeCon, Without, Post, station, Scalars, Flags
<1>4. CASE mqtt_tcpclient_recon_cb(c)
  <2>1. Scalars'
    BY <1>0, <1>3, <1>4 DEF mqtt_tcpclient_recon_cb, FreeCon, station, Scalars, ConnState, BeforeWifi
  <2> QED BY <1>3, <1>4, <2>1, TypePartsNext DEF mqtt_tcpclient_recon_cb
<1>5. CASE mqtt_tcpclient_discon_cb(c)
  <2>1. Scalars'
    BY <1>0, <1>3, <1>5 DEF mqtt_tcpclient_discon_cb, FreeCon, station, Scalars, ConnState
  <2> QED BY <1>3, <1>5, <2>1, TypePartsNext DEF mqtt_tcpclient_discon_cb
<1> QED BY <1>1, <1>2, <1>4, <1>5 DEF Establish, Lose

LEMMA NextTopicType == topic_idx \in Topic => NextTopic \in Topic
BY TopicAssumption DEF NextTopic, Topic

LEMMA TransferType ==
    ASSUME MTypeOK, NEW c \in Block, Transfer(c) PROVE MTypeOK'
<1>0. Scalars /\ con \in Blocks
  BY TypeParts
<1> USE CounterAssumption
<1>1. CASE mqtt_tcpclient_sent_cb(c)
  BY <1>0, <1>1, TypePartsNext DEF mqtt_tcpclient_sent_cb, Post, client, station, Scalars, Flags
<1>2. CASE mqtt_tcpclient_recv(c)
  <2>1. con' \in Blocks
    <3>1. PICK n \in 1 .. Len(con[c].down) :
              LET rest == [con EXCEPT ![c].down = SubSeq(con[c].down, n + 1, Len(con[c].down))]
              IN  con' \in {rest, [rest EXCEPT ![pCon].tcp = "closing"]}
      BY <1>2 DEF mqtt_tcpclient_recv, AfterInvalid
    <3> DEFINE tail == SubSeq(con[c].down, n + 1, Len(con[c].down))
               rest == [con EXCEPT ![c].down = tail]
    <3>2. con[c].down \in Seq(ServerPacket)
      BY <1>0 DEF Blocks, Connection
    <3>3. tail \in Seq(ServerPacket)
      BY <3>2, SubSeqProperties
    <3> HIDE DEF tail
    <3>4. rest \in Blocks
      BY <1>0, <3>3, DownSet
    <3>5. con' \in {rest, [rest EXCEPT ![pCon].tcp = "closing"]}
      BY <3>1 DEF tail
    <3> HIDE DEF rest
    <3>6. [rest EXCEPT ![pCon].tcp = "closing"] \in Blocks
      BY <3>4, TcpSet DEF Tcp
    <3> QED BY <3>4, <3>5, <3>6
  <2>2. Flags'
    BY <1>0, <1>2 DEF mqtt_tcpclient_recv, Post, station, Scalars, Flags
  <2>3. connState' \in ConnState /\ topic_idx' \in Topic /\ silent' \in {0, silent}
    BY <1>0, <1>2, NextTopicType DEF mqtt_tcpclient_recv, Scalars, ConnState
  <2>4. outbound' \in {outbound, "PUBACK", "PUBREC", "PUBREL", "PUBCOMP", "PINGRESP"}
    BY <1>2 DEF mqtt_tcpclient_recv
  <2>5. 0 \in 0 .. KeepAlive + 2
    OBVIOUS
  <2>6. Scalars'
    BY <1>0, <1>2, <2>2, <2>3, <2>4, <2>5 DEF mqtt_tcpclient_recv, station, Scalars
  <2> QED BY <2>1, <2>6, TypePartsNext
<1>3. CASE mqtt_tcpclient_recv_long(c)
  <2>1. PICK n \in 1 .. Len(con[c].down) : con' = [con EXCEPT ![c].down = SubSeq(@, n + 1, Len(@))]
    BY <1>3 DEF mqtt_tcpclient_recv_long
  <2>2. con[c].down \in Seq(ServerPacket)
    BY <1>0 DEF Blocks, Connection
  <2>3. SubSeq(con[c].down, n + 1, Len(con[c].down)) \in Seq(ServerPacket)
    BY <2>2, SubSeqProperties
  <2>4. con' \in Blocks
    BY <1>0, <2>1, <2>3, DownSet
  <2>5. Scalars'
    BY <1>0, <1>3 DEF mqtt_tcpclient_recv_long, Post, client, station, Scalars, Flags
  <2> QED BY <2>4, <2>5, TypePartsNext
<1> QED BY <1>1, <1>2, <1>3 DEF Transfer, Receive

LEMMA EnvironmentType ==
    MTypeOK /\ (WifiEvent \/ \E c \in Block, p \in Packets : BrokerSends(c, p)) => MTypeOK'
<1> SUFFICES ASSUME MTypeOK, WifiEvent \/ \E c \in Block, p \in Packets : BrokerSends(c, p) PROVE MTypeOK'
  OBVIOUS
<1>0. Scalars /\ con \in Blocks
  BY TypeParts
<1>1. CASE WifiEvent
  BY <1>0, <1>1, TypePartsNext DEF WifiEvent, client, Scalars, Flags
<1>2. ASSUME NEW c \in Block, NEW p \in Packets, BrokerSends(c, p) PROVE MTypeOK'
  <2>1. con' = [con EXCEPT ![c].down = Append(con[c].down, p)]
    BY <1>2 DEF BrokerSends
  <2>2. Append(con[c].down, p) \in Seq(ServerPacket)
    BY <1>0 DEF Blocks, Connection, ServerPacket
  <2>3. con' \in Blocks
    BY <1>0, <2>1, <2>2, DownSet
  <2> QED BY <1>0, <1>2, <2>3, TypePartsNext DEF BrokerSends, client, station, Scalars, Flags
<1> QED BY <1>1, <1>2

LEMMA MTypeStep == MTypeOK /\ [MNext]_mvars => MTypeOK'
<1> SUFFICES ASSUME MTypeOK, [MNext]_mvars PROVE MTypeOK'
  OBVIOUS
<1>1. CASE UNCHANGED mvars
  BY <1>1 DEF mvars, client, sdk, MTypeOK
<1> QED BY <1>1, TaskType, TimerType, StackType, TransferType, EnvironmentType DEF MNext

(* The client keeps its types; the pointer and the counters in particular.*)
THEOREM MTypeCorrect == MSpec => []MTypeOK
BY MTypeInit, MTypeStep, PTL DEF MSpec

-------------------------------------------------------------------------------
(* The queue of the task. *)

(* An event is taken only in a state that is left at once or that waits    *)
(* for nothing, and whoever enters one of the waiting states posts.        *)
THEOREM TaskKept == MSpec => []TaskNotLost
<1>1. MInit => TaskNotLost
  BY DEF MInit, TaskNotLost
<1>2. TaskNotLost /\ [MNext]_mvars => TaskNotLost'
  <2> SUFFICES ASSUME TaskNotLost, [MNext]_mvars PROVE TaskNotLost'
    OBVIOUS
  <2> USE DEF TaskNotLost
  <2>1. CASE MQTT_Task
    BY <2>1 DEF MQTT_Task, TaskInit, TaskConnect, TaskHello, TaskSubscribe, TaskData, TaskNothing, Task, client
  <2>2. CASE Timers
    BY <2>2 DEF Timers, wifi_check_ip, mqtt_keepalive, Post
  <2>3. CASE MQTT_Pub
    BY <2>3 DEF MQTT_Pub, sdk
  <2>4. CASE WifiEvent
    BY <2>4 DEF WifiEvent, client
  <2>5. ASSUME NEW c \in Block, Establish(c) PROVE TaskNotLost'
    BY <2>5 DEF Establish, mqtt_tcpclient_connect_cb, mqtt_dns_found, Post
  <2>6. ASSUME NEW c \in Block, Lose(c) PROVE TaskNotLost'
    BY <2>6 DEF Lose, mqtt_tcpclient_recon_cb, mqtt_tcpclient_discon_cb, FreeCon, Post
  <2>7. ASSUME NEW c \in Block, Transfer(c) PROVE TaskNotLost'
    BY <2>7 DEF Transfer, Receive, mqtt_tcpclient_recv, mqtt_tcpclient_recv_long, mqtt_tcpclient_sent_cb, Post
  <2>8. ASSUME NEW c \in Block, NEW p \in Packets, BrokerSends(c, p) PROVE TaskNotLost'
    BY <2>8 DEF BrokerSends, client
  <2>9. CASE UNCHANGED mvars
    BY <2>9 DEF mvars, client, sdk
  <2> QED BY <2>1, <2>2, <2>3, <2>4, <2>5, <2>6, <2>7, <2>8, <2>9 DEF MNext
<1> QED BY <1>1, <1>2, PTL DEF MSpec

-------------------------------------------------------------------------------
(* The keep-alive. *)

(* With nothing left to send the silence has lasted no longer than the     *)
(* tick has counted; a ping that is due finds the task posted.             *)
PingInv ==
    /\ KeptAlive
    /\ connState = "MQTT_DATA" /\ (outbound = "none" \/ ~posted) => silent <= keepAliveTick

LEMMA PingStep == MTypeOK /\ PingInv /\ [MNext]_mvars => PingInv'
<1> SUFFICES ASSUME MTypeOK, PingInv, [MNext]_mvars PROVE PingInv'
  OBVIOUS
<1>0. /\ keepAliveTick \in 0 .. KeepAlive /\ silent \in 0 .. KeepAlive + 2
      /\ silent <= KeepAlive + 1
      /\ connState = "MQTT_DATA" /\ (outbound = "none" \/ ~posted) => silent <= keepAliveTick
  BY DEF MTypeOK, PingInv, KeptAlive
<1> USE CounterAssumption DEF PingInv, KeptAlive
<1>1. CASE MQTT_Task
  <2>1. CASE TaskHello \/ TaskSubscribe
    BY <1>0, <2>1 DEF TaskHello, TaskSubscribe, Send
  <2>2. CASE TaskData
    <3>1. CASE outbound = "none"
      BY <1>0, <2>2, <3>1 DEF TaskData, Task
    <3>2. CASE outbound # "none"
      BY <1>0, <2>2, <3>2 DEF TaskData, Send
    <3> QED BY <3>1, <3>2
  <2>3. CASE TaskInit \/ TaskConnect \/ TaskNothing
    BY <1>0, <2>3 DEF TaskInit, TaskConnect, TaskNothing, Task, client
  <2> QED BY <1>1, <2>1, <2>2, <2>3 DEF MQTT_Task
<1>2. CASE wifi_check_ip
  BY <1>0, <1>2 DEF wifi_check_ip, Post, Unconnected, BeforeWifi
<1>3. CASE mqtt_keepalive
  <2>1. silent <= keepAliveTick /\ silent' = silent + 1
    BY <1>0, <1>3 DEF mqtt_keepalive
  <2>2. CASE Expired(keepAliveTick)
    BY <1>0, <1>3, <2>1, <2>2 DEF mqtt_keepalive, Post
  <2>3. CASE ~Expired(keepAliveTick)
    BY <1>0, <1>3, <2>1, <2>3 DEF mqtt_keepalive, Expired
  <2> QED BY <2>2, <2>3
<1>4. CASE MQTT_Pub
  BY <1>0, <1>4 DEF MQTT_Pub, sdk
<1>5. CASE WifiEvent
  BY <1>0, <1>5 DEF WifiEvent, client
<1>6. ASSUME NEW c \in Block, Establish(c) PROVE PingInv'
  BY <1>0, <1>6 DEF Establish, mqtt_tcpclient_connect_cb, mqtt_dns_found, Post
<1>7. ASSUME NEW c \in Block, Lose(c) PROVE PingInv'
  BY <1>0, <1>7 DEF Lose, mqtt_tcpclient_recon_cb, mqtt_tcpclient_discon_cb, FreeCon, Post
<1>8. ASSUME NEW c \in Block, mqtt_tcpclient_recv(c) PROVE PingInv'
  <2>1. CASE connState = "MQTT_DATA"
    <3>1. /\ connState' = "MQTT_DATA" /\ keepAliveTick' = keepAliveTick /\ silent' = silent /\ posted' = TRUE
          /\ outbound' \in {outbound, "PUBACK", "PUBREC", "PUBREL", "PUBCOMP", "PINGRESP"}
      BY <1>8, <2>1 DEF mqtt_tcpclient_recv, Post
    <3> QED BY <1>0, <2>1, <3>1
  <2>2. CASE connState # "MQTT_DATA"
    <3>1. /\ keepAliveTick' = keepAliveTick
          /\ silent' = IF connState' = "MQTT_DATA" THEN 0 ELSE silent
      BY <1>8, <2>2 DEF mqtt_tcpclient_recv
    <3> QED BY <1>0, <3>1
  <2> QED BY <2>1, <2>2
<1>9. ASSUME NEW c \in Block, mqtt_tcpclient_recv_long(c) \/ mqtt_tcpclient_sent_cb(c) PROVE PingInv'
  BY <1>0, <1>9 DEF mqtt_tcpclient_recv_long, mqtt_tcpclient_sent_cb, Post, client
<1>10. ASSUME NEW c \in Block, NEW p \in Packets, BrokerSends(c, p) PROVE PingInv'
  BY <1>0, <1>10 DEF BrokerSends, client
<1>11. CASE UNCHANGED mvars
  BY <1>0, <1>11 DEF mvars, client, sdk
<1> QED BY <1>1, <1>2, <1>3, <1>4, <1>5, <1>6, <1>7, <1>8, <1>9, <1>10, <1>11 DEF MNext, Timers, Transfer, Receive

(* The broker hears of the client at least once in KeepAlive + 1 seconds.  *)
THEOREM KeepAliveCorrect == MSpec => []KeptAlive
<1>1. MInit => PingInv
  BY CounterAssumption DEF MInit, PingInv, KeptAlive
<1>2. PingInv => KeptAlive
  BY DEF PingInv
<1> QED BY <1>1, <1>2, PingStep, MTypeCorrect, PTL DEF MSpec

-------------------------------------------------------------------------------
(* Control blocks. *)

(* The states without a connection. *)
Unlinked == BeforeWifi \cup {"WIFI_CONNECTED", "TCP_RECONNECT_REQ"}

(* Until Wi-Fi fails under a connection the state of the client tells      *)
(* whether pCon is allocated, and the stack knows no other block.          *)
BlockInv == ~forgot =>
    /\ ~fault
    /\ live \subseteq {pCon}
    /\ \A c \in Block : con[c].tcp # "none" => c \in live
    /\ connState \in Unlinked => live = {}
    /\ connState \notin Unlinked => pCon \in live

LEMMA TaskBlocks == MTypeOK /\ BlockInv /\ MQTT_Task => BlockInv'
<1> SUFFICES ASSUME MTypeOK, BlockInv, MQTT_Task, ~forgot' PROVE BlockInv'
  BY DEF BlockInv
<1>0. con \in [Block -> Connection]
  BY DEF MTypeOK
<1> USE DEF BlockInv, Unlinked, BeforeWifi
<1>1. CASE TaskInit
  BY <1>1 DEF TaskInit, Task
<1>2. CASE TaskConnect
  <2>1. PICK c \in Block \ live :
          /\ pCon' = c
          /\ live' = live \cup {c}
          /\ con' = [con EXCEPT ![c] = [Closed EXCEPT !.tcp =
                        IF mqtt_host = "address" THEN "connecting" ELSE IF cached THEN "none" ELSE "resolving"]]
    BY <1>2 DEF TaskConnect
  <2>2. ~forgot /\ live = {} /\ ~fault'
    BY <1>2 DEF TaskConnect, Task, station
  <2>3. \A d \in Block \ {c} : con'[d] = con[d]
    BY <1>0, <2>1
  <2>4. connState' \in {"TCP_CONNECTING", "DNS_RESOLVE"}
    BY <1>2 DEF TaskConnect
  <2> QED BY <2>1, <2>2, <2>3, <2>4
<1>3. ASSUME NEW packet, Send(packet), connState \notin Unlinked, connState' \notin Unlinked,
             UNCHANGED <<live, pCon, forgot>>
      PROVE  BlockInv'
  <2>1. ~forgot /\ pCon \in live /\ ~fault /\ ~fault'
    BY <1>3 DEF Send
  <2>2. ASSUME NEW c \in Block, con'[c].tcp # "none" PROVE con[c].tcp # "none"
    <3>1. CASE con' = con
      BY <2>2, <3>1
    <3>2. CASE con' # con
      <4>1. con' = [con EXCEPT ![pCon] = Arrives(con[pCon], packet)] /\ con[pCon].tcp = "open"
        BY <1>3, <3>2 DEF Send
      <4>2. CASE c = pCon
        BY <4>1, <4>2
      <4>3. CASE c # pCon
        BY <1>0, <2>2, <4>1, <4>3
      <4> QED BY <4>2, <4>3
    <3> QED BY <3>1, <3>2
  <2> QED BY <1>3, <2>1, <2>2
<1>4. CASE TaskHello
  BY <1>3, <1>4 DEF TaskHello, Task, station
<1>5. CASE TaskSubscribe
  BY <1>3, <1>5 DEF TaskSubscribe, Task, station
<1>6. CASE TaskData
  <2>1. CASE outbound = "none"
    BY <1>6, <2>1 DEF TaskData, station
  <2>2. CASE outbound # "none"
    BY <1>3, <1>6, <2>2 DEF TaskData, Task, station
  <2> QED BY <2>1, <2>2
<1>7. CASE TaskNothing
  BY <1>7 DEF TaskNothing, client, station
<1> QED BY <1>1, <1>2, <1>4, <1>5, <1>6, <1>7 DEF MQTT_Task

(* Until Wi-Fi fails under a connection every callback is for pCon. *)
LEMMA CallbackBlock ==
    ASSUME BlockInv, ~forgot, NEW c \in Block, con[c].tcp # "none"
    PROVE  c = pCon /\ live = {c} /\ ~fault /\ connState \notin Unlinked
BY DEF BlockInv

LEMMA StackBlocks ==
    ASSUME MTypeOK, BlockInv, NEW c \in Block, Establish(c) \/ Lose(c) \/ Transfer(c)
    PROVE  BlockInv'
<1> SUFFICES ASSUME ~forgot' PROVE BlockInv'
  BY DEF BlockInv
<1>0. con \in [Block -> Connection]
  BY DEF MTypeOK
<1>1. ~forgot /\ con[c].tcp # "none"
  BY DEF Establish, Lose, Transfer, mqtt_dns_found, mqtt_tcpclient_connect_cb, mqtt_tcpclient_recon_cb,
         mqtt_tcpclient_discon_cb, Receive, mqtt_tcpclient_recv, mqtt_tcpclient_recv_long, Hears,
         mqtt_tcpclient_sent_cb, FreeCon, station
<1>2. c = pCon /\ live = {c} /\ ~fault /\ connState \notin Unlinked
  BY <1>1, CallbackBlock
<1>3. \A d \in Block \ {c} : con[d].tcp = "none"
  BY <1>1, <1>2 DEF BlockInv
<1>4. \A d \in Block \ {c} : con'[d].tcp = con[d].tcp
  <2>1. ASSUME NEW found \in BOOLEAN, mqtt_dns_found(c, found) PROVE \A d \in Block \ {c} : con'[d] = con[d]
    BY <1>0, <1>2, <2>1 DEF mqtt_dns_found
  <2>2. CASE mqtt_tcpclient_connect_cb(c)
    BY <1>0, <1>2, <2>2 DEF mqtt_tcpclient_connect_cb
  <2>3. CASE Lose(c)
    BY <1>0, <1>2, <2>3 DEF Lose, mqtt_tcpclient_recon_cb, mqtt_tcpclient_discon_cb, FreeCon
  <2>4. CASE mqtt_tcpclient_recv(c)
    BY <1>0, <1>2, <2>4 DEF mqtt_tcpclient_recv, AfterInvalid
  <2>6. CASE mqtt_tcpclient_recv_long(c)
    BY <1>0, <2>6 DEF mqtt_tcpclient_recv_long
  <2>5. CASE mqtt_tcpclient_sent_cb(c)
    BY <2>5 DEF mqtt_tcpclient_sent_cb
  <2> QED BY <2>1, <2>2, <2>3, <2>4, <2>5, <2>6 DEF Establish, Transfer, Receive
<1>7. {c, pCon} \ live = {} /\ pCon \in live
  BY <1>2
<1>5. CASE Lose(c)
  <2>3. FreeCon(c)
    BY <1>5 DEF Lose, mqtt_tcpclient_recon_cb, mqtt_tcpclient_discon_cb
  <2>1. con'[c].tcp = "none"
    BY <1>0, <2>3 DEF FreeCon, Connection
  <2>2. /\ live' = {} /\ ~fault' /\ pCon' = pCon
        /\ connState' \in {"WIFI_INIT", "TCP_RECONNECT_REQ", "WIFI_CONNECTED"}
    <3>1. live' = {} /\ pCon' = pCon
      BY <1>2, <2>3 DEF FreeCon, Without
    <3>2. ~fault'
      BY <1>2, <1>7, <2>3, Zenon DEF FreeCon
    <3>3. connState' \in {"WIFI_INIT", "TCP_RECONNECT_REQ", "WIFI_CONNECTED"}
      BY <1>5 DEF Lose, mqtt_tcpclient_recon_cb, mqtt_tcpclient_discon_cb
    <3> QED BY <3>1, <3>2, <3>3
  <2> QED BY <1>3, <1>4, <2>1, <2>2 DEF BlockInv, Unlinked, BeforeWifi
<1>6. CASE Establish(c) \/ Transfer(c)
  <2>1. live' = live /\ pCon' = pCon /\ ~fault'
    <3>1. live' = live /\ pCon' = pCon
      BY <1>6 DEF Establish, Transfer, Receive, mqtt_dns_found, mqtt_tcpclient_connect_cb,
                  mqtt_tcpclient_recv, mqtt_tcpclient_recv_long, mqtt_tcpclient_sent_cb, client
    <3>2. ASSUME NEW found \in BOOLEAN, mqtt_dns_found(c, found) PROVE ~fault'
      BY <1>2, <1>7, <3>2 DEF mqtt_dns_found
    <3>3. ASSUME mqtt_tcpclient_connect_cb(c) PROVE ~fault'
      BY <1>2, <1>7, <3>3, Zenon DEF mqtt_tcpclient_connect_cb
    <3>4. ASSUME mqtt_tcpclient_recv(c) PROVE ~fault'
      <4>1. c \in live /\ ~fault
        BY <1>2
      <4> QED BY <3>4, <4>1, Zenon DEF mqtt_tcpclient_recv
    <3>5. ASSUME mqtt_tcpclient_sent_cb(c) PROVE ~fault'
      BY <1>2, <3>5 DEF mqtt_tcpclient_sent_cb
    <3>6. ASSUME mqtt_tcpclient_recv_long(c) PROVE ~fault'
      <4>1. c \in live /\ ~fault
        BY <1>2
      <4> QED BY <3>6, <4>1, Zenon DEF mqtt_tcpclient_recv_long
    <3> QED BY <1>6, <3>1, <3>2, <3>3, <3>4, <3>5, <3>6 DEF Establish, Transfer, Receive
  <2>2. connState' \in {connState, "TCP_CONNECTING", "MQTT_CONNECT_SEND", "MQTT_SUBSCIBE_SEND", "MQTT_DATA"}
    BY <1>6 DEF Establish, Transfer, Receive, mqtt_dns_found, mqtt_tcpclient_connect_cb,
                mqtt_tcpclient_recv, mqtt_tcpclient_recv_long, mqtt_tcpclient_sent_cb, client
  <2>3. connState' \notin Unlinked
    BY <1>2, <2>2 DEF Unlinked, BeforeWifi
  <2> QED BY <1>2, <1>3, <1>4, <2>1, <2>3 DEF BlockInv
<1> QED BY <1>5, <1>6

LEMMA BlockStep == MTypeOK /\ BlockInv /\ [MNext]_mvars => BlockInv'
<1> SUFFICES ASSUME MTypeOK, BlockInv, [MNext]_mvars, ~forgot' PROVE BlockInv'
  BY DEF BlockInv
<1>1. CASE wifi_check_ip
  <2>1. CASE wifi = "GOT_IP"
    BY <1>1, <2>1 DEF wifi_check_ip, station, BlockInv, Unconnected, Unlinked, BeforeWifi
  <2>2. CASE wifi = "FAILED"
    BY <1>1, <2>2 DEF wifi_check_ip, BlockInv, Unlinked, BeforeWifi
  <2>3. CASE wifi = "IDLE"
    BY <1>1, <2>3 DEF wifi_check_ip, station, BlockInv
  <2> QED BY <1>1, <2>1, <2>2, <2>3 DEF wifi_check_ip
<1>2. CASE mqtt_keepalive
  BY <1>2 DEF mqtt_keepalive, station, BlockInv
<1>3. CASE MQTT_Pub
  BY <1>3 DEF MQTT_Pub, sdk, BlockInv
<1>4. CASE WifiEvent
  BY <1>4 DEF WifiEvent, client, BlockInv
<1>5. ASSUME NEW c \in Block, NEW p \in Packets, BrokerSends(c, p) PROVE BlockInv'
  <2>1. \A d \in Block : con'[d].tcp = con[d].tcp
    BY <1>5 DEF BrokerSends, MTypeOK
  <2> QED BY <1>5, <2>1 DEF BrokerSends, client, station, BlockInv
<1>6. CASE UNCHANGED mvars
  BY <1>6 DEF mvars, client, sdk, BlockInv
<1> QED BY <1>1, <1>2, <1>3, <1>4, <1>5, <1>6, TaskBlocks, StackBlocks DEF MNext, Timers

(* Every path of mqtt.c from one connection to the next frees the block of *)
(* the first: at each state the client has the block the stack has, if any.*)
THEOREM BlocksKnown == MSpec => []BlockInv
<1>1. MInit => BlockInv
  BY DEF MInit, BlockInv, Closed, Unlinked, BeforeWifi
<1> QED BY <1>1, BlockStep, MTypeCorrect, PTL DEF MSpec

(* No block is used or freed that is not allocated, unless Wi-Fi has       *)
(* failed under a connection.                                              *)
THEOREM NoStaleBlockCorrect == MSpec => []NoStaleBlock
<1>1. MTypeOK /\ BlockInv => NoStaleBlock
  BY DEF MTypeOK, BlockInv, NoStaleBlock
<1> QED BY <1>1, MTypeCorrect, BlocksKnown, PTL

(* Reconnecting leaks no block, with the same exception. *)
THEOREM OneBlockCorrect == MSpec => []OneBlock
<1>1. BlockInv => OneBlock
  BY DEF BlockInv, OneBlock
<1> QED BY <1>1, BlocksKnown, PTL

-------------------------------------------------------------------------------
(* The session of MqttSession. *)

Fresh(c) == ~c.greeted /\ c.from = 0 /\ c.subs = {}

(* What the broker has seen on an open connection, by the state. *)
InOrder(c) ==
    /\ connState \in {"MQTT_CONNECT_SEND", "MQTT_CONNECT_SENDING", "MQTT_SUBSCIBE_SEND",
                      "MQTT_SUBSCIBE_SENDING", "MQTT_DATA"}
    /\ connState = "MQTT_CONNECT_SEND" => Fresh(c)
    /\ connState # "MQTT_CONNECT_SEND" => c.greeted
    /\ connState = "MQTT_CONNECT_SENDING" => c.from = topic_idx /\ c.subs = {}
    /\ connState = "MQTT_SUBSCIBE_SEND" => c.from <= topic_idx /\ c.subs = c.from .. topic_idx - 1
    /\ connState = "MQTT_SUBSCIBE_SENDING" => c.from <= topic_idx /\ c.subs = c.from .. topic_idx
    /\ connState = "MQTT_DATA" => c.subs = c.from .. MQTT_SUB_TOPIC_NUM - 1

SessionInv == ~forgot => \A c \in Block :
    /\ con[c].tcp \in {"resolving", "connecting"} => Fresh(con[c])
    /\ con[c].tcp = "open" => InOrder(con[c])

(* The step of MqttSession that a step of the client is. *)
SessionStep == S!SNext \/ UNCHANGED S!svars

Carried == pCon \in Block /\ con[pCon].tcp = "open"

(* What the mapping makes of a state, now and in the next one. *)
LEMMA Mapped ==
    ASSUME MTypeOK
    PROVE  /\ Carried => /\ Session.from = con[pCon].from /\ Session.subs = con[pCon].subs
                         /\ Phase = IF ~con[pCon].greeted THEN "open"
                                    ELSE IF connState = "MQTT_DATA" THEN "ready" ELSE "greeted"
           /\ ~Carried => Session.from = 0 /\ Session.subs = {} /\ Phase = "none"
<1>1. pCon = NULL \/ pCon \in Block
  BY DEF MTypeOK
<1>2. CASE Carried
  <2>1. Session = con[pCon]
    BY <1>2, BlockAssumption DEF Carried, Session
  <2> QED BY <1>2, <2>1 DEF Carried, Phase
<1>3. CASE ~Carried
  <2>1. Session = Closed
    BY <1>1, <1>3, BlockAssumption DEF Carried, Session, Closed
  <2> QED BY <1>3, <2>1 DEF Phase, Closed
<1> QED BY <1>2, <1>3

LEMMA MappedNext ==
    ASSUME MTypeOK'
    PROVE  /\ Carried' => /\ Session'.from = con'[pCon'].from /\ Session'.subs = con'[pCon'].subs
                          /\ Phase' = IF ~con'[pCon'].greeted THEN "open"
                                      ELSE IF connState' = "MQTT_DATA" THEN "ready" ELSE "greeted"
           /\ ~Carried' => Session'.from = 0 /\ Session'.subs = {} /\ Phase' = "none"
<1>1. pCon' = NULL \/ pCon' \in Block
  BY DEF MTypeOK
<1>2. CASE Carried'
  <2>1. Session' = con'[pCon']
    BY <1>2, BlockAssumption DEF Carried, Session
  <2> QED BY <1>2, <2>1 DEF Carried, Phase
<1>3. CASE ~Carried'
  <2>1. Session' = Closed
    BY <1>1, <1>3, BlockAssumption DEF Carried, Session, Closed
  <2> QED BY <1>3, <2>1 DEF Phase, Closed
<1> QED BY <1>2, <1>3

(* Steps that leave all sessions as they are. *)
LEMMA Quiet ==
    ASSUME MTypeOK, MTypeOK', SessionInv, ~forgot,
           pCon' = pCon, connState' = connState, topic_idx' = topic_idx,
           \A c \in Block : /\ con'[c].tcp = con[c].tcp /\ con'[c].greeted = con[c].greeted
                            /\ con'[c].from = con[c].from /\ con'[c].subs = con[c].subs
    PROVE  SessionInv' /\ SessionStep
<1>1. SessionInv'
  BY DEF SessionInv, Fresh, InOrder
<1>2. Carried' = Carried
  BY DEF Carried
<1>3. UNCHANGED <<Phase, Session.from, Session.subs>>
  BY <1>2, Mapped, MappedNext DEF Carried
<1> QED BY <1>1, <1>3 DEF SessionStep, S!svars

(* Steps without a session before or after. *)
LEMMA NoSession ==
    ASSUME MTypeOK, MTypeOK',
           \A c \in Block : con[c].tcp # "open" /\ con'[c].tcp # "open",
           \A c \in Block : con'[c].tcp \in {"resolving", "connecting"} => Fresh(con'[c])
    PROVE  SessionInv' /\ SessionStep
<1>1. SessionInv'
  BY DEF SessionInv, Fresh
<1>2. ~Carried /\ ~Carried'
  BY DEF Carried
<1>3. UNCHANGED <<Phase, Session.from, Session.subs>>
  BY <1>2, Mapped, MappedNext
<1> QED BY <1>1, <1>3 DEF SessionStep, S!svars

(* An open connection is the one of pCon. *)
LEMMA OpenIsCurrent ==
    ASSUME BlockInv, ~forgot, ~Carried
    PROVE  \A c \in Block : con[c].tcp # "open"
BY DEF BlockInv, Carried

(* A CONNECT that is sent begins the session at topic_idx. *)
LEMMA HelloSession ==
    ASSUME MTypeOK, MTypeOK', BlockInv, SessionInv, ~forgot, TaskHello
    PROVE  SessionInv' /\ SessionStep
<1>0. con \in [Block -> Connection] /\ topic_idx \in Topic
  BY DEF MTypeOK
<1>1. /\ connState = "MQTT_CONNECT_SEND" /\ connState' = "MQTT_CONNECT_SENDING"
      /\ pCon' = pCon /\ topic_idx' = topic_idx /\ pCon \in live
  BY DEF TaskHello, Task, BlockInv, Unlinked, BeforeWifi
<1>2. CASE ~Carried
  <2>1. con' = con
    BY <1>1, <1>2 DEF TaskHello, Send, Carried, MTypeOK
  <2> QED BY <1>2, <2>1, OpenIsCurrent, NoSession DEF SessionInv
<1>3. CASE Carried
  <2>1. con' = [con EXCEPT ![pCon] = Arrives(con[pCon], "CONNECT")]
    BY <1>1, <1>3 DEF TaskHello, Send, Carried
  <2>2. /\ con'[pCon].tcp = "open" /\ con'[pCon].greeted
        /\ con'[pCon].from = topic_idx /\ con'[pCon].subs = con[pCon].subs
    BY <1>0, <1>3, <2>1 DEF Arrives, Carried, Connection
  <2>3. \A c \in Block \ {pCon} : con'[c] = con[c] /\ con[c].tcp \notin {"open"}
    BY <1>0, <2>1 DEF BlockInv
  <2>4. Fresh(con[pCon])
    BY <1>1, <1>3 DEF SessionInv, InOrder, Carried
  <2>5. SessionInv'
    BY <1>1, <2>2, <2>3, <2>4 DEF SessionInv, InOrder, Fresh
  <2>6. S!Greet
    BY <1>0, <1>1, <1>3, <2>2, <2>4, Mapped, MappedNext DEF Carried, Fresh, Topic, S!Greet
  <2> QED BY <2>5, <2>6 DEF SessionStep, S!SNext
<1> QED BY <1>2, <1>3

(* The cardinality of MqttSession is that of the library. *)
LEMMA SameCardinality == ASSUME NEW T PROVE S!Cardinality(T) = Cardinality(T)
BY DEF S!Cardinality, Cardinality

(* A SUBSCRIBE that is sent asks for the topic after the last one. *)
LEMMA SubscribeSession ==
    ASSUME MTypeOK, MTypeOK', BlockInv, SessionInv, ~forgot, TaskSubscribe
    PROVE  SessionInv' /\ SessionStep
<1>0. con \in [Block -> Connection] /\ topic_idx \in Topic
  BY DEF MTypeOK
<1>1. /\ connState = "MQTT_SUBSCIBE_SEND" /\ connState' = "MQTT_SUBSCIBE_SENDING"
      /\ pCon' = pCon /\ topic_idx' = topic_idx /\ pCon \in live
  BY DEF TaskSubscribe, Task, BlockInv, Unlinked, BeforeWifi
<1>2. CASE ~Carried
  <2>1. con' = con
    BY <1>1, <1>2 DEF TaskSubscribe, Send, Carried, MTypeOK
  <2> QED BY <1>2, <2>1, OpenIsCurrent, NoSession DEF SessionInv
<1>3. CASE Carried
  <2> DEFINE first == con[pCon].from
  <2>1. con' = [con EXCEPT ![pCon] = Arrives(con[pCon], "SUBSCRIBE")]
    BY <1>1, <1>3 DEF TaskSubscribe, Send, Carried
  <2>2. /\ con'[pCon].tcp = "open" /\ con'[pCon].greeted = con[pCon].greeted
        /\ con'[pCon].from = first /\ con'[pCon].subs = con[pCon].subs \cup {topic_idx}
    BY <1>0, <1>3, <2>1 DEF Arrives, Carried, Connection
  <2>3. \A c \in Block \ {pCon} : con'[c] = con[c] /\ con[c].tcp \notin {"open"}
    BY <1>0, <2>1 DEF BlockInv
  <2>4. con[pCon].greeted /\ first <= topic_idx /\ con[pCon].subs = first .. topic_idx - 1
    BY <1>1, <1>3 DEF SessionInv, InOrder, Carried
  <2>5. first \in Int /\ topic_idx \in Int /\ topic_idx < MQTT_SUB_TOPIC_NUM
    BY <1>0, <1>3, TopicAssumption DEF Topic, Connection, Carried
  <2> HIDE DEF first
  <2>6. con'[pCon].subs = first .. topic_idx
    BY <2>2, <2>4, <2>5
  <2>7. SessionInv'
    BY <1>1, <2>2, <2>3, <2>4, <2>6 DEF SessionInv, InOrder, Fresh
  <2>8. first + Cardinality(first .. topic_idx - 1) = topic_idx
    <3>1. Cardinality(first .. topic_idx - 1) = IF first > topic_idx - 1 THEN 0 ELSE (topic_idx - 1) - first + 1
      BY <2>5, FS_Interval
    <3> QED BY <2>4, <2>5, <3>1
  <2>9. Phase = "greeted" /\ Phase' = "greeted" /\ Session.from = first /\ Session'.from = first
        /\ Session.subs = con[pCon].subs /\ Session'.subs = con'[pCon].subs
    BY <1>1, <1>3, <2>2, <2>4, Mapped, MappedNext DEF Carried, first
  <2>10. S!Subscribe
    BY <2>2, <2>4, <2>5, <2>8, <2>9, SameCardinality DEF S!Subscribe, S!NextTopic
  <2> QED BY <2>7, <2>10 DEF SessionStep, S!SNext
<1> QED BY <1>2, <1>3

LEMMA TaskSession ==
    ASSUME MTypeOK, MTypeOK', BlockInv, SessionInv, ~forgot, MQTT_Task
    PROVE  SessionInv' /\ SessionStep
<1>0. con \in [Block -> Connection]
  BY DEF MTypeOK
<1>1. ASSUME TaskInit \/ TaskConnect PROVE \A c \in Block : con[c].tcp = "none"
  BY <1>1 DEF TaskInit, TaskConnect, Task, BlockInv, Unlinked, BeforeWifi
<1>2. CASE TaskInit
  <2>1. con' = con
    BY <1>2 DEF TaskInit
  <2> QED BY <1>1, <1>2, <2>1, NoSession
<1>3. CASE TaskConnect
  <2>1. PICK c \in Block : con' = [con EXCEPT ![c] = [Closed EXCEPT !.tcp =
            IF mqtt_host = "address" THEN "connecting" ELSE IF cached THEN "none" ELSE "resolving"]]
    BY <1>3 DEF TaskConnect
  <2>2. con'[c].tcp # "open" /\ Fresh(con'[c])
    BY <1>0, <2>1 DEF Closed, Fresh
  <2>3. \A d \in Block \ {c} : con'[d].tcp = "none"
    BY <1>0, <1>1, <1>3, <2>1
  <2> QED BY <1>1, <1>3, <2>2, <2>3, NoSession
<1>4. CASE TaskData
  <2>1. con' = con
    <3>1. CASE outbound = "none"
      BY <1>4, <3>1 DEF TaskData
    <3>2. CASE outbound # "none"
      <4>1. outbound \notin {"CONNECT", "SUBSCRIBE"}
        BY DEF MTypeOK
      <4>2. Arrives(con[pCon], outbound) = con[pCon]
        BY <4>1 DEF Arrives
      <4>3. Send(outbound)
        BY <1>4, <3>2 DEF TaskData
      <4> QED BY <1>0, <4>2, <4>3 DEF Send
    <3> QED BY <3>1, <3>2
  <2> QED BY <1>4, <2>1, Quiet DEF TaskData
<1>5. CASE TaskNothing
  BY <1>5, Quiet DEF TaskNothing, client
<1> QED BY <1>2, <1>3, <1>4, <1>5, HelloSession, SubscribeSession DEF MQTT_Task

LEMMA TimerSession ==
    ASSUME MTypeOK, MTypeOK', BlockInv, SessionInv, ~forgot', Timers
    PROVE  SessionInv' /\ SessionStep
<1>0. ~forgot /\ con' = con /\ pCon' = pCon /\ topic_idx' = topic_idx
  <2>1. con' = con /\ pCon' = pCon /\ topic_idx' = topic_idx
    BY DEF Timers, wifi_check_ip, mqtt_keepalive
  <2>2. forgot' = forgot \/ forgot' = (forgot \/ live # {})
    BY DEF Timers, wifi_check_ip, mqtt_keepalive, station
  <2>3. ~forgot
    BY <2>2, Zenon
  <2> QED BY <2>1, <2>3
<1>1. CASE connState' = connState
  BY <1>0, <1>1, Quiet
<1>2. CASE connState' # connState
  <2>1. live = {}
    <3>1. CASE wifi = "GOT_IP"
      BY <1>0, <1>2, <3>1 DEF Timers, wifi_check_ip, mqtt_keepalive, BlockInv, Unlinked, Unconnected
    <3>2. CASE wifi # "GOT_IP"
      BY <1>0, <1>2, <3>2 DEF Timers, wifi_check_ip, mqtt_keepalive
    <3> QED BY <3>1, <3>2
  <2> QED BY <1>0, <2>1, NoSession DEF BlockInv
<1> QED BY <1>1, <1>2

(* The name query ends, and with it no session. *)
LEMMA DnsSession ==
    ASSUME MTypeOK, MTypeOK', BlockInv, SessionInv, ~forgot,
           NEW c \in Block, NEW found \in BOOLEAN, mqtt_dns_found(c, found)
    PROVE  SessionInv' /\ SessionStep
<1>0. con \in [Block -> Connection]
  BY DEF MTypeOK
<1>1. con[c].tcp = "resolving" /\ c = pCon
  BY CallbackBlock DEF mqtt_dns_found
<1>2. \A d \in Block \ {c} : con[d].tcp = "none" /\ con'[d] = con[d]
  BY <1>0, <1>1 DEF mqtt_dns_found, BlockInv
<1>3. Fresh(con[c])
  BY <1>1 DEF SessionInv
<1>4. con' = [con EXCEPT ![c].tcp = "none", ![c].tcp = "connecting"] \/ con' = [con EXCEPT ![c].tcp = "none"]
  BY <1>1 DEF mqtt_dns_found
<1>5. con'[c].tcp # "open" /\ Fresh(con'[c])
  BY <1>0, <1>3, <1>4 DEF Fresh, Connection
<1> QED BY <1>1, <1>2, <1>5, NoSession

(* A connection is established, and nothing has been sent on it. *)
LEMMA OpenSession ==
    ASSUME MTypeOK, MTypeOK', BlockInv, SessionInv, ~forgot,
           NEW c \in Block, mqtt_tcpclient_connect_cb(c)
    PROVE  SessionInv' /\ SessionStep
<1>0. con \in [Block -> Connection]
  BY DEF MTypeOK
<1>1. con[c].tcp = "connecting" /\ c = pCon
  BY CallbackBlock DEF mqtt_tcpclient_connect_cb
<1>2. pCon' = c /\ connState' = "MQTT_CONNECT_SEND"
  BY <1>1 DEF mqtt_tcpclient_connect_cb
<1>3. con' = [con EXCEPT ![c].tcp = "open", ![c].hooked = TRUE]
  BY <1>1 DEF mqtt_tcpclient_connect_cb
<1>4. \A d \in Block \ {c} : con[d].tcp = "none" /\ con'[d] = con[d]
  BY <1>0, <1>1, <1>3 DEF BlockInv
<1>5. Fresh(con[c])
  BY <1>1 DEF SessionInv
<1>6. con'[c].tcp = "open" /\ Fresh(con'[c])
  BY <1>0, <1>3, <1>5 DEF Fresh, Connection
<1>7. SessionInv'
  BY <1>2, <1>4, <1>6 DEF SessionInv, InOrder
<1>8. S!Open
  BY <1>1, <1>2, <1>6, Mapped, MappedNext DEF Carried, Fresh, S!Open
<1> QED BY <1>7, <1>8 DEF SessionStep, S!SNext

(* Steps after which nothing is open leave the session, if there is one. *)
LEMMA LeaveSession ==
    ASSUME MTypeOK, MTypeOK', BlockInv, ~forgot,
           \A d \in Block : con'[d].tcp \notin {"resolving", "connecting", "open"}
    PROVE  SessionInv' /\ SessionStep
<1>1. CASE Carried
  <2>1. SessionInv'
    BY DEF SessionInv
  <2>2. Phase # "none"
    BY <1>1, Mapped
  <2>3. S!Leave
    BY <2>2, MappedNext DEF Carried, S!Leave
  <2> QED BY <2>1, <2>3 DEF SessionStep, S!SNext
<1>2. CASE ~Carried
  BY <1>2, OpenIsCurrent, NoSession
<1> QED BY <1>1, <1>2

LEMMA LoseSession ==
    ASSUME MTypeOK, MTypeOK', BlockInv, ~forgot, NEW c \in Block, Lose(c)
    PROVE  SessionInv' /\ SessionStep
<1>0. con \in [Block -> Connection]
  BY DEF MTypeOK
<1>1. con[c].tcp # "none" /\ FreeCon(c)
  BY DEF Lose, mqtt_tcpclient_recon_cb, mqtt_tcpclient_discon_cb
<1>2. \A d \in Block \ {c} : con[d].tcp = "none" /\ con'[d] = con[d]
  BY <1>0, <1>1, CallbackBlock DEF FreeCon, BlockInv
<1>3. con'[c].tcp = "none"
  BY <1>0, <1>1 DEF FreeCon, Connection
<1> QED BY <1>2, <1>3, LeaveSession

(* A segment arrives.  What was on its way is not part of a session; the   *)
(* SUBACK of the last topic, whatever it is, makes it ready.               *)
LEMMA ReceiveSession ==
    ASSUME MTypeOK, MTypeOK', BlockInv, SessionInv, ~forgot,
           NEW c \in Block, mqtt_tcpclient_recv(c)
    PROVE  SessionInv' /\ SessionStep
<1>0. con \in [Block -> Connection] /\ topic_idx \in Topic
  BY DEF MTypeOK
<1>1. con[c].tcp \in {"open", "closing"} /\ c = pCon /\ pCon' = c
  BY CallbackBlock DEF mqtt_tcpclient_recv, Hears
<1>2. \A d \in Block \ {c} : con[d].tcp = "none"
  BY <1>1 DEF BlockInv
<1> DEFINE accepted == connState = "MQTT_CONNECT_SENDING" /\ con[c].down[1] = "CONNACK"
           closes == connState = "MQTT_CONNECT_SENDING" /\ con[c].down[1] # "CONNACK"
           subscribed == connState = "MQTT_SUBSCIBE_SENDING"
           other == connState \notin {"MQTT_CONNECT_SENDING", "MQTT_SUBSCIBE_SENDING"}
<1>3. PICK n \in 1 .. Len(con[c].down) :
        /\ connState' = IF accepted THEN "MQTT_SUBSCIBE_SEND"
                        ELSE IF subscribed THEN IF NextTopic = 0 THEN "MQTT_DATA" ELSE "MQTT_SUBSCIBE_SEND"
                        ELSE connState
        /\ topic_idx' = IF subscribed THEN NextTopic ELSE topic_idx
        /\ con' = IF closes
                  THEN [[con EXCEPT ![c].down = SubSeq(@, n + 1, Len(@))] EXCEPT ![c].tcp = "closing"]
                  ELSE [con EXCEPT ![c].down = SubSeq(@, n + 1, Len(@))]
  BY <1>1 DEF mqtt_tcpclient_recv, Subacked, AfterInvalid
<1>4. \A d \in Block \ {c} : con'[d] = con[d]
  BY <1>0, <1>3
<1>5. /\ con'[c].greeted = con[c].greeted /\ con'[c].from = con[c].from /\ con'[c].subs = con[c].subs
      /\ con'[c].tcp = IF closes THEN "closing" ELSE con[c].tcp
  BY <1>0, <1>3 DEF Connection
<1>6. CASE con'[c].tcp # "open"
  BY <1>1, <1>2, <1>4, <1>5, <1>6, LeaveSession
<1>7. CASE con'[c].tcp = "open" /\ other
  <2>1. connState' = connState /\ topic_idx' = topic_idx
    BY <1>3, <1>7
  <2>2. con'[c].tcp = con[c].tcp
    BY <1>5, <1>7
  <2> QED BY <1>1, <1>4, <1>5, <2>1, <2>2, Quiet
<1>8. CASE con'[c].tcp = "open" /\ ~other
  <2>1. con[c].tcp = "open" /\ ~closes /\ Carried /\ Carried'
    BY <1>1, <1>5, <1>8 DEF Carried
  <2>2. InOrder(con[c]) /\ con[c].greeted
    BY <1>8, <2>1 DEF SessionInv, InOrder
  <2>3. con[c].from \in Int /\ topic_idx \in Int /\ topic_idx < MQTT_SUB_TOPIC_NUM
    BY <1>0, TopicAssumption DEF Topic, Connection
  <2>4. Phase = "greeted" /\ Session.from = con[c].from /\ Session.subs = con[c].subs
        /\ Session'.from = con[c].from /\ Session'.subs = con[c].subs
        /\ Phase' = IF connState' = "MQTT_DATA" THEN "ready" ELSE "greeted"
    BY <1>1, <1>5, <1>8, <2>1, <2>2, Mapped, MappedNext
  <2>5. CASE accepted
    <3>1. connState' = "MQTT_SUBSCIBE_SEND" /\ topic_idx' = topic_idx
      BY <1>3, <2>5
    <3>2. con[c].from = topic_idx /\ con[c].subs = {}
      BY <2>2, <2>5 DEF InOrder
    <3>3. con[c].subs = con[c].from .. topic_idx - 1
      BY <2>3, <3>2
    <3>4. con[c].from <= topic_idx
      BY <2>3, <3>2
    <3>5. InOrder(con[c])'
      <4> HIDE DEF accepted, closes, subscribed, other
      <4> QED BY <1>5, <2>2, <3>1, <3>3, <3>4 DEF InOrder
    <3>6. SessionInv'
      <4> HIDE DEF accepted, closes, subscribed, other
      <4> QED BY <1>2, <1>4, <1>8, <3>5 DEF SessionInv
    <3> QED BY <2>4, <3>1, <3>6 DEF SessionStep, S!svars
  <2>6. CASE subscribed
    <3>1. con[c].from <= topic_idx /\ con[c].subs = con[c].from .. topic_idx
      BY <2>2, <2>6 DEF InOrder
    <3>2. CASE NextTopic = 0
      <4>1. connState' = "MQTT_DATA" /\ topic_idx = MQTT_SUB_TOPIC_NUM - 1
        BY <1>3, <2>3, <2>6, <3>2, <1>0, TopicAssumption DEF NextTopic, Topic
      <4>2. SessionInv'
        BY <1>2, <1>4, <1>5, <1>8, <2>2, <3>1, <4>1 DEF SessionInv, InOrder
      <4>3. con[c].from + Cardinality(con[c].from .. topic_idx) = MQTT_SUB_TOPIC_NUM
        <5>1. Cardinality(con[c].from .. topic_idx)
                = IF con[c].from > topic_idx THEN 0 ELSE topic_idx - con[c].from + 1
          BY <2>3, FS_Interval
        <5> QED BY <2>3, <3>1, <4>1, <5>1, TopicAssumption
      <4>4. S!Ready
        BY <2>4, <3>1, <4>1, <4>3, SameCardinality DEF S!Ready, S!NextTopic
      <4> QED BY <4>2, <4>4 DEF SessionStep, S!SNext
    <3>3. CASE NextTopic # 0
      <4>1. connState' = "MQTT_SUBSCIBE_SEND" /\ topic_idx' = topic_idx + 1
        BY <1>3, <2>6, <3>3 DEF NextTopic
      <4>2. con[c].subs = con[c].from .. topic_idx' - 1 /\ con[c].from <= topic_idx'
        BY <2>3, <3>1, <4>1
      <4>3. SessionInv'
        BY <1>2, <1>4, <1>5, <1>8, <2>2, <4>1, <4>2 DEF SessionInv, InOrder
      <4> QED BY <2>4, <4>1, <4>3 DEF SessionStep, S!svars
    <3> QED BY <3>2, <3>3
  <2> QED BY <1>8, <2>1, <2>5, <2>6
<1> QED BY <1>6, <1>7, <1>8

LEMMA StackSession ==
    ASSUME MTypeOK, MTypeOK', BlockInv, SessionInv, ~forgot, NEW c \in Block,
           Establish(c) \/ Lose(c) \/ Transfer(c) \/ \E p \in Packets : BrokerSends(c, p)
    PROVE  SessionInv' /\ SessionStep
<1>0. con \in [Block -> Connection]
  BY DEF MTypeOK
<1>1. CASE mqtt_tcpclient_sent_cb(c)
  BY <1>1, Quiet DEF mqtt_tcpclient_sent_cb, client
<1>3. CASE mqtt_tcpclient_recv_long(c)
  <2>1. PICK n \in 1 .. Len(con[c].down) : con' = [con EXCEPT ![c].down = SubSeq(@, n + 1, Len(@))]
    BY <1>3 DEF mqtt_tcpclient_recv_long
  <2>2. \A d \in Block : /\ con'[d].tcp = con[d].tcp /\ con'[d].greeted = con[d].greeted
                         /\ con'[d].from = con[d].from /\ con'[d].subs = con[d].subs
    BY <1>0, <2>1 DEF Connection
  <2> QED BY <1>3, <2>2, Quiet DEF mqtt_tcpclient_recv_long, client
<1>2. ASSUME NEW p \in Packets, BrokerSends(c, p) PROVE SessionInv' /\ SessionStep
  <2>1. con' = [con EXCEPT ![c].down = Append(@, p)] /\ UNCHANGED client
    BY <1>2 DEF BrokerSends
  <2>2. \A d \in Block : /\ con'[d].tcp = con[d].tcp /\ con'[d].greeted = con[d].greeted
                         /\ con'[d].from = con[d].from /\ con'[d].subs = con[d].subs
    BY <1>0, <2>1 DEF Connection
  <2> QED BY <2>1, <2>2, Quiet DEF client
<1> QED BY <1>1, <1>2, <1>3, DnsSession, OpenSession, LoseSession, ReceiveSession DEF Establish, Transfer, Receive

(* One step of the client is one of the session, or none of its business,  *)
(* until Wi-Fi fails under a connection.                                   *)
LEMMA SessionStepOf ==
    ASSUME MTypeOK, MTypeOK', BlockInv, SessionInv, ~forgot', [MNext]_mvars
    PROVE  SessionInv' /\ SessionStep
<1>1. ASSUME ~(wifi_check_ip) PROVE forgot' = forgot
  BY <1>1 DEF MNext, mvars, MQTT_Task, TaskInit, TaskConnect, TaskHello, TaskSubscribe, TaskData, TaskNothing,
       Timers, mqtt_keepalive, MQTT_Pub, WifiEvent, Establish, mqtt_dns_found, mqtt_tcpclient_connect_cb,
       Lose, mqtt_tcpclient_recon_cb, mqtt_tcpclient_discon_cb, FreeCon, Transfer, Receive,
       mqtt_tcpclient_recv, mqtt_tcpclient_recv_long, mqtt_tcpclient_sent_cb, BrokerSends, station
<1>2. CASE Timers
  BY <1>2, TimerSession
<1>3. CASE ~Timers
  <2>1. ~forgot
    BY <1>1, <1>3 DEF Timers
  <2>2. ASSUME MQTT_Pub \/ WifiEvent \/ UNCHANGED mvars PROVE SessionInv' /\ SessionStep
    BY <2>1, <2>2, Quiet DEF MQTT_Pub, WifiEvent, mvars, client, sdk
  <2>3. CASE MQTT_Task
    BY <2>1, <2>3, TaskSession
  <2>4. ASSUME NEW c \in Block,
               Establish(c) \/ Lose(c) \/ Transfer(c) \/ \E p \in Packets : BrokerSends(c, p)
        PROVE  SessionInv' /\ SessionStep
    BY <2>1, <2>4, StackSession
  <2> QED BY <1>3, <2>2, <2>3, <2>4 DEF MNext
<1> QED BY <1>2, <1>3

(* From the state in which nothing is connected, each step of the client   *)
(* keeps the session in order.  Until Wi-Fi fails under a connection each  *)
(* connection therefore greets once and first, subscribes from one topic   *)
(* to the last without a gap and takes messages only then; after such a    *)
(* failure the blocks of two connections may be mixed up.                  *)
THEOREM SessionKept == MSpec => [][~forgot' => SessionStep]_mvars
<1>1. MInit => SessionInv
  <2> SUFFICES ASSUME MInit PROVE \A c \in Block : con[c].tcp = "none"
    BY DEF SessionInv
  <2>1. con = [c \in Block |-> Closed]
    BY DEF MInit
  <2> QED BY <2>1 DEF Closed
<1>2. MTypeOK /\ MTypeOK' /\ BlockInv /\ SessionInv /\ [MNext]_mvars => SessionInv'
  <2> SUFFICES ASSUME MTypeOK, MTypeOK', BlockInv, SessionInv, [MNext]_mvars, ~forgot' PROVE SessionInv'
    BY DEF SessionInv
  <2> QED BY SessionStepOf
<1>3. MTypeOK /\ MTypeOK' /\ BlockInv /\ SessionInv /\ [MNext]_mvars => [~forgot' => SessionStep]_mvars
  BY SessionStepOf
<1> QED BY <1>1, <1>2, <1>3, MTypeCorrect, BlocksKnown, PTL DEF MSpec

(* While the access point stays no connection is forgotten. *)
WifiInv == ~WifiDrops => ~forgot /\ (connState \in BeforeWifi \/ wifi = "GOT_IP")

LEMMA WifiStep == MTypeOK /\ BlockInv /\ WifiInv /\ [MNext]_mvars => WifiInv'
<1> SUFFICES ASSUME MTypeOK, BlockInv, WifiInv, [MNext]_mvars, ~WifiDrops
             PROVE  ~forgot' /\ (connState' \in BeforeWifi \/ wifi' = "GOT_IP")
  BY DEF WifiInv
<1>0. ~forgot /\ (connState \in BeforeWifi \/ wifi = "GOT_IP")
  BY DEF WifiInv
<1>1. CASE wifi_check_ip
  <2>1. CASE wifi = "GOT_IP"
    BY <1>0, <1>1, <2>1 DEF wifi_check_ip, station
  <2>2. CASE wifi = "FAILED"
    <3>1. connState' \in BeforeWifi
      BY <1>1, <2>2 DEF wifi_check_ip, BeforeWifi
    <3>2. live = {}
      BY <1>0, <2>2 DEF BlockInv, Unlinked
    <3>3. forgot' = (forgot \/ live # {})
      BY <1>1, <2>2 DEF wifi_check_ip
    <3>4. ~forgot'
      BY <1>0, <3>2, <3>3, Zenon
    <3> QED BY <3>1, <3>4
  <2>3. CASE wifi = "IDLE"
    BY <1>0, <1>1, <2>3 DEF wifi_check_ip, station
  <2> QED BY <1>1, <2>1, <2>2, <2>3 DEF wifi_check_ip
<1>2. CASE TaskInit
  BY <1>0, <1>2 DEF TaskInit, BeforeWifi
<1>3. CASE WifiEvent
  BY <1>0, <1>3 DEF WifiEvent, client
<1>4. CASE TaskConnect
  BY <1>0, <1>4 DEF TaskConnect, Task, station, BeforeWifi
<1>5. CASE TaskHello \/ TaskSubscribe \/ TaskData \/ TaskNothing
  BY <1>0, <1>5 DEF TaskHello, TaskSubscribe, TaskData, TaskNothing, Task, station, client, BeforeWifi
<1>6. CASE mqtt_keepalive \/ MQTT_Pub \/ UNCHANGED mvars
  BY <1>0, <1>6 DEF mqtt_keepalive, MQTT_Pub, station, sdk, client, mvars
<1>7. ASSUME NEW c \in Block,
             Establish(c) \/ Lose(c) \/ Transfer(c) \/ \E p \in Packets : BrokerSends(c, p)
      PROVE  ~forgot' /\ (connState' \in BeforeWifi \/ wifi' = "GOT_IP")
  <2>1. con[c].tcp # "none"
    BY <1>7 DEF Establish, Lose, Transfer, Receive, mqtt_dns_found, mqtt_tcpclient_connect_cb,
                mqtt_tcpclient_recon_cb, mqtt_tcpclient_discon_cb, mqtt_tcpclient_recv,
                mqtt_tcpclient_recv_long, Hears, mqtt_tcpclient_sent_cb, BrokerSends
  <2>2. connState \notin BeforeWifi
    BY <1>0, <2>1, CallbackBlock DEF Unlinked
  <2>3. UNCHANGED station
    BY <1>7 DEF Establish, Lose, Transfer, Receive, mqtt_dns_found, mqtt_tcpclient_connect_cb,
                mqtt_tcpclient_recon_cb, mqtt_tcpclient_discon_cb, FreeCon, mqtt_tcpclient_recv,
                mqtt_tcpclient_recv_long, mqtt_tcpclient_sent_cb, BrokerSends
  <2> QED BY <1>0, <2>2, <2>3 DEF station
<1> QED BY <1>1, <1>2, <1>3, <1>4, <1>5, <1>6, <1>7 DEF MNext, MQTT_Task, Timers

(* While the access point stays, the client implements the safety part of  *)
(* MqttSession: the connection of mqtt.c, seen through pCon, refines the   *)
(* session that a broker may rely on.                                      *)
THEOREM SessionRefined == ~WifiDrops => (MSpec => SessionSafety)
<1>1. MInit => S!SInit
  <2>1. ASSUME MInit PROVE pCon = NULL
    BY <2>1 DEF MInit
  <2>2. ASSUME MInit PROVE Session = Closed
    BY <2>1, <2>2 DEF Session, Closed
  <2>3. ASSUME MInit PROVE Phase = "none" /\ Session.from = 0 /\ Session.subs = {}
    BY <2>2, <2>3 DEF Phase, Closed
  <2> QED BY <2>3 DEF S!SInit
<1>2. MInit => WifiInv
  <2>1. MInit => ~forgot /\ connState = "WIFI_INIT"
    BY Zenon DEF MInit
  <2> QED BY <2>1 DEF WifiInv, BeforeWifi
<1>3. ~WifiDrops /\ WifiInv' => ~forgot'
  BY DEF WifiInv
<1>4. SessionStep => [S!SNext]_(S!svars)
  BY DEF SessionStep
<1>5. ~WifiDrops /\ WifiInv' /\ [~forgot' => SessionStep]_mvars /\ [MNext]_mvars => [S!SNext]_(S!svars)
  <2>1. UNCHANGED mvars => UNCHANGED S!svars
    BY DEF mvars, client, sdk, S!svars, Phase, Session
  <2> QED BY <1>3, <1>4, <2>1
<1> SUFFICES ASSUME ~WifiDrops PROVE MSpec => SessionSafety
  OBVIOUS
<1> QED BY <1>1, <1>2, <1>5, WifiStep, MTypeCorrect, BlocksKnown, SessionKept, PTL
        DEF MSpec, SessionSafety, S!SSafety
===============================================================================
