-------------------------------- MODULE MqttMsg --------------------------------
(***************************************************************************)
(* The packets of user/mqtt_msg.c, byte by byte where a length, an offset  *)
(* or a message id is concerned, and what user/mqtt.c does with them: it   *)
(* builds one outbound packet at a time, and in MQTT_DATA takes the first  *)
(* packet of each segment it receives.  Texts are runs of equal bytes.     *)
(*                                                                         *)
(* A byte holds 2 * Radix values; its upper half is the continuation bit   *)
(* of a length, whose digits have Radix values.  Offsets count from 0, as  *)
(* in the code.                                                            *)
(***************************************************************************)
EXTENDS Integers, Sequences, FiniteSets, FiniteSetsExt, SequencesExt

CONSTANTS
    Radix,          \* 128 in the code
    MQTT_BUF_SIZE,  \* of each buffer, 1024 in the code
    TextSize,       \* of topic and buff in deliver_publish(), 100 in the code
    Ids,            \* values of a message id, 2^16 in the code
    Topics, Payloads,   \* lengths of texts the client publishes or the broker sends
    Stale,          \* what earlier segments may have left in the buffer
    NULL

ASSUME RadixAssumption == Radix \in Nat /\ Radix > 2
ASSUME BufferAssumption == MQTT_BUF_SIZE \in Nat /\ MQTT_BUF_SIZE <= Radix * Radix + 2
ASSUME TextSizeAssumption == TextSize \in Nat
ASSUME IdAssumption == Ids \in 3 .. 4 * Radix * Radix
ASSUME TextAssumption == Topics \subseteq Nat \ {0} /\ Payloads \subseteq Nat

VARIABLES
    message_id,     \* mqtt_connection.message_id
    out,            \* the outbound packet, <<>> after fail_message()
    asked,          \* history: the call that built out
    (* calls of the last step *)
    sent,           \* what the broker sent in the segment, or NULL
    delivered       \* topic and data deliver_publish() compares, Undefined or NULL

msgvars == <<message_id, out, asked, sent, delivered>>

CONNECT == 1
PUBLISH == 3
PUBACK == 4
PUBREC == 5
PUBREL == 6
PUBCOMP == 7
SUBSCRIBE == 8
PINGREQ == 12
PINGRESP == 13
DISCONNECT == 14
Ack == {PUBACK, PUBREC, PUBREL, PUBCOMP}

-------------------------------------------------------------------------------
(* Building. *)

Header(type, qos, retain) == 16 * type + 2 * qos + retain
Word16(n) == <<n \div (2 * Radix), n % (2 * Radix)>>
Text(n, char) == [i \in 1 .. n |-> char]
String(text) == Word16(Len(text)) \o text

MQTT_MAX_FIXED_HEADER_SIZE == 3
Fits(body) == MQTT_MAX_FIXED_HEADER_SIZE + Len(body) <= MQTT_BUF_SIZE

(* Mutant: the first length of two digits is written as one. *)
fini_message_late(body, header) ==
    LET remaining_length == Len(body)
    IN  IF remaining_length > Radix
        THEN <<header, Radix + (remaining_length % Radix), remaining_length \div Radix>> \o body
        ELSE <<header, remaining_length>> \o body

(* The header is put in front of the body, its length in one or two digits. *)
fini_message(body, header) ==
    LET remaining_length == Len(body)
    IN  IF remaining_length > Radix - 1
        THEN <<header, Radix + (remaining_length % Radix), remaining_length \div Radix>> \o body
        ELSE <<header, remaining_length>> \o body

(* Every append checks its own end, so what counts is the whole. *)
Packet(body, header) == IF Fits(body) THEN fini_message(body, header) ELSE <<>>

(* Mutant: 0 is an id like any other. *)
NextId_zero == (message_id + 1) % Ids
NextId == IF message_id + 1 = Ids THEN 1 ELSE message_id + 1

Absent(text) == text = <<>>
Optional(text) == IF Absent(text) THEN <<>> ELSE String(text)

(* The flags of a will: its QoS is or-ed in one bit higher than the        *)
(* protocol has it, so that its upper bit is the one of retain.            *)
WillFlags(will) ==
    IF Absent(will.topic) THEN 0
    ELSE 4 + 16 * (will.qos % 2) + (IF will.retain \/ will.qos > 1 THEN 32 ELSE 0)

Will(will) == IF Absent(will.topic) THEN <<>> ELSE String(will.topic) \o String(will.message)

(* The session is clean and the client id never empty. *)
ConnectBody(id, will, user, password, keepalive) ==
    String(Text(6, 1))
        \o <<3, 2 + WillFlags(will) + (IF Absent(user) THEN 0 ELSE 128) + (IF Absent(password) THEN 0 ELSE 64)>>
        \o Word16(keepalive) \o String(id) \o Will(will) \o Optional(user) \o Optional(password)

PublishBody(topic, data, qos) ==
    String(topic) \o (IF qos > 0 THEN Word16(NextId) ELSE <<>>) \o data

-------------------------------------------------------------------------------
(* Parsing: buf holds a packet and length bytes of it have come in.  Only  *)
(* the bytes at offsets below length count, except in mqtt_get_id.         *)

At(buf, i) == buf[i + 1]
mqtt_get_type(buf) == At(buf, 0) \div 16
mqtt_get_qos(buf) == (At(buf, 0) % 8) \div 2
Read16(buf, i) == 2 * Radix * At(buf, i) + At(buf, i + 1)

(* The offset behind the digits of the length. *)
LengthEnd(buf, length) ==
    LET last == {i \in 1 .. length - 1 : At(buf, i) < Radix}
    IN  IF last = {} THEN length ELSE Min(last) + 1

(* The digits before it, the lowest first. *)
Remaining(buf, length) ==
    LET end == LengthEnd(buf, length)
        value[i \in 1 .. end] == IF i = end THEN 0 ELSE (At(buf, i) % Radix) + Radix * value[i + 1]
    IN  value[1]

mqtt_get_total_length(buf, length) == Remaining(buf, length) + LengthEnd(buf, length)

(* Where the topic begins and ends; the topic is there if more follows it. *)
TopicStart(buf, length) == LengthEnd(buf, length) + 2
HasTopicLength(buf, length) == TopicStart(buf, length) < length
TopicEnd(buf, length) == TopicStart(buf, length) + Read16(buf, LengthEnd(buf, length))
HasTopic(buf, length) == HasTopicLength(buf, length) /\ TopicEnd(buf, length) < length

mqtt_get_publish_topic(buf, length) ==
    IF HasTopic(buf, length)
    THEN SubSeq(buf, TopicStart(buf, length) + 1, TopicEnd(buf, length)) ELSE NULL

(* Behind an id, if the packet has one. *)
DataStart(buf, length) == TopicEnd(buf, length) + IF mqtt_get_qos(buf) > 0 THEN 2 ELSE 0
HasData(buf, length) == /\ HasTopic(buf, length)
                        /\ mqtt_get_qos(buf) > 0 => DataStart(buf, length) < length
                        /\ DataStart(buf, length) <= mqtt_get_total_length(buf, length)

(* Mutant: all that the packet is said to have. *)
DataEnd_total(buf, length) == mqtt_get_total_length(buf, length)
DataEnd(buf, length) == Min({mqtt_get_total_length(buf, length), length})

mqtt_get_publish_data(buf, length) ==
    IF HasData(buf, length)
    THEN SubSeq(buf, DataStart(buf, length) + 1, DataEnd(buf, length)) ELSE NULL

(* The id of a PUBLISH is looked for behind the id.  length is the size of *)
(* the buffer, so stale bytes count too.                                   *)
mqtt_get_id(buf, length) ==
    CASE mqtt_get_type(buf) = PUBLISH ->
             IF /\ HasTopic(buf, length)
                /\ mqtt_get_qos(buf) > 0 => DataStart(buf, length) < length
             THEN Read16(buf, DataStart(buf, length)) % Ids ELSE 0
      [] mqtt_get_type(buf) \in Ack ->
             IF length >= 4 /\ At(buf, 1) < Radix THEN Read16(buf, 2) ELSE 0
      [] OTHER -> 0

-------------------------------------------------------------------------------
(* The client. *)

MsgInit == /\ message_id = 0
           /\ out = <<>> /\ asked = [call |-> "none"]
           /\ sent = NULL /\ delivered = NULL

Unread == sent' = NULL /\ delivered' = NULL

(* mqtt_msg_init() clears no more than the size of a pointer: message_id   *)
(* goes on over sessions.                                                  *)
mqtt_msg_connect(id, will, user, password) ==
    /\ out' = Packet(ConnectBody(id, will, user, password, 1), Header(CONNECT, 0, 0))
    /\ asked' = [call |-> "connect"]
    /\ UNCHANGED message_id /\ Unread

mqtt_msg_publish(topic, data, qos) ==
    /\ out' = Packet(PublishBody(topic, data, qos), Header(PUBLISH, qos, 0))
    /\ message_id' = IF qos > 0 /\ Fits(String(topic)) THEN NextId ELSE message_id
    /\ asked' = [call |-> "publish", qos |-> qos]
    /\ Unread

mqtt_msg_subscribe(topic) ==
    /\ out' = Packet(Word16(NextId) \o String(topic) \o <<0>>, Header(SUBSCRIBE, 1, 0))
    /\ message_id' = NextId
    /\ asked' = [call |-> "subscribe"]
    /\ Unread

(* The type is SUBSCRIBE in the code. *)
mqtt_msg_unsubscribe(topic) ==
    /\ out' = Packet(Word16(NextId) \o String(topic), Header(SUBSCRIBE, 1, 0))
    /\ message_id' = NextId
    /\ asked' = [call |-> "subscribe"]
    /\ Unread

mqtt_msg_disconnect ==
    /\ out' = Packet(<<>>, Header(DISCONNECT, 0, 0))
    /\ asked' = [call |-> "disconnect"]
    /\ UNCHANGED message_id /\ Unread

mqtt_msg_pingreq ==
    /\ out' = Packet(<<>>, Header(PINGREQ, 0, 0))
    /\ asked' = [call |-> "ping"]
    /\ UNCHANGED message_id /\ Unread

(* append_message_id() *)
IdFor(id) == IF id = 0 THEN NextId ELSE id

Acknowledge(type, qos, id) ==
    /\ out' = Packet(Word16(IdFor(id)), Header(type, qos, 0))
    /\ message_id' = IF id = 0 THEN NextId ELSE message_id
    /\ asked' = [call |-> "ack", type |-> type]

(* deliver_publish() copies topic and data, however long they are, and     *)
(* reads the copies as texts that end with a zero.  It goes wrong when one *)
(* does not fit with its zero, and when one was not found: what is copied  *)
(* then is length bytes from address 0.  (The further copy of each to      *)
(* ota_host, which nothing reads, stays within sysCfg for texts that fit.) *)
Undefined == [topic |-> NULL, data |-> NULL]
Copied(text) == text # NULL /\ Len(text) < TextSize

deliver_publish(message, length) ==
    LET topic == mqtt_get_publish_topic(message, length)
        data == mqtt_get_publish_data(message, length)
    IN  IF Copied(topic) /\ Copied(data) THEN [topic |-> topic, data |-> data] ELSE Undefined

(* mqtt_tcpclient_recv() in MQTT_DATA: the segment goes to the beginning   *)
(* of in_buffer, the rest of which keeps what was there.                   *)
Receive(segment) ==
    /\ Len(segment) \in 1 .. MQTT_BUF_SIZE - 1
    /\ \E left \in Stale :
        LET in_buffer == segment \o Text(MQTT_BUF_SIZE - Len(segment), left)
            type == mqtt_get_type(in_buffer)
            qos == mqtt_get_qos(in_buffer)
            id == mqtt_get_id(in_buffer, MQTT_BUF_SIZE)
        IN  /\ CASE type = PUBLISH /\ qos = 1 -> Acknowledge(PUBACK, 0, id)
                 [] type = PUBLISH /\ qos = 2 -> Acknowledge(PUBREC, 0, id)
                 [] type = PUBREC -> Acknowledge(PUBREL, 1, id)
                 [] type = PUBREL -> Acknowledge(PUBCOMP, 0, id)
                 [] type = PINGREQ -> /\ out' = Packet(<<>>, Header(PINGRESP, 0, 0))
                                      /\ asked' = [call |-> "ping"]
                                      /\ UNCHANGED message_id
                 [] OTHER -> UNCHANGED <<message_id, out, asked>>
            /\ delivered' = IF type = PUBLISH
                            THEN deliver_publish(in_buffer, Len(segment)) ELSE NULL

(* What follows an undefined step: the program goes on, or the exception   *)
(* of the processor starts it over.                                        *)
Restart == /\ delivered = Undefined
           /\ message_id' = 0 /\ out' = <<>> /\ asked' = [call |-> "none"]
           /\ Unread

-------------------------------------------------------------------------------
(* The broker: a packet of at most two digits of length, cut short by the  *)
(* end of a segment or with another packet behind it.  Without QoS it has  *)
(* no id.                                                                  *)

BrokerBody(topic, data, qos, id) == String(topic) \o (IF qos > 0 THEN Word16(id) ELSE <<>>) \o data
BrokerAck(type, id) == fini_message(Word16(id), Header(type, IF type = PUBREL THEN 1 ELSE 0, 0))
Behind == {<<>>, <<Header(PINGRESP, 0, 0), 0>>}

ReceivePublish(topic, data, qos, id) ==
    LET body == BrokerBody(topic, data, qos, id)
        packet == fini_message(body, Header(PUBLISH, qos, 0))
        Came(segment) == /\ Receive(segment)
                         /\ sent' = [type |-> PUBLISH, topic |-> topic, data |-> data,
                                     whole |-> Len(segment) >= Len(packet)]
    IN  /\ Len(body) < Radix * Radix
        /\ qos = 0 => id = 1
        /\ \/ \E next \in Behind : Came(packet \o next)
           \/ \E n \in 1 .. Len(packet) - 1 : Came(SubSeq(packet, 1, n))

ReceiveAck(type, id) == /\ Receive(BrokerAck(type, id))
                        /\ sent' = [type |-> type, id |-> id]

ReceivePing == /\ \E type \in {PINGREQ, PINGRESP} : Receive(<<Header(type, 0, 0), 0>>)
               /\ sent' = NULL

(* Without a will, or with one that has a text or none. *)
Wills == {[topic |-> <<>>, message |-> <<>>, qos |-> 0, retain |-> FALSE],
          [topic |-> Text(1, 1), message |-> <<>>, qos |-> 0, retain |-> TRUE],
          [topic |-> Text(1, 1), message |-> Text(1, 2), qos |-> 1, retain |-> FALSE]}

(* The client has no will and uses neither unsubscribe nor disconnect; it  *)
(* has a user and a password or neither.                                   *)
Build == \/ \E n \in Topics, u \in {0, 1}, will \in Wills :
                mqtt_msg_connect(Text(n, 1), will, Text(u, 1), Text(u, 1))
         \/ \E n \in Topics, m \in Payloads, qos \in 0 .. 2 : mqtt_msg_publish(Text(n, 1), Text(m, 2), qos)
         \/ \E n \in Topics : mqtt_msg_subscribe(Text(n, 1)) \/ mqtt_msg_unsubscribe(Text(n, 1))
         \/ mqtt_msg_disconnect
         \/ mqtt_msg_pingreq

FromBroker == \/ \E n \in Topics, m \in Payloads, qos \in 0 .. 2, id \in {1, Ids - 1} :
                    ReceivePublish(Text(n, 1), Text(m, 2), qos, id)
              \/ \E type \in Ack, id \in 1 .. Ids - 1 : ReceiveAck(type, id)
              \/ ReceivePing

MsgNext == Build \/ FromBroker \/ Restart
MsgSpec == MsgInit /\ [][MsgNext]_msgvars

-------------------------------------------------------------------------------
(* Properties. *)

(* What a receiver takes for the length of a packet is its length, on both *)
(* sides of the boundary between one digit and two, and no packet is       *)
(* longer than the buffer it was built in.                                 *)
LengthAgrees ==
    out # <<>> => /\ mqtt_get_total_length(out, Len(out)) = Len(out)
                  /\ Len(out) <= MQTT_BUF_SIZE

(* The offset of the id in a packet that carries one. *)
IdAt(packet, call) == IF call = "subscribe" THEN LengthEnd(packet, Len(packet))
                      ELSE TopicEnd(packet, Len(packet))
CarriesId(call) == \/ call.call = "subscribe"
                   \/ call.call = "publish" /\ call.qos > 0

(* A packet that waits for an acknowledgement carries an id that is not 0  *)
(* and not the one before, over failures, sessions and the wrap of the     *)
(* counter.                                                                *)
IdFresh ==
    [][Build /\ CarriesId(asked') /\ out' # <<>> =>
         Read16(out', IdAt(out', asked'.call)) \notin {0, message_id}]_msgvars

(* The answer to a PUBREC or PUBREL carries its id.  (That to a PUBLISH    *)
(* does not: mqtt_get_id() takes the first two bytes of the data; but the  *)
(* client subscribes with QoS 0.)                                          *)
AnswersId ==
    sent # NULL /\ sent.type \in {PUBREC, PUBREL} =>
        mqtt_get_id(out, Len(out)) = sent.id

(* A message whose topic and data fit the buffers of deliver_publish() and *)
(* that came in whole is delivered as it was sent, whatever is behind it   *)
(* in the segment or the buffer.  Of another one the topic and a beginning *)
(* of its data are delivered, unless the copy is undefined: nothing is     *)
(* promised for longer texts, nor for messages without data, of which the  *)
(* reader finds neither topic nor data.                                    *)
DeliveredAsSent ==
    sent # NULL /\ sent.type = PUBLISH =>
        /\ /\ sent.whole /\ sent.data # <<>>
           /\ Copied(sent.topic) /\ Copied(sent.data)
           => delivered = [topic |-> sent.topic, data |-> sent.data]
        /\ delivered # Undefined =>
               delivered.topic = sent.topic /\ IsPrefix(delivered.data, sent.data)

(* The two together: what the broker sends is understood, as far as the    *)
(* texts of its messages fit.                                              *)
ReadAsSent == AnswersId /\ DeliveredAsSent
===============================================================================
