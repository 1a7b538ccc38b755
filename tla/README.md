# esp_brewpi in TLA+

esp_brewpi runs on an ESP8266 and controls the temperature of fermenting beer: it measures with
DS18B20 sensors on a 1-Wire bus, computes a PID output, switches a compressor and a heater, takes
settings from an MQTT broker and uploads the temperature over HTTP once a minute. These modules model
the program, TLC checks them on small instances, and TLAPS proves for all values of the constants the safety of the controller,
of the whole system around it, of the sensor cycle, the bus search, the MQTT client and its packets, the uploads, the display and
its bus, the PID library and the encoder. Everything is translated from the code; the line numbers of every
definition are in `PROJECT.json`.

## Inventory

| component | state | operations | modelled in |
|---|---|---|---|
| controller, `user/beerctrl.c` | `b` (mode, setpoint, gains, integral, output, last time and error), PWM counter `cnt` | `BCTRL_Init`, `BCTRL_Set*`, `BCTRL_ReportNewReading`, `BCTRL_Trigger`, `setFridge` | `BeerCtrl`, `PwmWindow` |
| relays, `user/cooler.c`, `user/heater.c`, `driver/gpio16.c` | levels of GPIO16 and GPIO2, both active low | `*_init`, `*_setState` | `BeerCtrl`; abstractly `Fridge` |
| timer callback, `user/user_main.c` | `state`, `cnt` of `timer_cb` | one turn a second: scan, or convert, or read, report, upload and trigger | `SensorCycle`, `Brewpi` |
| DS18B20 driver, `driver/ds18b20.c` | `addrs`, `num_sensors`, `t` | scan, convert all, read all, get temperature | `SensorCycle` |
| 1-Wire driver, `driver/onewire.c` | `LastDiscrepancy`, `LastDeviceFlag`, `address`; the pin | reset, search, select, read, write, CRC | `OneWire` (search), `OneWireSlots` (pin and times), `Crc8` |
| MQTT client, `user/mqtt.c` | `connState`, `pCon`, `topic_idx`, one outbound message, counters | `MQTT_Task`, two timers, `MQTT_Pub`, the callbacks of the TCP stack and the resolver, `deliver_publish` | `MqttConn`; abstractly `MqttSession`; settings in `Brewpi` |
| MQTT packets, `user/mqtt_msg.c` | a buffer each way, the message id | build and parse packets | `MqttMsg` |
| HTTP client, `user/httpclient.c` | a heap object per request | request, DNS, connect, sent, receive, disconnect, error callbacks; taking an URL apart | `HttpClient`, `Texts` |
| conversions, `user/utils.c` | none | addresses from text, temperatures to text | `Texts` |
| display, `user/display.c`, `driver/i2c_oled.c` | what stands on the screen | an event per field, `OLED_Print` | `Display`; the truth of the fridge state in `BeerCtrl` |
| I2C bus, `driver/i2c.c` | levels of two pins | init, start, stop, write a byte, look for its acknowledgement | `I2c`, with `OLED_writeReg` |
| PID library, `user/pid.c` | one struct per controller | compute, tunings, limits, mode, direction | `Pid` |
| rotary encoder, `user/rotary.c` | `armed`, `dir` | the interrupt handler | `Rotary` |
| configuration, `user/config.c` | `sysCfg` | fills in compile-time defaults (saving is compiled out) | the constants of the models |

How they interact: the timer callback calls the DS18B20 driver, passes what it reads to the controller,
starts an upload at the end of a cycle and calls `BCTRL_Trigger` on every tick but the last of a cycle.
The controller writes the relay pins and tells the display, which draws over I2C. `mqtt.c` delivers
settings to the controller from the receive callback of the TCP stack, and every reading is published
through its single outbound slot. All of this shares one processor: timers, task and callbacks run to
completion and never preempt one another, so an action of the models is a handler. The exceptions are
noted where they matter: the pins of the relays and of both buses are seen by the hardware between two
statements, a reset may fall there, interrupts lengthen the busy waits of the 1-Wire driver, a 1-Wire
search goes on while sensors are plugged in and out, and the rotary encoder turns while its handler
reads it. The PID library is not called by the program, and the rotary encoder belongs to a
configuration (`CONFIG_VIRT_SENSOR`) that is off.

### What is hard, and what makes each part correct

* Two relays that must not be on together, written one after the other, with resets in between.
* A PWM whose counter is never synchronised with the output it serves: it must give the share asked for anyway.
* A clock that wraps every 71 minutes, divided before it is subtracted, and a division by the difference.
* A cycle of turns whose counter is tested in only one of them.
* A bus search that remembers a branch of an address tree while devices come and go, in a loop that
  counts only some of what it finds: a quiet bus must be listed completely, any scan must end.
* Time slots made of busy waits, against a device with times of its own, and a CRC to fall back on.
* A connection state machine spread over a task with a queue of one, two timers and seven callbacks
  that all use one global pointer, whatever connection they are called for: no block is leaked or used
  after free, each session runs in order, and the client comes back.
* Packets whose length field has two forms, cut by the end of a segment.
* Requests that own up to seven heap objects and may fail at every point: one answer each, nothing freed twice.
* A panel that hears a START or a STOP in every change of one line while the other is high.
* A display in which nothing is wiped before it is drawn over.
* An encoder handler that clears its interrupts before it reads two pins, one after the other.

`PROJECT.json` lists each hazard at its line, with the properties that watch it.

## Modules

    Fridge        what the relays promise: break before make, follow the last request
    BeerCtrl      the controller, setFridge() one device write at a time       implements Fridge
    PwmWindow     BeerCtrl and a history of its PWM windows                    extends BeerCtrl
    SensorCycle   timer_cb, the DS18B20 driver, the bus and its sensors
    SensorWatch   SensorCycle and a history of its ticks                       extends SensorCycle
    OneWire       the search of the bus, bit by bit, and the scan loop         justifies ds18b20_scan of SensorCycle
    OneWireSlots  reset, bits and bytes in microseconds, with a device         justifies the bits of OneWire
    Crc8          the CRC over what was sent and what was heard                justifies the CRC of both
    Brewpi        controller, timer, clock, settings and restarts together     composes BeerCtrl and SensorCycle
    MqttSession   what the client promises a broker
    MqttConn      the MQTT client as a connection state machine                implements MqttSession
    MqttMsg       the packets of that client, byte by byte                     detail of MqttConn, whose packets are types
    HttpClient    the life of an upload
    Texts         addresses, URLs and temperatures as text
    Display       what stands on the screen
    I2c           a register of the panel, written one line level at a time    detail of Display
    Pid           the PID library
    Rotary        the interrupt handler of the encoder, and its knob
    BeerCtrlProofs, PwmWindowProofs, SensorProofs, OneWireProofs, BrewpiProofs, MqttConnProofs, LibraryProofs, BusProofs
                  theorems and their proofs: SensorProofs is about SensorCycle and SensorWatch, LibraryProofs about HttpClient,
                  Texts, Pid, MqttMsg, Display and Rotary, BusProofs about I2c and OneWireSlots, each other one about the module it is named after
    MC...         instances for TLC, with their .cfg files

**BeerCtrl.** `b` is the struct of the code; `call` and `pc` say which `setFridge()` runs and how far it
is. Each handler is one action up to its call of `setFridge()`, and `Write` then executes one statement
of it: a pin, the other pin, the event for the display. `Reset` may come between any two. GPIO16
belongs to the RTC block, so its level may or may not survive a reset; GPIO2 does not. Integers are
words of `Word` values (`Int32`), and division truncates towards zero (`Quotient`). Limits are
±`PERIOD`, as `BCTRL_SetLimits` is called by `BCTRL_Init` only. COOLER_init and HEATER_init write the
levels that the first `setFridge(OFF)` writes again; the model has the second write only.

**Fridge** abstracts this to what the relays do and what was last asked for. `FridgeSpec` says that
`BeerCtrl` implements it, including that a request is eventually followed.

**SensorCycle.** `report`, `trigger` and `upload` are the calls a callback makes. The bus may be disturbed
or shorted, sensors may be plugged in and out and lose their scratchpad. A read returns the scratchpad,
or fails its CRC (absent, disturbed), or is all zeros with a correct CRC (shorted). A scan is a relation between the bus and the table
it leaves: on a sound bus `Complete`, the sensors in the order of the search as far as there are slots, else some sequence of sensors that are there.

**OneWire.** One action per address bit. `talking` are the devices that still take part. The CRC is
the set of addresses that pass it; that it tells addresses which differ in one bit is an assumption here
and what `Crc8` shows. A disturbance pulls the wire low, for one bit of a search or for the rest of the
scan. `SensorCycle` uses what this module shows: a scan of a quiet bus gives the known devices in search
order (`ScanComplete`); with disturbed bits it gives some sequence of devices that are there (`OnlyThere`).
Both are proved for addresses of any length.

**OneWireSlots.** Each function of the driver is the sequence of its statements, `statements` what is left
of the one that runs. `age` is the time since the line fell, the only clock a device has; `late` is what
interrupts have added to it in this slot, up to `Late`; `disturbed` that one since the last reset pulse took more than `Margin` longer. The device (external) holds the line for a 0,
samples a bit and answers a reset at times of its own, fixed but anywhere in its ranges. Calls come in
the order of the drivers: reset, commands, then what the last command asks for. A write without power
leaves the pin driven low, which begins the first slot of the next call.

**Crc8.** A register is the set of its bits that are 1, and a bit is shifted into two registers, one of
what was sent and one of what was heard. `flips` and `since` bound the error: two bits anywhere in a
frame of 72, or any bits within 8.

**Brewpi** drives the controller with the callback. The only reader of the clock is the callback, so the
clock is the time of the last callback, late by up to `Jitter`. A callback that calls the controller
twice does so in two steps, with `due` keeping others out. `DivideByZero` is the exception of a reading
in the same second as the last one, and is a restart.

**MqttConn.** The callbacks take the block `c` of the connection they are called for, and work on `pCon` as the code
does; `fault` records a use or a second free of a block that is not allocated. `forgot` records that
`wifi_check_ip` left a connection because its Wi-Fi link failed, which is the one way for the stack and
the client to disagree on the current block. Packets are their type. The queue of the task holds one event.
`espconn_sent` reaches the broker while the connection is open. A segment may carry several packets, of which the code looks at the
first (`mqtt_tcpclient_recv`), or have `MQTT_BUF_SIZE` bytes or more and be ignored as a whole (`mqtt_tcpclient_recv_long`); the packets that may be so long are `Long`. `mqttConnectCouter` has no effect in the code and is left out.

**MqttSession** knows neither blocks nor timers nor the states of the program: a connection is greeted
once, topics are subscribed to from some first one to the last without a gap, then messages flow, and a
connection that stays does not stand still before that (`Progress`; without it the specification is `SSafety`). The mapping takes its `phase`, `first` and `subscribed` from
what has gone over the open connection, and from `connState` only whether messages flow. That the first topic need not
be topic 0 is what `mqtt_topics` shows to be wrong.

**MqttMsg.** Lengths, offsets and ids are those of the code, texts are runs of one byte. Bytes have `2 * Radix` values and the
digits of a length `Radix`, so that a small buffer has the boundaries of a large one; header and flag bytes keep their values. `out` is the packet
built last and `asked` the call that built it, `sent` and `delivered` what the broker sent in the last segment and what `deliver_publish`
made of it. Topic and data are copied there into buffers of `TextSize`, 100 in the code, without a look at their lengths: what does not fit, or was not found, makes `delivered`
`Undefined`, after which the model goes on as if nothing had happened or starts over (`Restart`). `Receive` puts a segment at the beginning of `in_buffer` and `Stale` behind it; `mqtt_get_id` is called with the size of the
buffer, so it may read that, the others with the length of the segment. Packets the client does not use (unsubscribe, disconnect, a will) are built as well. Ids of SUBACK and UNSUBACK are only logged and left out.
`mqtt_msg_init` clears the first word of the struct (`sizeof` of a pointer), so the message id goes on from session to session.

**HttpClient.** A request has a phase and the set of objects it owns; `cut` is the zero that
`receive_callback` writes at the start of the buffer when it discards the response. Of the allocations only the one that `receive_callback` checks may fail;
`http_raw_request` and `dns_callback` use what `os_malloc` returns as it is (lines 194, 197, 216, 222), and are assumed to get what they ask for.

**Texts.** A text is a sequence of tokens: a run of digits with its value, a sign, a letter. `UTILS_StrToIP` is a fold over them, as the code
goes through its characters once; `http_post` looks for the first slash and the first colon. The texts grow by a token a step. That `http_post` copies the host without a bound into `hostname[128]` is left out: the only URL of the program is a constant that fits.

**Display.** The screen maps the cells that were drawn on to marks: the place of a character in the text of a field. Where a text goes and how long it is
come from the code, what it says does not matter. One action per event.

**I2c.** `lineops` are the writes and reads of lines that the running call of `i2c.c` has left. The panel (external) sees two
levels and follows the I2C rules; it may be plugged in and out and knows nothing of a reset of the chip, in which both lines float up, in either order.

**Pid.** Numbers are integers and the gains such that no division leaves a remainder. What the code takes from the clock is the time since the last computation.

**Rotary.** `knob` counts quarters of a click and may move, either way, between any two accesses of the handler to a register.

## Runs

| run | asks | bounds | distinct states |
|---|---|---|---|
| `controller` | interlock, truthful display, refinement of `Fridge`, duty cycle and starts in any window of one period, output served; all operations in any order | period 6, dead band 1, two setpoints, two readings, 4-bit words | 152,735 |
| `sensor` | the callback over a bus that fails: what is reported, cadence of triggers and uploads | two sensors and a foreign device, scan every 4 ticks, two temperatures | 306,380 |
| `buses` | completeness, order and end of a scan; slots and bytes understood by both sides for every timing; errors the CRC tells; writes to the panel over its plug and resets | search: 4-bit addresses, 5 devices, 3 on the bus, 2 slots; slots: bytes of 3 bits, device times at both ends of their ranges, up to 3 µs of interrupts a slot; CRC: 8 bits, frames of 72; I2C: bytes of 3 bits, two registers, three values | 556,339 |
| `brewpi` | the system: use of the controller, dt, division by zero, warm beer is cooled | one sensor, clock of 9 half seconds, callback half a second late | 412,664 |
| `brewpi_wrap` | violation: integral after a wrap | as `brewpi` | |
| `mqtt` | control blocks, task queue and keep-alive, Wi-Fi and resolver failing | two blocks, two topics, keep-alive 2, Wi-Fi over after 2 failures, 1 packet under way, of the types the client answers and one it does not expect, in segments of both sizes | 5.6 million |
| `mqtt_live` | refinement of `MqttSession`, recovery | an address, stable Wi-Fi, three topics, keep-alive 1, 3 packets under way, no segment beyond the buffer | 186,950 |
| `mqtt_dns`, `mqtt_topics` | violations, below | a host name; an address | |
| `library` | packets, uploads, texts, display, PID, encoder | below | 119,632 |
| `http_error` | violation, below | two uploads of three segments, two of which fit | |
| `temp_text` | violation, below | -2 to 12.5 degrees in sixteenths | |

`buses` and `library` hold several parts that share no variable; `part` says which one moves, and each behaviour is of one part while the
others stay where they begin. Their states therefore add up and do not multiply, and each property is about its part alone.

The bounds of `library`. MqttMsg: digits of 4 values, a buffer of 18 bytes, texts of 4 bytes with their zero, 3 ids, topics of 1 and 13 bytes, data of 0, 1, 3 and 10. HttpClient: two
overlapping uploads, three segments, two of which fit. Texts: up to 7 tokens, with numbers on both sides of 255 and ports with and without 0; temperatures from -2
to 12.5 degrees. Display: a KP of 2, 4, 5 and 6 characters (whole in its row, the last that fits, cut off by the edge of the panel, on the next page), the shortest and the longest temperature. Pid: three inputs, two outputs set by
hand, two sets of gains and one that is refused, three pairs of limits, one or two time units. Rotary: no bound but the four quarters of a click.

Why the bounds are enough. A PWM period of 6 has both dead bands and a proper middle; longer ones add
positions of the same kind, and the interlock does not depend on it (and is proved). 4-bit words let the arithmetic
of a reading leave the word, which needs no more than one reading. A scan cycle of 4 ticks has two read
turns, so it passes its limit in the turn that does not test it. With three devices on the bus and four bits a scan backs out of two branches; two slots are the code's.
What the bits of a byte are does not matter to the slots, only which bit is first, last or after which other one. The times
of a device enter by comparisons, so that the ends of their ranges are enough. The CRC is checked as it is, at its full width and length. In `I2c`
no two bytes of a message are alike, so that one in the place of another would be noticed.
The clock of `Brewpi` wraps within a few ticks, so a wrap, two wraps and an
outage that spans one all happen. Two control blocks suffice to confuse the current one with an older one; the third failure of
a connection is the second pass of the counter. Three topics are a first, a last and one between them.
The texts of `MqttMsg` give packets of every kind of length: one digit, the last of one digit, the first of two, the last that fits the buffer, and too
long; each packet is received cut at every place and with another one behind it. Data of 3 bytes is the longest that fits the buffers of `deliver_publish`; that of 10 and the topic of 13 overrun them. 3 ids wrap within a few packets.
Two uploads share only the heap, and the model keeps their objects apart. An address is 7 tokens.

`MQTT_Task` is assumed to run within the second between two ticks of `mqtt_keepalive` (guard `~posted`); a single
packet under way per direction in `mqtt` (`MaxDown`) is relaxed in `mqtt_live`. Interrupts are not bounded by the driver.
`read_bit` samples 13 µs after the line fell, and a device need not hold a 0 longer than 15, so that a slot has room for one microsecond (`Margin`) and no more. In `buses` they take up to
three: `SlotsUnderstood` and `NoContention` promise nothing once a slot was longer than the margin, and everything again from the next reset pulse on.

### Fairness

* `BeerCtrl`: `Write` (a function that runs goes on) and `BCTRL_Trigger` (a periodic timer).
* `Brewpi`: the timer, the second call of a handler, the device writes. Settings, bus events and restarts are not
  fair; `WarmBeerCooled` is about executions in which restarts end.
* `OneWire`, in `buses`: the loop of a scan. The bus need not come to rest; `ScanEnds` says what follows if it does.
* `MqttConn`: the task when posted, both timers, the receive callback, and that a connection attempt or query, or a connection the client
  has asked the stack to close, ends one way or the other (`Settle`). What a broker sends of itself, the access point and the loss of
  connections that are open are not fair: a client that stands still on a connection which stays violates `Progress` and `Recovers`. `Progress` of `MqttSession` and `Recovers` rest on a broker that answers each CONNECT and SUBSCRIBE that reaches it (`Arrives`): the code
  has no timer for the answers and waits for ever for one that does not come on a connection that stays. It does the same when an answer comes in a segment of `MQTT_BUF_SIZE` bytes
  or more, which is ignored (`mqtt.c:288`); so `Long` is empty in `mqtt_live`, and only there and in the two runs that show violations.
* `HttpClient`, in `library`: an answer, or a failure, of the stack for each request under way.

### What the violations show

* `brewpi_wrap`: `beerctrl.c:131` divides the 32-bit microsecond clock before it subtracts; when it wraps, dt
  is about -4294 s and one reading drives the integral against the error to its limit. The first reading after boot has
  the same effect, as `beerctrl.c:70` stores microseconds in `lasttime`; `DtMeasured` leaves both out, and
  `WarmBeerCooled` shows that the controller recovers.
* `mqtt_topics`: a session that ends between two SUBACKs leaves `topic_idx`, and the next one subscribes only to the later topics.
* `mqtt_dns`: when the resolver knows the name `espconn_gethostbyname` returns at once without a callback; `mqtt.c` waits
  for it in DNS_RESOLVE. `httpclient.c` handles the same case.
* `http_error`: a connection that fails after the status line is reported with the status of that line, not
  with `HTTP_STATUS_GENERIC_ERROR`.
* `temp_text`: below zero the whole part is rounded down and printed with its own sign behind the other one, and the fraction counts
  up from there: -0.5 degrees is written as `--1.50`.

Seen on the way and not stated as properties:

* MQTT: the callback of a connection forgotten by `wifi_check_ip` frees the block of the next one; publications and acknowledgements share one
  slot and may be lost; `mqtt_get_id` takes the first two bytes of the data of a PUBLISH for its id (the client subscribes with QoS 0, so its
  broker sends none that needs an answer); an empty payload at the end of a segment gives no topic, and `deliver_publish` copies from a null pointer;
  texts of 100 bytes or more overrun its buffers on the stack; `mqtt_msg_unsubscribe` builds a SUBSCRIBE, and
  `mqtt_msg_connect` writes the QoS of a will one bit too high (neither is used). The text of `MQTT_Pub` has 50 characters besides its numbers, and its buffer 64
  with the zero at the end: five numbers of more than 13 characters in all, as an error of -160 with integral and output at -256 has, do not fit.
* HTTP: a failed name query leaks the strings of its request.
* Sensors: a reset of the sensor between convert and read reports its power-on value of 85 degrees, and a shorted bus 0 degrees.
* 1-Wire: `onewire_write` without power lets go of the pin and then sets its level, which enables the output again, so the line is driven low and not left floating.
* Display: KP 16 after KP 160 reads 160, as nothing is wiped; a KP of five characters is cut off by the edge of the panel, and the sixth goes on to a page that it does not have; the texts of Wi-Fi and MQTT
  stay when the connection is lost; `DISPLAY_EVENT_TEST` is never sent.
* Texts: a name such as 1.2.3.example.com is taken for the address 1.2.3.0. The value of a run of digits that exceeds an int is not modelled.
* PID: a direction set in MANUAL leaves the gains with the old sign; the time in MANUAL is integrated in the first computation after it; `PID_SetMode`
  initialises also when it leaves automatic mode.
* Rotary: a click that turns back from its middle is reported to the other side; edges that come together with the button are dropped.

## Proofs

`BeerCtrlProofs` proves, for every period, dead band, word size, set of gains, setpoints, readings and times that meet the
assumptions named in `BeerCtrl`:

| theorem | states |
|---|---|
| `TypeCorrect` | `Spec => []TypeOK`: output and integral never leave the limits, whatever overflows on the way |
| `RelayCorrect` | `Spec => []RelayInv` |
| `InterlockCorrect` | `Spec => []Interlock` |
| `DisplayCorrect` | `Spec => []DisplayTruth` |
| `FridgeRefined` | `Spec => FridgeSafety`: the relays open before they close |

`Interlock` is not inductive: from a state in which the heater is on and the next statement switches the cooler on it would be lost. `RelayInv`
adds what the pins are known to be at each statement of `setFridge()`: after the first one the relay that must be off is off, after the second
both are as asked for. `WriteEffect` works out what one statement does (from `Statements`, the three sequences written out), `RelayStep` goes
through the actions, and the theorems follow. `TypeCorrect` rests on `ClampRange`, `Int32Type` and `QuotientType`. The refinement uses
both invariants: from them a write maps to `Open`, `Close` or a stutter, a call to `Ask` and a reset to `Restart`.

`PwmWindowProofs` adds `DutyCorrect`, `WSpec => []DutyExact`. `WindowInv` says that the window so far holds as many triggers on as the duty asks for
of the positions the counter has gone through (`OnWithin`, which counts them in closed form), and when it can have seen a start. One more slot adds
what `Demand` gives at its position (`OneMore`), and a full window holds the duty wherever it began (`FullWindow`). The proof uses `DEADBAND <= PERIOD`
(256 and 10 in `beerctrl.c`).

`BrewpiProofs` proves that these hold in the running system, for every clock, jitter, set of payloads and bus.

| theorem | states |
|---|---|
| `ControllerRefined` | `BSpec => ControllerSpec`, which is `Spec` of `BeerCtrl` |
| `SystemSafe` | `BSpec => [](TypeOK /\ Interlock /\ DisplayTruth)` |
| `DivisionSafe` | `BSpec => NoDivideByZero` |
| `DtCorrect` | `BSpec => DtMeasured` |

`ControllerRefined` needs only the types of clock and sensors: a time is in `Seconds`, the word that is left of a payload is a setpoint (`Narrowed`), a report is a reading. For the other two
`ReadingInv` ties `lasttime` to the time that has gone by: unless the clock has come around, it is the second of the clock `gap` ago, and when a read turn is due
a convert turn has gone by since. A division by zero then takes readings that far apart that the clock is back within a second (`NoDivideByZero` gives the bound,
with the lateness of both callbacks), and `DtMeasured` is the rounding of two times to seconds (`DivRange`).

`SensorProofs` is about the callback and its driver, for any bus, number of slots and `DS18B20_SCAN_CNT` from 2 on.

| theorem | states |
|---|---|
| `STypeCorrect` | `SSpec => []STypeOK`: the counter that one turn tests stays within the cycle, and the rest keeps its type |
| `LostSensorCorrect` | `WatchSpec => []LostSensorSilent` |
| `SettledSensorCorrect` | `WatchSpec => []SettledSensorRead` |
| `CadenceCorrect` | `WatchSpec => Cadence` |

`STypeOK` needs to know which turn comes at which count: before a convert turn the counter is below the limit, and only the read turn after it may pass that (`Turns`). `SettledInv` follows the table and the scratchpad: a bus that
has been left alone for a cycle has been scanned since, its table is `Complete`, and on a sound wire a read turn has reported what the first sensor of the table holds.
The first of a complete table is the first sensor on the bus (`FirstOfTable`). `QuotaInv` says the ticks since the last upload cover those of the cycle.

`OneWireProofs` proves the search, for addresses of any length, any set of devices that are no bit apart (what a CRC gives) and any number of slots.

| theorem | states |
|---|---|
| `ScanCorrect` | `OSpec => []ScanComplete` |
| `OnlyThereCorrect` | `OSpec => []OnlyThere` |

An induction over the tree of addresses is not needed, because `OInv` says of each device where it stands to the search. Within a search (`Walking`)
it takes part, that is, agrees with the address so far; or it has been passed, as it parts from the address at a 1; or it turns off at a 0, the last such place being
`last_zero`. Between searches (`Between`) it is at or before the address that was found, or turns off from it at `LastDiscrepancy` at the latest, and somebody does there; the slots
hold the known devices at or before the address. One bit sends each device from one of these cases to another (`TreeStep`), so when nothing turns off any more everything has
been found. `Heard` is what a disturbance leaves: once a wrong bit has silenced everybody, some device differs from the address in one bit, which the CRC refuses.

`MqttConnProofs` is about the client, for any number of blocks, topics and failures and every keep-alive.

| theorem | states |
|---|---|
| `MTypeCorrect` | `MSpec => []MTypeOK` |
| `TaskKept` | `MSpec => []TaskNotLost` |
| `KeepAliveCorrect` | `MSpec => []KeptAlive` |
| `BlocksKnown` | `MSpec => []BlockInv` |
| `NoStaleBlockCorrect`, `OneBlockCorrect` | `MSpec => []NoStaleBlock`, `MSpec => []OneBlock` |
| `SessionKept` | `MSpec => [][~forgot' => SessionStep]_mvars`: until Wi-Fi fails under a connection each step is one of the abstract session, or none |
| `SessionRefined` | `~WifiDrops => (MSpec => SessionSafety)`: while the access point stays, the safety of `MqttSession` |

`NoStaleBlock` and `OneBlock` say nothing of callbacks to come. `BlockInv` does: the states of `connState` fall into those in which no block is allocated and those
in which `pCon` is, and the stack knows no block but that one. It is what breaks when `wifi_check_ip` leaves a connection behind, hence the condition `~forgot`. `SessionInv` says what a connection
has carried at each state of the client (`InOrder`): which topics it was subscribed to from `topic_idx` on, and that nothing precedes the greeting. From both, a step maps to a step of
`MqttSession` or a stutter. `PingInv` compares the silence the broker has heard with the tick of the client, in the state that counts it and with the slot full or empty.
`SessionRefined` adds that a stable access point never makes the client forget (`WifiInv`).

`LibraryProofs` holds six components that do not touch one another. For the uploads: any number of requests, any size of buffer and response, any callback failing, and the allocation of `receive_callback` too.

| theorem | states |
|---|---|
| `RequestsSound` | `HSpec => []HInv` |
| `HeapCorrect` | `HSpec => []HeapSound` |
| `AnswerCorrect` | `HSpec => []AnsweredOnce` |

A state in which a callback is due and its object is gone satisfies `HeapSound`, and one in which a part was dropped and the buffer begins with a
status line satisfies `AnsweredOnce` until the connection closes. `HInv` therefore says what a request owns at each point of its life (`HeapByPhase`)
and how a dropped part is marked (`DropMarked`): by the zero at the start of the buffer, or, once something was appended behind that, by a text that
begins in the middle of the response. An action changes one request (`OneRequest`), so there is a lemma for each that its new state is sound. The proofs use no
assumption on the constants.

For the texts, of any length, with the values of their numbers as integers, and for any temperature: `AlwaysConverted`, `TextSpec => []TextsConverted`. The fold of `UTILS_StrToIP` is the last of a
sequence of states, each the one before it with one more token read (`Folded`), and `ReadSoFar` says what the first tokens have come to: unless the text was refused,
each number that is stored ended at a place of its own, the first three at a dot, and the next one began behind the last of those places. It needs that no two numbers of a
text are neighbours (`TextType`): as runs of digits they would be one. `PartsOfUrl` puts the URL together again from the cuts that `http_post` makes at the first colon and the first slash.

For the PID library, all integer inputs, limits and gains without a remainder.

| theorem | states |
|---|---|
| `PidCorrect` | `PidSpec => []PidSound` |
| `BumplessCorrect` | `PidSpec => Bumpless` |

`PidInv` adds to `PidSound` that the limits are an interval (`PID_SetOutputLimits` refuses others) and that from a switch to automatic mode until the first computation the
integral is the output (`Prepared`), also when new limits move both.

For the MQTT packets, any radix from 3 on whose two digits hold the size of the buffer, any size of the buffers of `deliver_publish`, any lengths of texts and any bytes behind a segment.
`AlwaysReadAsSent` is about messages whose topic and data fit those buffers.

| theorem | states |
|---|---|
| `LengthAlwaysAgrees` | `MsgSpec => []LengthAgrees` |
| `AlwaysReadAsSent` | `MsgSpec => []ReadAsSent` |
| `IdAlwaysFresh` | `MsgSpec => IdFresh` |

`MsgInv` says that `out` is nothing or a packet that fits the buffer. `TotalIs` works out what the parser makes of a length of one digit and of two, `LengthEndIs` and
`LengthCut` how far it goes when the segment ends among them, and `PublishRead` follows the parser through a whole PUBLISH, cut anywhere and with another packet behind it; `AckRead`
shows that the id read from an acknowledgement is its own whatever stands behind.

For the display, whatever the lengths of the texts: `FieldsAlwaysShown`, `DSpec => []FieldsShown`. Each field keeps to its own cells, except those the code lets touch; what one event
prints leaves the others as they were (`PrintedOver`).

For the encoder: `KnobAlwaysFollowed`, `RotarySpec => []KnobFollowed`. `KnobInv` relates, at each access of the handler to a register, the knob, the edges that wait
and what the handler has read: a move it has not seen leaves an edge that brings it back.

`BusProofs` proves what both buses carry. The writes to the panel, for bytes of any width and any values:

| theorem | states |
|---|---|
| `I2cInvariant` | `ISpec => []IInv` |
| `WrittenAsSentAlways` | `ISpec => []WrittenAsSent` |
| `BusReleasedAlways` | `ISpec => []BusReleased` |

`IInv` says which of the line operations of a call are left, what the lines are at that point, and what a panel that heard the START has collected: the first bits of the byte, or all of
them and the acknowledgement to come. The operations of a byte are those of its bits one after the other; that `FlattenSeq` gives this takes an induction over their number (`Flattened`). The theorems of the
library for inductions take an operator and cannot be used, but a set of counterexamples has a least element (`SmallestOf`), and that is enough wherever the counterexamples can be named as a set of numbers.

The slots of the 1-Wire bus, for bytes of any width, any bytes and any device whose times are within the data sheet:

| theorem | states |
|---|---|
| `SlotsInvariant` | `WSpec => []SlotsInv` |
| `SlotsAlwaysUnderstood` | `WSpec => []SlotsUnderstood` |
| `NoContentionUndisturbed` | `WSpec => []NoContention` |

Neither property says anything between two statements. `SlotsInv` is `WInv` as long as no slot since the last reset pulse took more than `Margin` longer,
and `Loose` always. `WInv` says at each statement of each call how long ago the line fell, up to the interrupts since then, whether the device has yet to sample or for
how long it still holds the line, and which bits have gone through (`InReset`, `InWrite`, `InTail`, `InRead`, `InDirection`). `WriteProgram` and `ReadingProgram` find the statement of each bit in the
program of a call, by the same `Flattened`; one lemma takes each kind of slot a statement further (`WriteGoesOn`, `ReadGoesOn`). A call may begin in the slot that `onewire_write` left
open (`InTail(3)`): the next one reads that bit or writes it, and a reset waits until the device lets go, which it does long before `Retries` are used up (`AnswersReset`). Beyond the margin device and chip may
take each other's slots for anything. All that `Loose` keeps is the course of a reset (`ResetRuns`): `onewire_reset` pulls the line low when it has seen it high, and from that edge on `WInv` holds again
(`ResetGoesOn`), whatever the device was in the middle of. The proof assumes no bound on interrupts, only `TimesAssumption`:
the ranges of the data sheet, and that a low of 70 µs is no reset as yet and one of 500 is.

The assumptions on the constants are named in the modules and are what the code's own constants meet. That there is a setpoint for each payload and a reading for each temperature
(`Brewpi`) gives the constants of `BeerCtrl` the ranges of the system; that `Devices` is a sequence, that tunings and limits are records of integers are types.

Only model-checked:

* Liveness, which is beyond the prover as it is installed: the liveness half of `FridgeSpec`, `Progress` in `SessionSpec`, `OutputServed`, `WarmBeerCooled`, `ScanEnds`, `Recovers`, `EveryRequestAnswered`.
* `CrcTells`: its constants are those of the code and TLC goes through all of its states.

## Not modelled

* Fonts, bitmaps and the sequence of initial commands of the panel: data. Logging.
* What no one calls: `gpio16_input_*`, `i2c_readByte`, `i2c_send_ack`, `UTILS_IsIPV4`, `UTILS_Atoh`, `http_get`,
  `OLED_Line`, `OLED_DrawBMP`, `OLED_ON`, `OLED_OFF`.
* Saving the configuration and the counter of connection attempts, which are compiled out or without effect, and the virtual sensor of
  `CONFIG_VIRT_SENSOR`, which is off; of that configuration only the encoder is modelled.
* The radio, the resolver, the TCP stack and the rest of the SDK, except for what the code uses of them (external). Build files.

## Plan

Left for later: in `SensorCycle`, which sensor a kept value belongs to after a rescan.
