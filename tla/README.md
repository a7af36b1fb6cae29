# Verification of the IoT gas-leak monitor

TLA+ models, TLC runs and TLAPS proofs for the firmware in `src/` (an ESP32-S3
that measures temperature, humidity and gas, classifies them with a neural
network and drives a buzzer, a relay, LEDs, an LCD, a web dashboard and an MQTT
client) and for the dashboard script in `data/`. Paths below are relative to
the repository; line numbers are those of the modelled commit.

## 1. Inventory

| Component | State it keeps | Operations | Talks to |
|---|---|---|---|
| Shared sensor record (`src/task_sensor.cpp` 67-101, 160-179) | queue of length one with the last `sensor_data_t` | publish (peek score, overwrite), `sensor_get_data` (peek), `sensor_update_score` (peek, overwrite) | every task |
| Sensor acquisition (`task_sensor.cpp` 30-60, 103-158; `lib/DHT20`) | baseline, accumulators, DHT20 bytes and times | warm-up and calibration, one sample a second under the I2C mutex | record, I2C mutex |
| TinyML (`src/task_tinyml.cpp`) | interpreter, predicted class | set-up, classify, write the class back | record |
| UI controller (`src/task_ui.cpp` 319-364) | copy of the record | notify LED, NeoPixel, buzzer, relay; send to the LCD | record, five threads |
| Actuator threads (`task_ui.cpp` 85-308) | notification value, what they drive | take a notification, drive | controller |
| LCD path (`task_ui.cpp` 201-251, 354-361) | stream buffer, last shown record | send with timeout, receive, print under the I2C mutex | controller, sensor task |
| LCD driver (`lib/LCD`) | what it last put on the bus | `begin`, `clear`, `setCursor`, `write` | LCD path, ui_init |
| MQTT library (`lib/PubSubClient`) | socket, `_state`, two activity times, the outstanding ping | `connect`, `connected`, `loop`, `publish`, `readPacket` | CoreIoT client, broker |
| ArduinoJson (`lib/ArduinoJson`) | a document's pool, the text being parsed | `serializeJson`, `deserializeJson` | settings file, web server, CoreIoT client |
| Boot and provisioning (`main.cpp`, `check_info.cpp`, `wifi_config.cpp`) | `/info.dat`, the five settings, Wi-Fi mode, Internet semaphore | load, save and restart, station or access point | CoreIoT, web server |
| CoreIoT client (`task_coreiot.cpp`, `lib/PubSubClient`) | connection, `lastPublishTick` | wait for Internet, reconnect, publish at most every 2 s | record, broker |
| Web server (`task_webserver.cpp`) | two relay flags, socket clients | broadcast the record, handle control and settings messages | record, dashboards |
| Dashboard (`data/script.js`) | its view of the two relays | toggle, apply responses, reconnect | web server |
| Unused libraries, model weights | - | - | not modelled: never called, or generated |

All tasks run preemptively on two cores; the sensor, TinyML, UI controller, web
and CoreIoT tasks have priority 1, the five UI threads priority 2. There is no
lock around the shared record. What makes the system hard:

* both writers of the record *peek and then overwrite*, so each can undo the other;
* readers get the same record over and over, with the score attached later;
* notifications overwrite one another, at any point of the receiving loop;
* the LCD's stream buffer carries bytes and its sender times out;
* the I2C mutex is held over a driver loop that ends only if the sensor answers;
* set-up steps fail without stopping the boot; saved settings restart the device;
* sockets and the broker connection break and come back, or break unnoticed;
* the LCD is written blindly, and a reset of the microcontroller does not reset it;
* a message is parsed in place, over itself, and a settings file into a fixed pool.

What makes each component correct is stated with the properties in section 3;
`PROJECT.json` lists every hazard at its line.

## 2. Modules

| Module | Models | Correspondence |
|---|---|---|
| `AlarmFeed` | the promise of the shared record: one cell with a measurement and a level that some measurement up to it was given | abstract |
| `SensorQueue` | record, its two writers, its readers | `queue` is `sensor->queue`; each `..._pc` is a place between two calls at which another task can run; one action per call |
| `LcdStream` | stream buffer, LCD thread, I2C mutex | `stream` holds bytes `[of, at]`; `LcdSend` is `xStreamBufferSend` *with* its timeout: it writes what fits |
| `UiDispatch` | controller, LED, NeoPixel, buzzer and relay threads; extends `LcdStream`, whose actions it performs | `mailbox[a]` is the notification value of thread `a`, `sent` a history variable |
| `WebControl` | relay commands over the WebSocket: dashboards and server | `shown[c]` are the two variables of `script.js` in page `c`, `relayState` those of the server, `up` and `down` the messages between them; one action per handler; `informed` is a history variable |
| `SettingsStore` | the promise about the saved settings: they change as a whole, to what was asked for | abstract |
| `Provisioning` | boot, mode choice, Internet semaphore, saving and restarting | `info` is `/info.dat`, `boot_pc` the place in `setup()`, `save_pc` the place in `Save_info_File`, `coreiot_pc` the place in `setup_coreiot` |
| `LcdPanel` | the LCD driver, the I2C expander and the HD44780 behind it | `calls` are the calls of `send` and `expanderWrite` to be made, `done` and `place` how many of them, and how many transfers of the next, have been; `ExpanderWrite` is one I2C transfer, which may fail unnoticed; the panel (external) latches a nibble when E falls |
| `LcdOutput` | the LCD from the stream buffer to the glass; extends `LcdStream` and `LcdPanel` | `lcd_pc` waits in "print" until all calls are made; `SetUp` is what `ui_init` sends; `Restart` resets all but expander and panel |
| `Dht20` | the DHT20 driver and its sensor | `read_pc` is the place in `DHT20::read`, one action per bus transfer; `value` is `_temperature` and `_humidity` |
| `SensorAcquisition` | `sensor_init`, calibration and `sensor_task` over `Dht20`, with the LCD thread at the I2C mutex | `made` counts the objects `sensor_init` has created; `sensor_pc` is the place in `sensor_task` |
| `MqttSession` | the MQTT session of PubSubClient and its broker, in time | `socket`, `state`, `pingOutstanding` are the client's; `inAge`, `outAge` the times since its last activities; `broker`, `owed`, `silent` are the broker's |
| `CoreIot` | `task_coreiot` over `MqttSession` | `pc` is the place in `setup_coreiot`, `reconnect`, `task_coreiot` or `loop`; `Tick` lets a unit of time pass |
| `MqttFraming` | `buildHeader` and `readPacket` byte by byte | `rests` is what `buildHeader` has divided the length to so far, one division per step; `read_pc` is the place in `readPacket`, whose variables keep their names |
| `JsonDeserializer` | memory pool, string storage and deserializer of ArduinoJson, for any text | `pc` is the function of `JsonDeserializer`, one action per character or call; `memory`, `left`, `Right` are the pool and its two ends |
| `JsonDocument` | the serializer, and the deserializer on the texts that occur; extends `JsonDeserializer` | `Texts` are the documents written, cut, damaged or with bare keys; recursive, and therefore a module of its own |
| `MCSensorQueue`, `MCUiDispatch`, `MCLcdOutput`, `MCJsonDocument` | the constants of the runs (the other modules run as they are) | |
| `SensorQueueProofs`, `UiProofs` (of `LcdStream`, `LcdOutput` and `UiDispatch`), `WebControlProofs`, `ProvisioningProofs`, `SensorAcquisitionProofs`, `CoreIotProofs`, `MqttFramingProofs`, `JsonDeserializerProofs` | theorems | each begins with the definitions that make the properties inductive, which model nothing and are used by the proofs only |

`UiDispatch` composes the controller with `LcdStream`, `LcdOutput` the LCD path
with driver and panel, `SensorAcquisition` the sensor task with the DHT20 driver,
`CoreIot` the task with its session. A settings message appears in three
modules: in `WebControl` as the restart it causes, in `Provisioning` step by step,
and its text in `JsonDocument`, whose `ReadsWhatWasWritten` ("the beginning of a
document is not accepted") is what `Provisioning` relies on for a file that was
only half written. `JsonDocument` assumes of its documents what `NoCutAccepted` (section 4)
needs for that, that they close at their end only, and TLC evaluates it.

Abstractions, and why the properties survive them. A record is the number of its
measurement and its score in `SensorQueue` (the numbers decide what is newer),
temperature, humidity and ratio in `UiDispatch` (the branches depend on them
only), and an indivisible value spread over `RecordSize` bytes in `LcdStream`.
The network's output is any member of `Outputs`, a function of the measurement,
with `Unusable` for a failed invocation or a NaN. Blinking phases, log output
and the formatting of numbers are left out. The LCD's update thresholds (0.2
degrees and so on) are abstracted to "differs from what is shown".
Iterations of the sensor task that time out on the mutex change nothing in
`SensorQueue`. The averaging of samples disappears, because the accumulators are
reset after every overwrite and an overwrite of a queue of length one cannot
fail: the average is always of one sample.

`WebControl`: a device has one name (the server's aliases "relay" and "buzzer"
are folded into it) and the messages the server ignores are left out. The relay flags of the
server drive no pin: what is checked is the agreement of the screens with the
flags. `Provisioning`: the five settings are one value of a set, of which
`Blank` and `NoSsid` are the ones the code tells apart and `Working` those the
router accepts.

`SensorAcquisition` and `Dht20`: a measurement is its age in periods of the task
and whether a calibrated sensor made it; a gas sample is zero or positive, a
ratio finite, infinite or NaN. A status byte that does not come reads as 0xFF, that
is "calibrated" and "busy". A second of `millis()` is told from the period of
`vTaskDelay` only by the tick in which it began.

`MqttSession` and `CoreIot`: times are counted in a unit shorter than each of
them, and between two delays the task takes less than one. A dead socket is one
whose peer is gone without a word; writes to it succeed. "TCP already open" in
`PubSubClient::connect` does not happen: the task reconnects only after
`connected()` has closed the socket. The record is peeked, so that after the
first one `sensor_get_data` never blocks; before it the task waits without
calling `loop()`, which is why properties about the broker's patience suppose a first
record within `WarmUp`. The callback only logs.

`LcdPanel`: a panel is its address, its visible cells and the modes its
instructions set. When E falls in the same transfer in which the data lines
change, the panel latches either value. Busy times are left out: the driver's
delays are longer. What a record looks like is a constant, `Glyphs`: any character
in any cell.

`JsonDeserializer`: a number is the one character `1`, the word `null` one character;
there are no spaces, comments, `\u` escapes, single quotes or filters. The
dashboard's and the broker's messages are parsed in place (`StringMover`, pools of
512 and 256 bytes), the settings file is copied (`StringCopier`, a
`DynamicJsonDocument` of 4096). `Meaning` says what a text with repeated keys
means to this parser: the last value that is not null, at the first place.

Assumed of what is not in `src/`: LittleFS creates a file when it is opened for
writing and otherwise keeps its old contents until it is closed without an
error; AsyncWebSocket drops a message for a client whose queue is full, and each
`textAll` is one step although two tasks call it; a network that is there and
accepts the settings during all of the 15 s is joined; FreeRTOS asserts that a
semaphore is not NULL.

## 3. Runs

Passing runs:

* **sensor_queue** (`SensorQueue.cfg`; 3 measurements, 3 outputs and a failing
  inference, two readers). `NoPhantomAlarm`: no copy of the record anywhere
  carries a level that no measurement up to its own was given.
  `NeverBehindClassifier`: a write-back brings the record back at most to the
  measurement being classified, and always finds a record. `FeedSpec`: refinement
  of `AlarmFeed`. `ScoreCatchesUp`, `ConsumersConverge` (liveness): when
  measuring pauses, the score becomes that of the record shown, and every reader
  ends up with it. Three measurements are the least at which both writers can
  undo each other twice; two readers show that readers do not disturb each other.
* **lcd_output** (`LcdOutput.cfg`, `MCLcdOutput`; 2 readings, records of 3 bytes, 2 slots, lines of
  2 characters, one lost transfer, one reset). `WholeRecords`: sends that time out
  never leave a piece of a record, because the capacity is a multiple of the
  record's size. `ShowsRecord`: after a reset at any point, the middle of a byte
  included, the set-up leaves the panel with the greeting and from then on with the
  record printed last. `NoFlicker`: while a record is printed over another each
  character is of one of the two. `PanelFollows` (liveness). Three bytes give
  first, middle and last byte; two slots give full, partly full and empty buffers;
  two lines of two characters are the least at which a wrong row, column or
  direction shows; a second reset finds nothing that the first does not.
* **ui_dispatch** (`UiDispatch.cfg`; two records on both sides of every
  threshold; records of one byte, as framing is `lcd_output`'s question).
  `LastNotificationWins`, `AlarmsAgree`.
* **ui_liveness** (`UiLiveness.cfg`; two records that differ in the gas ratio).
  `AlarmsFollowGas`: buzzer and relay follow the gas even if the sensor task
  never gives the mutex back and the LCD thread is stuck.
* **web_control** (`WebControl.cfg`; 2 dashboards, 1 relay, at most 2 messages
  per direction). `Agreement`: a dashboard into whose queue the last response
  about a relay was put and that has nothing about it on its way shows the
  server's state, though every page flips its relay before the command is sent.
  `ControlsSettle` (liveness), under a flood of records. Two dashboards are
  needed for commands that cross; two messages for a command that follows an
  unanswered one and for a response behind a record; the relays do not interact.
* **provisioning** (`Provisioning.cfg`; blank settings, settings without an
  SSID, wrong settings and two that work). `RunsWithStored`,
  `ReleasedByStation`, `StoreSpec` (refinement of `SettingsStore`) and
  `OnlineInTheEnd` (liveness). The code tells the first three kinds apart; two
  settings that work are needed to see one replaced by another. Restarts and
  saves are not bounded.
* **sensor_acquisition** (`SensorAcquisition.cfg`; 2 calibration samples).
  `RecentAfterCalm`: two periods without a failure are enough for a record with a
  good measurement not older than a period, whatever failed before and although
  `read()` refuses to read twice within a second. `MutexExists`: no task
  uses an object that `sensor_init` did not create. `MutexReturned`,
  `SamplesKeepComing` (liveness): both suppose that the sensor stays plugged in
  from some point on, and fail without it, since `DHT20::read` then spins with the
  mutex held. Two samples are a first and a last one; failures are not bounded.
* **core_iot** (`CoreIot.cfg`; keep-alive 4, socket timeout 2, broker's grace 6,
  delay 1, publish interval 7, tick counter modulo 8, for 15 s, 15 s, 22.5 s, 5 s,
  2 s and 2^32 ms). `PublishesInSession`, `BrokerHearsInTime`, `DeadFoundOut` (a
  server that vanished is found out within `Detection`: what is still in the inbox
  is read first, then two keep-alive periods pass), `LiveBrokerKept` (one that
  answers in time is never given up by the keep-alive timer), `PublishSpacing`
  (whenever telemetry is sent an interval has passed since it was sent before, across
  the wrap too), `KeepsPublishing` (liveness). The publish interval is longer than the grace on purpose: with the
  code's 2 s a session with a record would never be silent for long. (The code's
  order of the times, an interval below the keep-alive time, gives the same results:
  `PublishInterval = 3` and `TickModulus = 5`.) The counter wraps as soon as the
  interval allows.
* **mqtt_framing** (`MqttFraming.cfg`; two packets, digits of base 2, 4 digits, a
  buffer of 10). `ReturnsWhatWasSent`: the packets returned are those sent,
  without the ones that do not fit, and `readPacket` ends where one ends.
  `ClosesForLength`, `OwnPacketsFit`. The lengths lie on both sides of every number of
  digits, of the buffer and of the largest length; the second packet shows whether
  the first was read to its end.
* **json_document** (`JsonDocument.cfg`; scalars, and all objects of at most two members
  over two keys, with strings, escapes and collections inside; whole, cut anywhere, with
  any character missing or one behind, or with bare keys; in place and in pools of 6, 12 and 20
  bytes). `UnreadInputStays`: the parser never overwrites what it has yet to read.
  `ZonesApart`: strings and variants never meet. `StringsStay`: a key or a string that
  the document holds is not written over by what is parsed later. `ListsApart`: also
  when keys come again, and values are replaced, each collection's list ends at its
  tail and shares no variant with another's. `AcceptsClosed`: a text is accepted only
  where all that it opened is closed. `StepsRunOut`: every step lowers what remains
  to be done, so that parsing ends. `ReadsWhatWasWritten`: what
  is accepted is what was written, no beginning of it is, and no number with
  something behind it (`Trailing`; whatever follows another document is not read). `SizedAsDocumented`:
  `JSON_OBJECT_SIZE` and its kin are enough. Two members are needed for a key that
  repeats and for strings that follow one another; the pools are too small, just
  too small or just enough, and enough.

Runs that refute what a comment or the README says:

* **score_preserved**: the comment at `task_sensor.cpp` 160 promises that a score
  set by TinyML is preserved; one set between peek and overwrite is lost.
* **relays_shown**: the dashboard is said to show the relay states; one that
  connects (or toggles without a connection) shows its own.

Further divergences, which the models show but for which no run is kept:

* `sensor_get_data` is documented to return false when nothing is new
  (`include/task_sensor.h` 38-39); it ignores the freshness bits
  (`task_sensor.cpp` 77) and returns the same record again (`ConsumerGetData`).
* `sensor_update_score` is to update the latest record (`task_sensor.h` 44); it can
  put the one before in its place (`task_sensor.cpp` 95, `MlPeek`, `MlOverwrite`).
* With Warning and Critical tied above Normal the class is Normal
  (`task_tinyml.cpp` 101, README 274; `PredictedClass`).
* The buzzer sounds on every positive ratio, 500 Hz in clean air included
  (`task_ui.cpp` 275, README 122; `Tone`).
* The cloud publish interval is said to be "Continuous, per sensor cycle" (README
  298), and a cycle is 1 s (`task_sensor.cpp` 10, 114); the code sends at most
  every 2 s (`task_coreiot.cpp` 96, 107; `IsTooSoon`), so about every second record.
  `PublishSpacing` is about the code's interval.

Divergences of the README that need no model: NeoPixel is said to show the
temperature and the LED the gas, the code uses humidity and temperature; averages
are said to roll, they are of one sample; ESP-NOW, mDNS and RPC actuation are
described and absent.

### Fairness

FreeRTOS time-slices ready tasks of equal priority, so no ready task of priority
1 waits for ever for another: weak fairness for the sensor task, TinyML, each
reader and the controller. The actuator threads have priority 2 and block most
of the time: weak fairness. Every wait of the controller ends (100 ms for the
stream buffer). The LCD thread outranks the sensor task, so a mutex that comes
free again and again is finally its own: strong fairness for taking it, in
`LcdOutput` only. Nothing is assumed of the sensor task's giving the mutex
back, since `DHT20::read` loops while the sensor answers "busy";
`PanelFollows` takes it as an explicit premise, `AlarmsFollowGas` does without: in
`UiDispatch` that loop is only a mutex that is never given back, the loop itself is
in `SensorAcquisition`.
Measuring is never forced: the liveness properties speak of the time from which
nothing new is measured.

`WebControl`: browsers and the server's event loop act on what they have
received, a page tries to connect every 2 s (`script.js`), a device that boots
starts its server: weak fairness. That sockets stay and no more commands are
sent is a premise of `ControlsSettle`; broadcasts never stop.
`Provisioning`: `setup()`, the CoreIoT task, a save under way and the station's
association proceed, and somebody in front of a device that has become an access
point enters settings that work (`Provision`). The last is the only way out: the
code never leaves the access point by itself. `OnlineInTheEnd` is about the time
from which the router is up, the pages are in the flash and nothing fails; it
excludes the endless loop of `ui_init` by a premise, and fails without it.

`LcdOutput`: a transfer ends, with or without success; the controller keeps sending.
`SensorAcquisition`: the sensor ends a measurement, the sensor task is scheduled;
the LCD thread gives the mutex back and, after a few prints, has nothing to
print until the next record, so that a mutex that is free again and again is
finally the sensor task's (strong fairness). The sensor task waits 100 ms for the
mutex; `SamplesKeepComing` supposes that it times out only when the LCD thread
took the mutex meanwhile, that is, that one print takes less.
`CoreIot`: the task is scheduled, and a broker that owes an answer gives it (weak
fairness). Time passes: strong fairness for `Tick`, because time cannot pass
while the task is between two waits. `KeepsPublishing` is about the time from which
there is a record and the network does not fail; nothing is assumed of it before.
A publish fails only on a dead socket (`PublishFails`): a socket that takes no more
data is one whose link is lost, and TCP's own recovery is not seen from the client.

## 4. Proofs

For every value of the constants, under the ASSUMEs of the modules
(`OutputsAssumption`, `UnusableAssumption`, `MaxSamplesAssumption`;
`NoReadingAssumption`, `RecordSizeAssumption`, `SlotsAssumption`;
`ReadingsAssumption`, `NoNotificationAssumption`; `QueueLimitAssumption`,
`MaxSentAssumption`; `BlankAssumption`, `NoSsidAssumption`, `WorkingAssumption`,
`NoSettingsAssumption`; `BaselineAssumption`; `SessionAssumption`,
`CoreIotAssumption`, `AnswerAssumption`; `ColumnsAssumption`, `MaxLostAssumption`,
`GlyphsAssumption`, `MaxRestartsAssumption`; `FramingAssumption`; `SizesAssumption`,
`NestingLimitAssumption`, `CharactersAssumption`):

* `SensorQueueProofs`: `TypeCorrect`, `NoPhantom`, `ClassifierKeepsUp` from one
  inductive invariant `IInv`. What makes it inductive: no copy is of a
  measurement not yet made (`NoFutureRecord`), a pending sensor record is newer
  than the queue and a pending write-back not older than what was classified
  (`WriteOrder`), and the class waiting to be written belongs to the record it
  was computed from (`PendingClass`). `ImplementsFeed` maps every step to a step
  of `AlarmFeed` or a stutter, using the same invariant.
* `UiProofs`: of `LcdStream`, `LcdTypeCorrect` and `RecordsStayWhole`. The send of a
  record either fits or, the buffer being full to the last byte, adds nothing,
  since the length is a multiple of the record size. A step of `LcdOutput` is one of
  `LcdStream`, a stutter, or starts it again, so the invariant carries over to resets
  at any moment (`OutputRecordsStayWhole`).
  `ShownIsPrinted` and `PrintedInPlace` say what the panel shows, for 1 to 16
  columns, any `Glyphs` and any number of lost transfers and resets. Their
  properties speak of the moments when nothing or a record is being sent and say
  nothing of how the panel gets there; `OutputInv` does: while the driver and the
  panel agree on where a value begins (`Wired`, `InStep`), the panel has carried out
  exactly the calls made, and after `n` of them is set up as far as `SetTo(panel, n)`
  says or shows the new text up to the cursor and the old one behind it
  (`PrintedTo`). `FirstHalves` is why the set-up gets any panel in step, also one that
  a reset left with half a value: whichever half it waits for, after three 3s it
  takes eight bits, and the 2 behind them makes it four. `CallSteps` is the core: a call's six transfers make the panel carry out its
  value once, whichever of the two bytes it latches. TLC checked `OutputInv` on
  lines of three characters; no run does, the theorem covers it. Of `UiDispatch`, `UiTypeCorrect`,
  `UiImplementsLcd` (every step is a step of `LcdStream` or leaves it alone, so
  `UiRecordsStayWhole`), `LastWins`, and `AlarmsAlwaysAgree`, which needs
  `SameRatioSent`: the two alarms have been sent the same ratio except between the
  two notifications.
* `WebControlProofs`: `ControlTypeCorrect`, `DashboardsAgree`. `Agreement` speaks
  of a dashboard with nothing on its way and is not inductive; `LastWord` says of
  every informed dashboard without commands on their way that the *last* response
  in its queue, or else its screen, has the server's state, and `ClosedIsEmpty`
  that a closed socket carries nothing.
* `ProvisioningProofs`: `ProvisioningTypeCorrect`, `RunsWithWhatIsStored`,
  `CoreIotReleasedByStation` from one invariant, whose strengthening `ModeKnown`
  says what the place in `setup()` tells about mode, semaphore and tasks.
  `ImplementsStore` maps every step to one of `SettingsStore`: a restart during a
  save is `Drop`, writing the file `Keep`, a formatting mount `Format`.
* `SensorAcquisitionProofs`: `TypeCorrect`, `MutexSafe`, `RecentRecords`. The
  invariant relates the age of the value to the time since the last reading and
  the periods since the last failure (`GoodSinceRead`), and to a reading under
  way (`GoodUnderWay`); `AllCreated` says that the task runs only if all objects exist.
* `CoreIotProofs`: `TypeCorrect`, `SessionFirst`, `HeardInTime`, `Spaced` from `IInv`.
  What makes them inductive: both ends agree about an open connection, down to how
  long nothing was sent (`EndsAgree`), what each place of the task knows of it
  (`TaskKnows`), how much of the broker's patience is used up there (`Patience`), and
  that the tick difference is right while it matters (`TicksAgree`). The code's
  times satisfy the assumptions: keep-alive 15 s below a grace of 22.5 s, a first
  record after about 21 s. `DeadNoticed` and `LiveKept` need a second invariant,
  `TInv`, about answers and time: there is at most one answer on its way and it
  belongs to a ping (`OneAnswer`), its age and its place in the inbox bound how
  long the ping has been out (`AnswerInTime`), and how long a socket has been dead
  plus what is left to be done before that is noticed stays within `Detection`
  (`DeadTime`). `AnswerAssumption` says that an answer, and the packets read before
  it, take less than a keep-alive time.
* `MqttFramingProofs`: `FramingTypes`, `PacketsReturned`, `ClosedForLength`,
  `OwnPacketsReturned`, for any base, number of digits, buffer and number of packets.
  `FramingInv` says that the stream is the packets one behind the other
  (`PacketsInPlace`), that each has been read and returned or not reached
  (`Returned`), and of the one being read that the digits read so far and the rest
  of the length times the multiplier make the length it had (`Reading`). The digits
  need no induction: each is divided off the rest before it.
* `JsonDeserializerProofs`: `InputReadAsSent`, `PoolNeverCollides`, for *any* text over
  any characters, well formed or not. `JsonInv`: a string that is moved ends behind
  the latch in each place of the parser (`MovedBehind`), and one that is copied ends
  with its terminator below the slots (`CopiedBelow`), which holds until the pool is
  marked as overflowed, and no string that has ended is one that overflowed. The
  runs deserialize the texts in `Texts`; the theorems need nothing of them.
  On top of `JsonInv`:
  - `ParsingEnds`: every action reads on, or goes on to a place of lower `Rank`
    (`EveryStepMoves`), so `Remaining` falls and stays a natural number.
  - `OnlyClosedTextsAccepted`: `NestingInv` says that the parser is in a string, and
    has as many collections open, exactly when and as the text before the latch says
    (`Nesting`, defined on the text alone). `NoCutAccepted` follows: of a text that
    closes at its end only, no beginning is accepted. A number is one character
    here, so this says nothing of a bare number that is cut, which would be accepted as
    a shorter one; a settings file is an object.
  - `HeldStringsStay`: `StringsInv` says that every key ends, and every string value
    lies, below the end of the strings that are kept (`left`), and that the string
    under way begins there; a step writes nothing below it (`KeptBelow`). Whether a
    string is moved, copied, or found among those kept (`findString`) is a case each.
  - `CollectionsApart`: a list is reached from its collection through `next`, so
    nothing in a slot says where it belongs. `ListsInv` supposes a function from slots to
    the collection whose list they are in, or to none if that collection has been
    emptied since, along which links go up and stay, and tails are last (`Chained`). It exists at the
    beginning, and `addSlot` and `toArray`/`toObject` keep it (`ChainGrows`,
    `ChainReset`).

  `Slots` and `Nesting` are recursive functions. The library's induction theorems
  cannot be instantiated here, but numbers have least elements: `LeastIn` gets that
  from the well-foundedness of strict inclusion among finite sets, and `UpTo` and
  `DownFrom` are induction over an interval, for a set of numbers instead of a
  predicate. With them a function that satisfies the recursion is shown to exist
  (`ScanExists`, `FollowsExists`), so that the definition's choice does
  (`NestingScans`, `SlotsFollow`).

Every type invariant is proved. A run checks one only in `sensor_queue`, where it says
more than types: that the class computed is one of the three.

Only model-checked: the liveness properties (fairness and ENABLED are outside
the prover's reach); `ReadsWhatWasWritten` and `SizedAsDocumented`, which speak of
recursive documents and of the serializer: `RECURSIVE` operators, which the prover
cannot take. What is proved of reading is what can be said of the text alone.

## 5. Not modelled, and the plan

* Priorities and cores: `webserver_task` and `task_tinyml` never block once a
  record exists. Whether the idle tasks and the watchdog get time is FreeRTOS's
  matter, which is not in the repository.
* Two tasks in `AsyncWebSocket::textAll` at once: the library is not in the
  repository.
* `readPacket` after a byte that did not come in time: `MqttFraming` has the step
  (`GiveUp`), after which the rest of a packet is read as a new one; what is
  returned then is arbitrary, and its properties end there.
* PubSubClient's wills, QoS 1, streaming, `publish_P`, `unsubscribe` and
  `disconnect`; the LCD driver's scrolling, cursor and custom characters;
  the DHT20's offsets and queries; ArduinoJson's MessagePack, filters, raw
  values, comments, `\u` escapes and number formatting: the firmware uses none of
  them (or, number formatting, no property is about it).
* `lib/ThingsBoard`, `lib/ArduinoHttpClient`, `lib/ElegantOTA-master`: vendored
  copies of which the firmware calls nothing. With the rest of ArduinoJson they
  are most of the lines under `src/lib`.
* Charts, page layout and the page's own list of devices.

What could come next: that `SensorAcquisition` implements the sensor's part of
`SensorQueue`; `MqttFraming` under
`CoreIot`, so that a timeout inside a packet has consequences.

Not called and therefore not modelled: `Delete_info_File`, `Wifi_reconnect`,
`check_info_File(true)`. Out of scope: HTML, charts and style sheets, wiring,
libraries outside the repository.
