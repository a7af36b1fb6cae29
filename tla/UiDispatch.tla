----------------------------- MODULE UiDispatch ------------------------------
(* The UI controller and the threads it feeds (task_ui.cpp).  The controller *)
(* takes the shared sensor record and hands the temperature to the LED, the  *)
(* humidity to the NeoPixel and the gas ratio to the buzzer and to the relay,*)
(* each by a task notification that overwrites the one not yet taken, and    *)
(* last sends the whole record to the LCD (module LcdStream).                *)
(* Blinking itself is left out: an output is its rate, colour, tone or level.*)
EXTENDS LcdStream

\* task_ui.h; gas ratios in tenths.  A ratio that is NaN, as it fails every
\* comparison, is 0 here.
GAS_WARNING_THRESHOLD == 15
GAS_CRITICAL_THRESHOLD == 20
TEMP_WARM_THRESHOLD == 35
TEMP_CRITICAL_THRESHOLD == 50
HUM_WARNING_THRESHOLD == 70
HUM_CRITICAL_THRESHOLD == 85

ASSUME ReadingsAssumption ==
    Readings \subseteq [temperature : Nat, humidity : Nat, ratio : Nat]

CONSTANT NoNotification    \* an empty mailbox
ASSUME NoNotificationAssumption == NoNotification \notin Nat

Actuators == {"led", "neo", "buzzer", "relay"}

VARIABLES
    reading,       \* the record in the shared queue
    ctrl_pc,       \* where ui_controller is: the next call it makes
    data,          \* its copy of the record
    mailbox,       \* the notification value of each actuator thread
    sent,          \* history: what each was last notified of
    led_res,       \* thread_led_blinky: blink cycle
    neo,           \* thread_neo_pixel: blink period and colour
    buzzer_pc, buzzer_data, buzzer,    \* thread_buzzer, the tone in Hz
    relay_pc, relay_data, relay        \* thread_relay, the level of the pin

ctrlVars == <<ctrl_pc, data>>
ledVars == <<led_res, neo>>
buzzerVars == <<buzzer_pc, buzzer_data, buzzer>>
relayVars == <<relay_pc, relay_data, relay>>
vars == <<reading, ctrlVars, mailbox, sent, ledVars, buzzerVars, relayVars, lcdVars>>

LED_CYCLE_NORMAL == 5000
LED_CYCLE_WARNING == 3000
LED_CYCLE_CRITICAL == 1000

Neo(period, color) == [period |-> period, color |-> color]

\* What the threads make of a value.  A temperature of 0 keeps the LED's rate.
BlinkCycle(temperature, current) ==
    IF temperature >= TEMP_CRITICAL_THRESHOLD THEN LED_CYCLE_CRITICAL
    ELSE IF temperature >= TEMP_WARM_THRESHOLD THEN LED_CYCLE_WARNING
    ELSE IF temperature > 0 THEN LED_CYCLE_NORMAL
    ELSE current
NeoOutput(humidity) ==
    IF humidity >= HUM_CRITICAL_THRESHOLD THEN Neo(LED_CYCLE_CRITICAL, "red")
    ELSE IF humidity >= HUM_WARNING_THRESHOLD THEN Neo(LED_CYCLE_WARNING, "orange")
    ELSE Neo(LED_CYCLE_NORMAL, "green")
Tone(ratio) == IF ratio >= GAS_CRITICAL_THRESHOLD THEN 2000
               ELSE IF ratio >= GAS_WARNING_THRESHOLD THEN 1000
               ELSE IF ratio > 0 THEN 500
               ELSE 0
RelayLevel(ratio) == IF ratio >= GAS_CRITICAL_THRESHOLD THEN "HIGH" ELSE "LOW"

TypeOK ==
    /\ LcdTypeOK
    /\ {reading, data} \subseteq Readings \cup {NoReading}
    /\ ctrl_pc \in {"get", "led", "neo", "buzzer", "relay", "lcd"}
    /\ ctrl_pc # "get" => data \in Readings
    /\ {mailbox, sent} \subseteq [Actuators -> Nat \cup {NoNotification}]
    /\ led_res \in {LED_CYCLE_NORMAL, LED_CYCLE_WARNING, LED_CYCLE_CRITICAL}
    /\ neo \in { Neo(LED_CYCLE_NORMAL, "green"),
                 Neo(LED_CYCLE_WARNING, "orange"),
                 Neo(LED_CYCLE_CRITICAL, "red") }
    /\ {buzzer_pc, relay_pc} \subseteq {"wait", "drive"}
    /\ {buzzer_data, relay_data} \subseteq Nat
    /\ buzzer \in {0, 500, 1000, 2000}
    /\ relay \in {"LOW", "HIGH"}

Init ==
    /\ LcdInit
    /\ reading = NoReading /\ data = NoReading
    /\ ctrl_pc = "get"
    /\ mailbox = [a \in Actuators |-> NoNotification]
    /\ sent = mailbox
    /\ led_res = LED_CYCLE_NORMAL
    /\ neo = Neo(LED_CYCLE_NORMAL, "green")
    /\ buzzer_pc = "wait" /\ buzzer_data = 0 /\ buzzer = 0
    /\ relay_pc = "wait" /\ relay_data = 0 /\ relay = "LOW"

-----------------------------------------------------------------------------
\* The sensor task publishes a record (module SensorQueue).
Publish(r) ==
    /\ reading' = r
    /\ UNCHANGED <<ctrlVars, mailbox, sent, ledVars, buzzerVars, relayVars, lcdVars>>

-----------------------------------------------------------------------------
(* ui_controller                                                             *)

\* sensor_get_data with portMAX_DELAY: waits for the first record only.
UiGetData ==
    /\ ctrl_pc = "get"
    /\ reading # NoReading
    /\ data' = reading
    /\ ctrl_pc' = "led"
    /\ UNCHANGED <<reading, mailbox, sent, ledVars, buzzerVars, relayVars, lcdVars>>

NotifyWithoutOverwrite(a, value) ==    \* variant: eSetValueWithoutOverwrite
    /\ mailbox' = [mailbox EXCEPT ![a] = IF @ = NoNotification THEN value ELSE @]
    /\ sent' = [sent EXCEPT ![a] = value]
    /\ UNCHANGED <<reading, data, ledVars, buzzerVars, relayVars, lcdVars>>

\* xTaskNotify(..., eSetValueWithOverwrite)
Notify(a, value) ==
    /\ mailbox' = [mailbox EXCEPT ![a] = value]
    /\ sent' = [sent EXCEPT ![a] = value]
    /\ UNCHANGED <<reading, data, ledVars, buzzerVars, relayVars, lcdVars>>

NotifyLed    == ctrl_pc = "led"    /\ ctrl_pc' = "neo"    /\ Notify("led", data.temperature)
NotifyNeo    == ctrl_pc = "neo"    /\ ctrl_pc' = "buzzer" /\ Notify("neo", data.humidity)
NotifyBuzzer == ctrl_pc = "buzzer" /\ ctrl_pc' = "relay"  /\ Notify("buzzer", data.ratio)
NotifyRelay  == ctrl_pc = "relay"  /\ ctrl_pc' = "lcd"    /\ Notify("relay", data.ratio)

SendToLcd ==
    /\ ctrl_pc = "lcd"
    /\ LcdSend(data)
    /\ ctrl_pc' = "get"
    /\ UNCHANGED <<reading, data, mailbox, sent, ledVars, buzzerVars, relayVars>>

Controller == \/ UiGetData
              \/ NotifyLed \/ NotifyNeo \/ NotifyBuzzer \/ NotifyRelay
              \/ SendToLcd

-----------------------------------------------------------------------------
(* The actuator threads.  xTaskNotifyWait takes the value and clears it; the *)
(* LED and NeoPixel threads go on without one after 100 ms, changing nothing.*)

Take(a) ==
    /\ mailbox[a] # NoNotification
    /\ mailbox' = [mailbox EXCEPT ![a] = NoNotification]
    /\ UNCHANGED <<reading, ctrlVars, sent, lcdVars>>

LedTakes ==
    /\ Take("led")
    /\ led_res' = BlinkCycle(mailbox["led"], led_res)
    /\ UNCHANGED <<neo, buzzerVars, relayVars>>

NeoTakes ==
    /\ Take("neo")
    /\ neo' = NeoOutput(mailbox["neo"])
    /\ UNCHANGED <<led_res, buzzerVars, relayVars>>

BuzzerTakes ==
    /\ buzzer_pc = "wait"
    /\ Take("buzzer")
    /\ buzzer_data' = mailbox["buzzer"]
    /\ buzzer_pc' = "drive"
    /\ UNCHANGED <<buzzer, ledVars, relayVars>>

BuzzerDrivesThenClears ==    \* variant: the notification is cleared after use
    /\ buzzer_pc = "drive"
    /\ buzzer' = Tone(buzzer_data)
    /\ buzzer_pc' = "wait"
    /\ mailbox' = [mailbox EXCEPT !["buzzer"] = NoNotification]
    /\ UNCHANGED <<reading, ctrlVars, sent, ledVars, buzzer_data, relayVars, lcdVars>>

BuzzerDrives ==
    /\ buzzer_pc = "drive"
    /\ buzzer' = Tone(buzzer_data)
    /\ buzzer_pc' = "wait"
    /\ UNCHANGED <<reading, ctrlVars, mailbox, sent, ledVars, buzzer_data, relayVars, lcdVars>>

RelayTakes ==
    /\ relay_pc = "wait"
    /\ Take("relay")
    /\ relay_data' = mailbox["relay"]
    /\ relay_pc' = "drive"
    /\ UNCHANGED <<relay, ledVars, buzzerVars>>

RelayDrives ==
    /\ relay_pc = "drive"
    /\ relay' = RelayLevel(relay_data)
    /\ relay_pc' = "wait"
    /\ UNCHANGED <<reading, ctrlVars, mailbox, sent, ledVars, buzzerVars, relay_data, lcdVars>>

BuzzerThread == BuzzerTakes \/ BuzzerDrives
RelayThread == RelayTakes \/ RelayDrives

-----------------------------------------------------------------------------
uiVars == <<reading, ctrlVars, mailbox, sent, ledVars, buzzerVars, relayVars>>

Next == \/ \E r \in Readings : Publish(r)
        \/ Controller
        \/ LedTakes \/ NeoTakes \/ BuzzerThread \/ RelayThread
        \/ LcdThread /\ UNCHANGED uiVars
        \/ (SensorTakeMutex \/ SensorGiveMutex) /\ UNCHANGED uiVars

\* The actuator threads have priority 2 and block, and every wait of the
\* controller ends.  Nothing is assumed of the LCD thread and the sensor task.
Fairness == /\ WF_vars(Controller)
            /\ WF_vars(LedTakes)
            /\ WF_vars(NeoTakes)
            /\ WF_vars(BuzzerThread)
            /\ WF_vars(RelayThread)

Spec == Init /\ [][Next]_vars
FairSpec == Spec /\ Fairness

-----------------------------------------------------------------------------
(* Properties                                                                *)

Idle(a) == /\ mailbox[a] = NoNotification
           /\ a = "buzzer" => buzzer_pc = "wait"
           /\ a = "relay" => relay_pc = "wait"

\* The last notification wins: although notifications are overwritten at any
\* point of the threads' loops, the last value each was sent is waiting in its
\* mailbox, or being acted on, or the one its output shows.
LastNotificationWins ==
    /\ \A a \in Actuators : mailbox[a] \in {NoNotification, sent[a]}
    /\ mailbox["buzzer"] = NoNotification /\ buzzer_pc = "drive" => buzzer_data = sent["buzzer"]
    /\ mailbox["relay"] = NoNotification /\ relay_pc = "drive" => relay_data = sent["relay"]
    /\ \A a \in Actuators : Idle(a) /\ sent[a] # NoNotification =>
          CASE a = "led" -> led_res = BlinkCycle(sent[a], led_res)
            [] a = "neo" -> neo = NeoOutput(sent[a])
            [] a = "buzzer" -> buzzer = Tone(sent[a])
            [] a = "relay" -> relay = RelayLevel(sent[a])

\* The two gas alarms agree: when both threads have acted on what they were
\* sent and the controller is not between the two notifications, the relay is
\* energised exactly when the buzzer sounds its critical tone.
AlarmsAgree ==
    Idle("buzzer") /\ Idle("relay") /\ ctrl_pc # "relay"
        => (relay = "HIGH" <=> buzzer = 2000)

\* The alarms follow the gas: while the shared record stays what it is, buzzer
\* and relay end up as its ratio demands, even if the sensor task never gives
\* the I2C mutex back, the LCD thread waits for it for ever and the stream
\* buffer is full: the controller's send times out.
AlarmsFollowGas ==
    \A r \in Readings :
        <>[](reading = r) => <>[](buzzer = Tone(r.ratio) /\ relay = RelayLevel(r.ratio))
=============================================================================
