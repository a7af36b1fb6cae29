--------------------------- MODULE SensorAcquisition ---------------------------
(* sensor_init and sensor_task (task_sensor.cpp) over the driver of Dht20:   *)
(* the objects are created one after the other and the first failure ends    *)
(* sensor_init, but not setup(); the task calibrates the gas baseline and    *)
(* then samples once a period under the I2C mutex, which it shares with the  *)
(* LCD thread (task_ui.cpp).  A sample is one record (module SensorQueue has *)
(* the queue and the score).                                                 *)
EXTENDS Dht20

CONSTANTS
    BASELINE_SAMPLES,   \* samples of the calibration
    NoRecord            \* the queue is empty

ASSUME BaselineAssumption == BASELINE_SAMPLES \in Nat \ {0}

VARIABLES
    made,        \* what sensor_init has created: 1 the queue, 2 the event
                 \* group too, 3 the mutex too, 4 the task too
    sensor_pc,   \* where sensor_task is
    samples,     \* samples the calibration has taken
    baseline,    \* the sum of the samples, and later their mean: 0 or more
    i2c_mutex,   \* who holds it
    record,      \* the record in the queue
    lcd_pc,      \* where the LCD thread is
    overtaken    \* history: the LCD thread has taken the mutex while
                 \* sensor_task was waiting for it

taskVars == <<sensor_pc, samples, baseline>>
lcdVars == <<lcd_pc, overtaken>>
vars == <<dhtVars, made, taskVars, i2c_mutex, record, lcdVars>>

Level == {"zero", "positive"}
Record == [climate: Reading, ratio: {"finite", "inf", "nan"}]

TypeOK ==
    /\ DhtTypeOK
    /\ made \in 0 .. 4
    /\ sensor_pc \in {"calibrate", "delay", "take", "read", "give", "gas"}
    /\ samples \in 0 .. BASELINE_SAMPLES
    /\ baseline \in Level
    /\ i2c_mutex \in {"free", "sensor", "lcd"}
    /\ record = NoRecord \/ record \in Record
    /\ lcd_pc \in {"receive", "take", "print"}
    /\ overtaken \in BOOLEAN

\* sensor_init comes as far as the objects can be created.
Init ==
    /\ DhtInit
    /\ made \in 0 .. 4
    /\ sensor_pc = "calibrate" /\ samples = 0 /\ baseline = "zero"
    /\ i2c_mutex = "free"
    /\ record = NoRecord
    /\ lcd_pc = "receive" /\ overtaken = FALSE

\* A task that looks for a record in a NULL queue fails an assertion of
\* FreeRTOS, and the program starts again.
NullQueueRestart ==
    /\ made = 0
    /\ DhtRestart
    /\ made' \in 0 .. 4
    /\ sensor_pc' = "calibrate" /\ samples' = 0 /\ baseline' = "zero"
    /\ i2c_mutex' = "free"
    /\ record' = NoRecord
    /\ lcd_pc' = "receive" /\ overtaken' = FALSE

Running == made = 4

-----------------------------------------------------------------------------
(* sensor_task                                                               *)

\* mq2_get_baseline: one sample of the gas sensor's output.
Calibrate(gas) ==
    /\ Running
    /\ sensor_pc = "calibrate"
    /\ samples < BASELINE_SAMPLES
    /\ samples' = samples + 1
    /\ baseline' = IF gas = "positive" THEN "positive" ELSE baseline
    /\ UNCHANGED <<dhtVars, made, sensor_pc, i2c_mutex, record, lcdVars>>

CalibratedUsable ==    \* variant: calibrates until the baseline is usable
    /\ Running
    /\ sensor_pc = "calibrate"
    /\ samples = BASELINE_SAMPLES
    /\ IF baseline = "zero" THEN samples' = 0 /\ UNCHANGED sensor_pc
                            ELSE sensor_pc' = "delay" /\ UNCHANGED samples
    /\ UNCHANGED <<dhtVars, made, baseline, i2c_mutex, record, lcdVars>>

\* ... and their mean, once and for all.
Calibrated ==
    /\ Running
    /\ sensor_pc = "calibrate"
    /\ samples = BASELINE_SAMPLES
    /\ sensor_pc' = "delay"
    /\ UNCHANGED <<dhtVars, made, samples, baseline, i2c_mutex, record, lcdVars>>

\* vTaskDelay(READ_INTERVAL_MS)
Delay ==
    /\ sensor_pc = "delay"
    /\ PeriodPasses
    /\ record' = IF record = NoRecord THEN record
                 ELSE [record EXCEPT !.climate = Older(@)]
    /\ sensor_pc' = "take"
    /\ overtaken' = FALSE
    /\ UNCHANGED <<device, read_pc, made, samples, baseline, i2c_mutex, lcd_pc>>

SensorTake ==
    /\ sensor_pc = "take"
    /\ i2c_mutex = "free"
    /\ i2c_mutex' = "sensor"
    /\ sensor_pc' = "read"
    /\ read_pc' = "start"
    /\ UNCHANGED <<device, result, value, lastRead, clean, made, samples, baseline,
                   record, lcdVars>>

\* Not free within 100 ms: the sample is dropped, with its gas reading.
SensorTakeTimeout ==
    /\ sensor_pc = "take"
    /\ i2c_mutex = "lcd"
    /\ sensor_pc' = "delay"
    /\ UNCHANGED <<dhtVars, made, samples, baseline, i2c_mutex, record, lcdVars>>

ReadErrorSkipsGive ==    \* variant: `continue` on an error of read()
    /\ sensor_pc = "read"
    /\ Read
    /\ sensor_pc' = IF read_pc' # "returned" THEN "read"
                    ELSE IF value' = value THEN "delay" ELSE "give"
    /\ UNCHANGED <<made, samples, baseline, i2c_mutex, record, lcdVars>>

\* dht20.read(), whose result is ignored.
SensorRead ==
    /\ sensor_pc = "read"
    /\ Read
    /\ sensor_pc' = IF read_pc' = "returned" THEN "give" ELSE "read"
    /\ UNCHANGED <<made, samples, baseline, i2c_mutex, record, lcdVars>>

SensorGive ==
    /\ sensor_pc = "give"
    /\ i2c_mutex' = "free"
    /\ sensor_pc' = "gas"
    /\ UNCHANGED <<dhtVars, made, samples, baseline, record, lcdVars>>

\* data.gas / gas_baseline in floating point.
Ratio(gas) == IF baseline = "positive" THEN "finite"
              ELSE IF gas = "positive" THEN "inf" ELSE "nan"

\* The rest of the iteration.  Temperature, humidity and gas are never NaN, so
\* nothing is rejected; the ratio is not looked at.
Publish(gas) ==
    /\ sensor_pc = "gas"
    /\ record' = [climate |-> value, ratio |-> Ratio(gas)]
    /\ sensor_pc' = "delay"
    /\ UNCHANGED <<dhtVars, made, samples, baseline, i2c_mutex, lcdVars>>

-----------------------------------------------------------------------------
(* The LCD thread                                                            *)

LcdReceiveNoRecord ==    \* variant: shows something before the first record
    /\ made > 0
    /\ lcd_pc = "receive"
    /\ lcd_pc' = "take"
    /\ UNCHANGED <<dhtVars, made, taskVars, i2c_mutex, record, overtaken>>

\* A record has come through the queue, the controller and the stream buffer.
LcdReceive ==
    /\ lcd_pc = "receive"
    /\ record # NoRecord
    /\ lcd_pc' = "take"
    /\ UNCHANGED <<dhtVars, made, taskVars, i2c_mutex, record, overtaken>>

LcdTake ==
    /\ lcd_pc = "take"
    /\ i2c_mutex = "free"
    /\ i2c_mutex' = "lcd"
    /\ lcd_pc' = "print"
    /\ overtaken' = (overtaken \/ sensor_pc = "take")
    /\ UNCHANGED <<dhtVars, made, taskVars, record>>

LcdGive ==
    /\ lcd_pc = "print"
    /\ i2c_mutex' = "free"
    /\ lcd_pc' = "receive"
    /\ UNCHANGED <<dhtVars, made, taskVars, record, overtaken>>

-----------------------------------------------------------------------------
Sensor == (Unplug \/ Plug \/ MeasurementReady)
              /\ UNCHANGED <<made, taskVars, i2c_mutex, record, lcdVars>>

SensorTask == \/ \E gas \in Level : Calibrate(gas) \/ Publish(gas)
              \/ Calibrated \/ Delay
              \/ SensorTake \/ SensorTakeTimeout
              \/ SensorRead
              \/ SensorGive

LcdThread == LcdReceive \/ LcdTake \/ LcdGive

Next == Sensor \/ SensorTask \/ LcdThread \/ NullQueueRestart

\* The sensor finishes measuring; the sensor task is scheduled; the LCD thread
\* never keeps the mutex, and after a few prints it has nothing to print until
\* the next record, so that a mutex that comes free again and again while the
\* sensor task waits is finally its own.
Fairness == /\ WF_vars(Sensor /\ MeasurementReady)
            /\ WF_vars(SensorTask)
            /\ SF_vars(SensorTake)
            /\ WF_vars(LcdGive)
            /\ SF_vars(LcdTake)

Spec == Init /\ [][Next]_vars
FairSpec == Spec /\ Fairness

-----------------------------------------------------------------------------
(* Properties                                                                *)

\* Two periods without a failure are enough, whatever happened before: the
\* record published then holds a measurement of a calibrated sensor from this
\* period or the one before.  (read() refuses to read within a second of the
\* last time, and the period is a second: a skipped reading is followed by one
\* that is not, also after a corrupt one that counts as the last.)
RecentAfterCalm ==
    clean = Old /\ sensor_pc = "gas" => value.good /\ value.age < Old

\* A mutex is taken only if it exists, though setup() starts all tasks whatever
\* sensor_init has achieved; and by one thread at a time.
MutexExists ==
    /\ lcd_pc # "receive" \/ i2c_mutex # "free" => made >= 3
    /\ (lcd_pc = "print") <=> (i2c_mutex = "lcd")
    /\ (sensor_pc \in {"read", "give"}) <=> (i2c_mutex = "sensor")

\* The mutex comes back: once the sensor stays plugged in, read() ends, with
\* the transfers that fail on the way, and the sensor task gives the mutex back.
MutexReturned ==
    <>[](device # "absent") => (i2c_mutex = "sensor" ~> i2c_mutex # "sensor")

\* Samples keep coming under the same condition, although the LCD thread uses
\* the bus again and again: the gas readings do not freeze.  One print has to
\* take less than the 100 ms that the sensor task waits for the mutex.
SamplesKeepComing ==
    <>[](device # "absent" /\ Running) /\ <>[][SensorTakeTimeout => overtaken]_vars
        => []<>(sensor_pc = "gas")
=============================================================================
