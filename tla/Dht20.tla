-------------------------------- MODULE Dht20 --------------------------------
(* The temperature and humidity sensor and its driver (lib/DHT20/DHT20.cpp): *)
(* one action per bus transfer of read().  The sensor may be unplugged and   *)
(* plugged in at any moment, and a transfer may fail.  What the driver does  *)
(* with a failure is what read() does: a request that is not acknowledged    *)
(* returns a positive code, which `status < 0` lets pass; a status byte that *)
(* does not come reads as 0xFF, "calibrated" and "busy"; and convert() stores *)
(* both values before it compares the checksum.                              *)
(*                                                                           *)
(* A value is abstracted to its age in periods of the sensor task and to     *)
(* whether it is what a calibrated sensor measured.                          *)
EXTENDS Naturals

Old == 2    \* ages are counted up to Old
Reading == [age: 0 .. Old, good: BOOLEAN]
Bad == [age |-> Old, good |-> FALSE]

VARIABLES
    device,     \* the sensor: not there, without its calibration registers
                \* set, at rest, or measuring
    result,     \* the measurement it answers with
    read_pc,    \* where read() is; "returned" outside of it
    value,      \* _temperature and _humidity
    lastRead,   \* millis() - _lastRead: under a second, one second (give or
                \* take the tick in which vTaskDelay began), or more
    clean       \* history: periods begun since the last failure, up to Old

dhtVars == <<device, result, read_pc, value, lastRead, clean>>

DhtTypeOK ==
    /\ device \in {"absent", "uncalibrated", "idle", "measuring"}
    /\ {result, value} \subseteq Reading
    /\ read_pc \in {"returned", "start", "reset", "request", "busy", "data"}
    /\ lastRead \in {"recent", "second", "long"}
    /\ clean \in 0 .. Old

DhtInit ==
    /\ device \in {"absent", "uncalibrated", "idle"}
    /\ result = Bad /\ value = Bad
    /\ read_pc = "returned"
    /\ lastRead = "long"
    /\ clean = 0

-----------------------------------------------------------------------------
(* The sensor                                                                *)

Unplug ==
    /\ device # "absent"
    /\ device' = "absent"
    /\ clean' = 0
    /\ UNCHANGED <<result, read_pc, value, lastRead>>

Plug ==
    /\ device = "absent"
    /\ device' = "uncalibrated"
    /\ result' = Bad
    /\ clean' = 0
    /\ UNCHANGED <<read_pc, value, lastRead>>

MeasurementReady ==
    /\ device = "measuring"
    /\ device' = "idle"
    /\ result' = [age |-> 0, good |-> TRUE]
    /\ UNCHANGED <<read_pc, value, lastRead, clean>>

-----------------------------------------------------------------------------
(* The driver                                                                *)

ReadTooSoonRestamps ==    \* variant: _lastRead is set on every call
    /\ read_pc = "start"
    /\ lastRead # "long"
    /\ read_pc' = "returned"
    /\ lastRead' = "recent"
    /\ UNCHANGED <<device, result, value, clean>>

\* DHT20_ERROR_LASTREAD: the old values stay.
ReadTooSoon ==
    /\ read_pc = "start"
    /\ lastRead # "long"
    /\ read_pc' = "returned"
    /\ UNCHANGED <<device, result, value, lastRead, clean>>

ReadStarts ==
    /\ read_pc = "start"
    /\ lastRead # "recent"
    /\ read_pc' = "reset"
    /\ UNCHANGED <<device, result, value, lastRead, clean>>

\* resetSensor: a sensor without calibration is given its registers.  One that
\* is not there looks calibrated.
ResetSensor ==
    /\ read_pc = "reset"
    /\ device' = IF device = "uncalibrated" THEN "idle" ELSE device
    /\ read_pc' = "request"
    /\ UNCHANGED <<result, value, lastRead, clean>>

ResetFails ==
    /\ read_pc = "reset"
    /\ read_pc' = "request"
    /\ clean' = 0
    /\ UNCHANGED <<device, result, value, lastRead>>

\* requestData
Request ==
    /\ read_pc = "request"
    /\ device \in {"idle", "uncalibrated"}
    /\ device' = IF device = "idle" THEN "measuring" ELSE device
    /\ read_pc' = "busy"
    /\ UNCHANGED <<result, value, lastRead, clean>>

RequestFails ==
    /\ read_pc = "request"
    /\ read_pc' = "busy"
    /\ clean' = 0
    /\ UNCHANGED <<device, result, value, lastRead>>

\* `while (isMeasuring())` ends only when a status byte says so; a sensor that
\* is not there and a failed transfer keep it going.
NotBusy ==
    /\ read_pc = "busy"
    /\ device \in {"idle", "uncalibrated"}
    /\ read_pc' = "data"
    /\ UNCHANGED <<device, result, value, lastRead, clean>>

\* readData and convert
Convert ==
    /\ read_pc = "data"
    /\ device \in {"idle", "uncalibrated"}
    /\ value' = result
    /\ lastRead' = "recent"
    /\ read_pc' = "returned"
    /\ UNCHANGED <<device, result, clean>>

ConvertCorrupt ==
    /\ read_pc = "data"
    /\ device # "absent"
    /\ value' = Bad
    /\ lastRead' = "recent"
    /\ read_pc' = "returned"
    /\ clean' = 0
    /\ UNCHANGED <<device, result>>

\* No bytes, too few, or all zero.
DataFails ==
    /\ read_pc = "data"
    /\ read_pc' = "returned"
    /\ clean' = 0
    /\ UNCHANGED <<device, result, value, lastRead>>

-----------------------------------------------------------------------------
Read == \/ ReadTooSoon \/ ReadStarts
        \/ ResetSensor \/ ResetFails
        \/ Request \/ RequestFails
        \/ NotBusy
        \/ Convert \/ ConvertCorrupt \/ DataFails

\* What a period of the sensor task does to ages and times.
Older(r) == [r EXCEPT !.age = IF @ = Old THEN Old ELSE @ + 1]
Later(t) == IF t = "recent" THEN "second" ELSE "long"

PeriodPasses ==
    /\ result' = Older(result)
    /\ value' = Older(value)
    /\ lastRead' = Later(lastRead)
    /\ clean' = IF clean = Old THEN Old ELSE clean + 1

\* A restart of the program does not restart the sensor.
DhtRestart ==
    /\ value' = Bad /\ lastRead' = "long" /\ read_pc' = "returned"
    /\ clean' = 0
    /\ UNCHANGED <<device, result>>
=============================================================================
