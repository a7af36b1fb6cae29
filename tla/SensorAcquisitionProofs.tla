------------------------ MODULE SensorAcquisitionProofs ------------------------
(* Every behaviour of SensorAcquisition, for every number of calibration     *)
(* samples: the types, that mutexes are taken only when they exist, and that *)
(* two periods without a failure make the published record recent.           *)
EXTENDS SensorAcquisition, TLAPS

-----------------------------------------------------------------------------
(* What makes the properties inductive                                       *)

\* Without a failure in the present period, a reading of this period is good and new,
\* and one under way leads to that; without one in the last two, a reading of the last
\* period is good; and a period's call of read() leaves a reading of this period or the
\* last one.
GoodSinceRead ==
    /\ lastRead = "recent" /\ clean >= 1 => value.good /\ value.age = 0
    /\ lastRead = "second" /\ clean = Old => value.good /\ value.age < Old
    /\ sensor_pc \in {"give", "gas"} /\ clean >= 1 => lastRead # "long"
GoodUnderWay ==
    /\ read_pc = "request" /\ clean >= 1 => device # "uncalibrated"
    /\ read_pc \in {"busy", "data"} /\ clean >= 1 =>
           \/ device = "measuring"
           \/ device = "idle" /\ result.good /\ result.age = 0
\* read() runs only inside sensor_task, which runs only if all was created, and
\* only it makes records.
AllCreated ==
    /\ sensor_pc = "read" <=> read_pc # "returned"
    /\ sensor_pc # "calibrate" \/ record # NoRecord => Running

IInv == TypeOK /\ MutexExists /\ GoodSinceRead /\ GoodUnderWay /\ AllCreated

-----------------------------------------------------------------------------
USE DEF Old, Reading, Bad

LEMMA InitIInv == Init => IInv
  <1> SUFFICES ASSUME Init PROVE IInv
    OBVIOUS
  <1>1. TypeOK
    <2>1. Bad \in Reading
      OBVIOUS
    <2>2. DhtTypeOK
      BY <2>1 DEF Init, DhtInit, DhtTypeOK
    <2>3. samples \in 0 .. BASELINE_SAMPLES
      BY BaselineAssumption DEF Init
    <2> QED  BY <2>2, <2>3 DEF Init, TypeOK, Level
  <1>2. MutexExists /\ GoodSinceRead /\ GoodUnderWay /\ AllCreated
    BY DEF Running, Init, DhtInit, MutexExists, GoodSinceRead, GoodUnderWay, AllCreated
  <1> QED  BY <1>1, <1>2 DEF IInv

(* Ages stay readings, and a reading of this period becomes one of the last. *)
LEMMA OlderReading ==
  ASSUME NEW r \in Reading
  PROVE  /\ Older(r) \in Reading
         /\ Older(r).good = r.good
         /\ r.age = 0 => Older(r).age < Old
  <1>1. r = [age |-> r.age, good |-> r.good] /\ r.age \in 0 .. 2 /\ r.good \in BOOLEAN
    OBVIOUS
  <1> QED  BY <1>1 DEF Older

LEMMA StepIInv == IInv /\ [Next]_vars => IInv'
  <1> SUFFICES ASSUME IInv, [Next]_vars PROVE IInv'
    OBVIOUS
  <1> USE BaselineAssumption DEF IInv, TypeOK, DhtTypeOK, MutexExists, GoodSinceRead,
         GoodUnderWay, AllCreated, Level, Running, dhtVars, taskVars, lcdVars
  <1>1. CASE Sensor
    <2>1. CASE Unplug
      BY <1>1, <2>1 DEF Sensor, Unplug
    <2>2. CASE Plug
      BY <1>1, <2>2 DEF Sensor, Plug
    <2>3. CASE MeasurementReady
      BY <1>1, <2>3 DEF Sensor, MeasurementReady
    <2> QED  BY <1>1, <2>1, <2>2, <2>3 DEF Sensor
  <1>2. CASE SensorRead
    <2>1. CASE ReadTooSoon
      BY <1>2, <2>1 DEF SensorRead, ReadTooSoon
    <2>2. CASE ReadStarts
      BY <1>2, <2>2 DEF SensorRead, ReadStarts
    <2>3. CASE ResetSensor
      BY <1>2, <2>3 DEF SensorRead, ResetSensor
    <2>4. CASE ResetFails
      BY <1>2, <2>4 DEF SensorRead, ResetFails
    <2>5. CASE Request
      BY <1>2, <2>5 DEF SensorRead, Request
    <2>6. CASE RequestFails
      BY <1>2, <2>6 DEF SensorRead, RequestFails
    <2>7. CASE NotBusy
      BY <1>2, <2>7 DEF SensorRead, NotBusy
    <2>8. CASE Convert
      BY <1>2, <2>8 DEF SensorRead, Convert
    <2>9. CASE ConvertCorrupt
      BY <1>2, <2>9 DEF SensorRead, ConvertCorrupt
    <2>10. CASE DataFails
      BY <1>2, <2>10 DEF SensorRead, DataFails
    <2> QED  BY <1>2, <2>1, <2>2, <2>3, <2>4, <2>5, <2>6, <2>7, <2>8, <2>9, <2>10
             DEF SensorRead, Read
  <1>3. ASSUME NEW gas \in Level, Calibrate(gas) PROVE IInv'
    BY <1>3 DEF Calibrate
  <1>4. ASSUME NEW gas \in Level, Publish(gas) PROVE IInv'
    <2>1. record' \in Record
      BY <1>4 DEF Publish, Record, Ratio
    <2> QED  BY <1>4, <2>1 DEF Publish
  <1>5. CASE Calibrated
    BY <1>5 DEF Calibrated
  <1>6. CASE Delay
    <2>1. result' \in Reading /\ value' \in Reading
      BY <1>6, OlderReading DEF Delay, PeriodPasses
    <2>2. record' = NoRecord \/ record' \in Record
      <3>1. CASE record = NoRecord
        BY <1>6, <3>1 DEF Delay
      <3>2. CASE record # NoRecord
        <4>1. record \in Record /\ record.climate \in Reading
          BY <3>2 DEF Record
        <4>2. Older(record.climate) \in Reading
          BY <4>1, OlderReading
        <4> QED  BY <1>6, <3>2, <4>1, <4>2 DEF Delay, Record
      <3> QED  BY <3>1, <3>2
    <2>3. TypeOK'
      <3>1. DhtTypeOK'
        BY <1>6, <2>1 DEF Delay, PeriodPasses, Later
      <3> QED  BY <1>6, <2>2, <3>1 DEF Delay
    <2>4. GoodSinceRead'
      <3>1. value'.good = value.good /\ (value.age = 0 => value'.age < 2)
        BY <1>6, OlderReading DEF Delay, PeriodPasses
      <3>2. lastRead' = "second" => lastRead = "recent"
        BY <1>6 DEF Delay, PeriodPasses, Later
      <3>3. lastRead' # "recent" /\ sensor_pc' = "take"
        BY <1>6 DEF Delay, PeriodPasses, Later
      <3>4. clean' = 2 => clean >= 1
        BY <1>6 DEF Delay, PeriodPasses
      <3> QED  BY <3>1, <3>2, <3>3, <3>4
    <2>5. MutexExists' /\ GoodUnderWay' /\ AllCreated'
      BY <1>6 DEF Delay
    <2> QED  BY <2>3, <2>4, <2>5
  <1>7. CASE SensorTake
    BY <1>7 DEF SensorTake
  <1>8. CASE SensorTakeTimeout
    BY <1>8 DEF SensorTakeTimeout
  <1>9. CASE SensorGive
    BY <1>9 DEF SensorGive
  <1>10. CASE LcdReceive
    BY <1>10 DEF LcdReceive
  <1>11. CASE LcdTake
    BY <1>11 DEF LcdTake
  <1>12. CASE LcdGive
    BY <1>12 DEF LcdGive
  <1>13. CASE NullQueueRestart
    <2>1. value' \in Reading /\ samples' \in 0 .. BASELINE_SAMPLES
      BY <1>13 DEF NullQueueRestart, DhtRestart
    <2>2. TypeOK'
      <3>1. DhtTypeOK'
        BY <1>13, <2>1 DEF NullQueueRestart, DhtRestart
      <3> QED  BY <1>13, <2>1, <3>1 DEF NullQueueRestart
    <2>3. MutexExists' /\ GoodSinceRead' /\ GoodUnderWay' /\ AllCreated'
      BY <1>13 DEF NullQueueRestart, DhtRestart
    <2> QED  BY <2>2, <2>3
  <1>14. CASE UNCHANGED vars
    BY <1>14 DEF vars
  <1> HIDE DEF IInv, Level
  <1> QED  BY <1>1, <1>2, <1>3, <1>4, <1>5, <1>6, <1>7, <1>8, <1>9, <1>10, <1>11, <1>12,
              <1>13, <1>14 DEF Next, SensorTask, LcdThread

(* What GoodSinceRead is for: with no failure in two periods, the reading in *)
(* hand at Publish is of this period or of the one before.                   *)
LEMMA IInvRecent == IInv => RecentAfterCalm
  BY DEF IInv, RecentAfterCalm, TypeOK, DhtTypeOK, GoodSinceRead

LEMMA AlwaysIInv == Spec => []IInv
  BY InitIInv, StepIInv, PTL DEF Spec

(* sensor_init, sensor_task and the LCD thread keep their types, with        *)
(* any number of calibration samples: the calibration never takes one too    *)
(* many.                                                                     *)
THEOREM TypeCorrect == Spec => []TypeOK
  <1>1. IInv => TypeOK
    BY DEF IInv
  <1> QED  BY <1>1, AlwaysIInv, PTL

(* However many objects sensor_init fails to create, no task takes a mutex   *)
(* that does not exist, and the bus has one user at a time.                  *)
THEOREM MutexSafe == Spec => []MutexExists
  <1>1. IInv => MutexExists
    BY DEF IInv
  <1> QED  BY <1>1, AlwaysIInv, PTL

(* After any failures of the sensor, two periods without one are enough for  *)
(* the published record to hold a good measurement of at most a period ago.  *)
THEOREM RecentRecords == Spec => []RecentAfterCalm
  BY IInvRecent, AlwaysIInv, PTL
=============================================================================
