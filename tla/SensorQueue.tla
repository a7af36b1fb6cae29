----------------------------- MODULE SensorQueue -----------------------------
(* The shared sensor record (task_sensor.cpp) and the tasks that use it: the *)
(* sensor task publishes a measurement each second in a queue of length one, *)
(* the TinyML task (task_tinyml.cpp) classifies the record it finds there    *)
(* and writes the class back, and the UI, web and CoreIoT tasks peek at it.  *)
(* Both writers peek, then overwrite, and nothing makes the pair atomic.     *)
(*                                                                           *)
(* A record is abstracted to the number of its measurement (seq) and its     *)
(* score.  The record whose seq is 0 is the zero-initialised sensor_data_t   *)
(* and, in the queue, the empty queue: records are only ever overwritten, so *)
(* a queue that has held a record never is empty again.                      *)
EXTENDS Naturals, Sequences

CONSTANTS
    Consumers,    \* the tasks that only read and have reached their loop: the
                  \* UI controller, the web server, CoreIoT once it is online
    Outputs,      \* the model's outputs, one score per class
    Unusable,     \* the measurement makes Invoke fail, or the output NaN or Inf
    MaxSamples    \* bound on the number of measurements

Class == 0 .. 2   \* 0: Normal, 1: Warning, 2: Critical

ASSUME OutputsAssumption ==
    Outputs \subseteq [normal: Nat, warning: Nat, critical: Nat]
ASSUME UnusableAssumption == Unusable \notin Outputs
ASSUME MaxSamplesAssumption == MaxSamples \in Nat

VARIABLES
    measured,         \* history: what the model computes for each measurement
    queue,            \* sensor->queue
    sensor_pc,        \* where sensor_task is
    avg_data,         \* sensor_task's record under construction
    ml_pc,            \* where task_tinyml is
    ml_data,          \* task_tinyml's copy of the record it classifies
    predicted_class,  \* the class it computed
    cur,              \* sensor_update_score's copy of the record
    consumer_pc,      \* where each consumer is
    got               \* each consumer's copy of the record

sensorVars == <<measured, sensor_pc, avg_data>>
mlVars == <<ml_pc, ml_data, predicted_class, cur>>
consumerVars == <<consumer_pc, got>>
vars == <<queue, sensorVars, mlVars, consumerVars>>

Record == [seq: Nat, score: Class]
NoRecord == [seq |-> 0, score |-> 0]

\* xQueuePeek of a non-empty queue returns pdTRUE and leaves the record there.
HasRecord == queue.seq # 0

PredictedClassFromOne(o) ==    \* variant: classes numbered from 1
    IF o.warning > o.normal /\ o.warning > o.critical THEN 2
    ELSE IF o.critical > o.normal /\ o.critical > o.warning THEN 3
    ELSE 1

\* The class task_tinyml computes from the three output scores.
PredictedClass(o) ==
    IF o.warning > o.normal /\ o.warning > o.critical THEN 1
    ELSE IF o.critical > o.normal /\ o.critical > o.warning THEN 2
    ELSE 0

\* The classes a measurement can be given: none if its inference fails.
Classes(m) == IF m = Unusable THEN {} ELSE {PredictedClass(m)}

TypeOK ==
    /\ measured \in Seq(Outputs \cup {Unusable})
    /\ {queue, avg_data, ml_data, cur} \subseteq Record
    /\ sensor_pc \in {"sample", "peek", "overwrite"}
    /\ ml_pc \in {"setup", "get", "invoke", "peek", "overwrite", "deleted"}
    /\ predicted_class \in Class
    /\ consumer_pc \in [Consumers -> {"get", "use"}]
    /\ got \in [Consumers -> Record]

Init ==
    /\ measured = << >>
    /\ queue = NoRecord
    /\ sensor_pc = "sample"
    /\ avg_data = NoRecord
    /\ ml_pc = "setup"
    /\ ml_data = NoRecord
    /\ predicted_class = 0
    /\ cur = NoRecord
    /\ consumer_pc = [c \in Consumers |-> "get"]
    /\ got = [c \in Consumers |-> NoRecord]

-----------------------------------------------------------------------------
(* sensor_task.  The iterations that time out on the I2C mutex (`continue`)  *)
(* change nothing here; every overwrite succeeds, so the accumulators are    *)
(* reset each time and the average is that of one measurement.               *)

\* Read the sensors and compute avg_data, whose score is still 0.
SensorSample(m) ==
    /\ sensor_pc = "sample"
    /\ Len(measured) < MaxSamples
    /\ measured' = Append(measured, m)
    /\ avg_data' = [seq |-> Len(measured'), score |-> 0]
    /\ sensor_pc' = "peek"
    /\ UNCHANGED <<queue, mlVars, consumerVars>>

\* Take over the score of the record in the queue (0 if the queue is empty).
SensorPeekScore ==
    /\ sensor_pc = "peek"
    /\ avg_data' = [avg_data EXCEPT !.score = queue.score]
    /\ sensor_pc' = "overwrite"
    /\ UNCHANGED <<queue, measured, mlVars, consumerVars>>

\* xQueueOverwrite of a queue of length one cannot fail.
SensorOverwrite ==
    /\ sensor_pc = "overwrite"
    /\ queue' = avg_data
    /\ sensor_pc' = "sample"
    /\ UNCHANGED <<measured, avg_data, mlVars, consumerVars>>

-----------------------------------------------------------------------------
(* sensor_get_data.  The caller's event bit is ignored and the record is     *)
(* peeked at, so any record satisfies any caller any number of times.  A     *)
(* call that times out on the empty queue changes nothing.                   *)

ConsumerGetDataIfNew(c) ==     \* variant: only a record the caller has not seen
    /\ consumer_pc[c] = "get"
    /\ queue.seq # got[c].seq
    /\ got' = [got EXCEPT ![c] = queue]
    /\ consumer_pc' = [consumer_pc EXCEPT ![c] = "use"]
    /\ UNCHANGED <<queue, sensorVars, mlVars>>

ConsumerReceivesData(c) ==     \* variant: xQueueReceive in place of xQueuePeek
    /\ consumer_pc[c] = "get"
    /\ HasRecord
    /\ got' = [got EXCEPT ![c] = queue]
    /\ queue' = NoRecord
    /\ consumer_pc' = [consumer_pc EXCEPT ![c] = "use"]
    /\ UNCHANGED <<sensorVars, mlVars>>

ConsumerGetData(c) ==
    /\ consumer_pc[c] = "get"
    /\ HasRecord
    /\ got' = [got EXCEPT ![c] = queue]
    /\ consumer_pc' = [consumer_pc EXCEPT ![c] = "use"]
    /\ UNCHANGED <<queue, sensorVars, mlVars>>

\* The consumer displays, sends or publishes its copy, then calls again.
ConsumerUse(c) ==
    /\ consumer_pc[c] = "use"
    /\ consumer_pc' = [consumer_pc EXCEPT ![c] = "get"]
    /\ UNCHANGED <<queue, sensorVars, mlVars, got>>

-----------------------------------------------------------------------------
(* task_tinyml                                                               *)

\* Any of the five set-up checks fails: the task deletes itself for good.
MlSetupFails ==
    /\ ml_pc = "setup"
    /\ ml_pc' = "deleted"
    /\ UNCHANGED <<queue, sensorVars, ml_data, predicted_class, cur, consumerVars>>

MlSetupOk ==
    /\ ml_pc = "setup"
    /\ ml_pc' = "get"
    /\ UNCHANGED <<queue, sensorVars, ml_data, predicted_class, cur, consumerVars>>

MlGetData ==
    /\ ml_pc = "get"
    /\ HasRecord
    /\ ml_data' = queue
    /\ ml_pc' = "invoke"
    /\ UNCHANGED <<queue, sensorVars, predicted_class, cur, consumerVars>>

\* Invoke fails or an output is NaN or Inf: `continue`.  Inference is a
\* function of the record, so it fails each time on the same measurement.
MlInvokeFails ==
    /\ ml_pc = "invoke"
    /\ measured[ml_data.seq] = Unusable
    /\ ml_pc' = "get"
    /\ UNCHANGED <<queue, sensorVars, ml_data, predicted_class, cur, consumerVars>>

MlClassifyLatest ==     \* variant: classifies the latest reading, not its copy
    /\ ml_pc = "invoke"
    /\ measured[Len(measured)] # Unusable
    /\ predicted_class' = PredictedClass(measured[Len(measured)])
    /\ ml_data' = [ml_data EXCEPT !.score = predicted_class']
    /\ ml_pc' = "peek"
    /\ UNCHANGED <<queue, sensorVars, cur, consumerVars>>

MlClassifyChanges ==    \* variant: writes back only a class that has changed
    /\ ml_pc = "invoke"
    /\ measured[ml_data.seq] # Unusable
    /\ predicted_class' = PredictedClass(measured[ml_data.seq])
    /\ ml_data' = [ml_data EXCEPT !.score = predicted_class']
    /\ ml_pc' = IF predicted_class' = predicted_class THEN "get" ELSE "peek"
    /\ UNCHANGED <<queue, sensorVars, cur, consumerVars>>

MlClassify ==
    /\ ml_pc = "invoke"
    /\ measured[ml_data.seq] # Unusable
    /\ predicted_class' = PredictedClass(measured[ml_data.seq])
    /\ ml_data' = [ml_data EXCEPT !.score = predicted_class']
    /\ ml_pc' = "peek"
    /\ UNCHANGED <<queue, sensorVars, cur, consumerVars>>

MlPeekOnce ==           \* variant: `cur` is static and filled on the first call
    /\ ml_pc = "peek"
    /\ cur' = IF cur = NoRecord THEN queue ELSE cur
    /\ ml_pc' = "overwrite"
    /\ UNCHANGED <<queue, sensorVars, ml_data, predicted_class, consumerVars>>

\* sensor_update_score, first half: peek at the record without blocking.
MlPeek ==
    /\ ml_pc = "peek"
    /\ IF HasRecord THEN cur' = queue /\ ml_pc' = "overwrite"
                    ELSE cur' = NoRecord /\ ml_pc' = "get"
    /\ UNCHANGED <<queue, sensorVars, ml_data, predicted_class, consumerVars>>

\* sensor_update_score, second half: write the copy back with the score.
MlOverwrite ==
    /\ ml_pc = "overwrite"
    /\ cur' = [cur EXCEPT !.score = predicted_class]
    /\ queue' = cur'
    /\ ml_pc' = "get"
    /\ UNCHANGED <<sensorVars, ml_data, predicted_class, consumerVars>>

-----------------------------------------------------------------------------
SensorStep == \/ \E m \in Outputs \cup {Unusable} : SensorSample(m)
              \/ SensorPeekScore
              \/ SensorOverwrite

MlStep == \/ MlSetupFails \/ MlSetupOk
          \/ MlGetData \/ MlInvokeFails \/ MlClassify
          \/ MlPeek \/ MlOverwrite

ConsumerStep(c) == ConsumerGetData(c) \/ ConsumerUse(c)

Next == SensorStep \/ MlStep \/ \E c \in Consumers : ConsumerStep(c)

\* FreeRTOS time-slices the tasks, all of priority 1: none that is ready is
\* kept waiting for ever.
Fairness == /\ WF_vars(SensorStep)
            /\ WF_vars(MlStep)
            /\ \A c \in Consumers : WF_vars(ConsumerStep(c))

Spec == Init /\ [][Next]_vars
FairSpec == Spec /\ Fairness

-----------------------------------------------------------------------------
(* Properties                                                                *)

\* The score of record r is 0 or the class of a measurement made up to r's.
Earned(r) == r.score = 0 \/ \E i \in 1 .. r.seq : r.score \in Classes(measured[i])

\* Every copy of the record: the queue's, both writers', the readers'.
Copies == {queue, avg_data, ml_data, cur} \cup {got[c] : c \in Consumers}

\* No phantom alarm: although the score and the measurement of a record are
\* written by different tasks, no copy of it held anywhere shows a level that
\* none of the measurements up to the one it shows was given.
NoPhantomAlarm == \A r \in Copies : Earned(r)

\* The write-back of the score may bring back an earlier record, but never one
\* older than the measurement being classified; and while a measurement is
\* being classified there is a record, so that the result of
\* sensor_update_score, which task_tinyml throws away, is never false.
NeverBehindClassifier ==
    /\ ml_data.seq <= queue.seq
    /\ ml_pc \in {"invoke", "peek", "overwrite"} => ml_data.seq >= 1

\* While the sensor task publishes nothing new, the score of the record settles
\* on the class of its own measurement, whatever was overwritten on the way:
\* unless TinyML is not running, there is no record, or it cannot be classified.
ScoreCatchesUp ==
    <>[](sensor_pc = "sample") =>
        <>[]( \/ ml_pc = "deleted"
              \/ ~HasRecord
              \/ measured[queue.seq] = Unusable
              \/ queue.score = PredictedClass(measured[queue.seq]) )

\* While the sensor task publishes nothing new, each reader ends up with the
\* record in the queue, its final score included: a reader is not left with a
\* record it read before the score was attached.
ConsumersConverge ==
    <>[](sensor_pc = "sample") => \A c \in Consumers : <>[](got[c] = queue)

-----------------------------------------------------------------------------
(* What a comment says, and the code does not do                             *)

\* task_sensor.cpp:160: publishing a measurement preserves the score TinyML has
\* set in the record it replaces.
PredictedScorePreserved ==
    [][sensor_pc = "overwrite" /\ sensor_pc' = "sample"
          => queue'.score = queue.score]_vars

-----------------------------------------------------------------------------
\* SensorQueue implements the abstract feed: the levels of a measurement are
\* the classes it can be given, the cell is the queue.
Feed == INSTANCE AlarmFeed
            WITH levels <- [i \in DOMAIN measured |-> Classes(measured[i])],
                 cell <- queue
FeedSpec == Feed!Spec
=============================================================================
