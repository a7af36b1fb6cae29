-------------------------- MODULE SensorQueueProofs --------------------------
(* Theorems about SensorQueue, for any set of readers, any set of outputs of *)
(* the model and any number of measurements.                                 *)
EXTENDS SensorQueue, TLAPS

-----------------------------------------------------------------------------
(* What makes the properties inductive                                       *)

\* No copy is of a measurement that was
\* not made, a pending sensor record is newer than all that is in the queue, a
\* pending write-back is not older than what was classified, and a class waiting
\* to be written is the one of the record it was computed from.
NoFutureRecord == \A r \in Copies : r.seq <= Len(measured)
WriteOrder ==
    /\ cur.seq <= queue.seq
    /\ sensor_pc # "sample" => queue.seq < avg_data.seq /\ avg_data.seq = Len(measured)
    /\ ml_pc = "overwrite" => ml_data.seq <= cur.seq
PendingClass ==
    ml_pc \in {"peek", "overwrite"} => predicted_class \in Classes(measured[ml_data.seq])

IInv == /\ TypeOK
        /\ NoPhantomAlarm
        /\ NeverBehindClassifier
        /\ NoFutureRecord
        /\ WriteOrder
        /\ PendingClass

-----------------------------------------------------------------------------
(* Lemmas about the operators                                                *)

\* The class computed by task_tinyml is one of the three.
LEMMA PredictedClassType == ASSUME NEW o PROVE PredictedClass(o) \in Class
  BY DEF PredictedClass, Class

\* A measurement that can be classified has exactly its predicted class.
LEMMA ClassesOfUsable ==
  ASSUME NEW m, m # Unusable PROVE PredictedClass(m) \in Classes(m)
  BY DEF Classes

\* The classes of a measurement are classes.
LEMMA ClassesType == ASSUME NEW m PROVE Classes(m) \subseteq Class
  BY PredictedClassType DEF Classes

\* A record that has earned its score keeps it when measurements are added.
LEMMA EarnedStable ==
  ASSUME measured \in Seq(Outputs \cup {Unusable}),
         NEW m \in Outputs \cup {Unusable}, measured' = Append(measured, m),
         NEW r \in Record, r.seq <= Len(measured), Earned(r)
  PROVE  Earned(r)'
  <1>1. CASE r.score = 0
    BY <1>1 DEF Earned
  <1>2. CASE \E i \in 1 .. r.seq : r.score \in Classes(measured[i])
    <2>1. PICK i \in 1 .. r.seq : r.score \in Classes(measured[i])
      BY <1>2
    <2>2. measured'[i] = measured[i]
      BY <2>1 DEF Record
    <2> QED BY <2>1, <2>2 DEF Earned
  <1> QED BY <1>1, <1>2 DEF Earned

\* Every copy of the record is a record.
LEMMA CopiesType == TypeOK => Copies \subseteq Record
  BY DEF TypeOK, Copies

-----------------------------------------------------------------------------
(* Type correctness                                                          *)

\* The initial state is well typed.
LEMMA InitTypeOK == Init => TypeOK
  BY DEF Init, TypeOK, Record, NoRecord, Class

\* Every step keeps the variables well typed.
LEMMA NextTypeOK == TypeOK /\ [Next]_vars => TypeOK'
  <1> SUFFICES ASSUME TypeOK, [Next]_vars PROVE TypeOK'
    OBVIOUS
  <1> USE DEF TypeOK, Record, Class
  <1>1. ASSUME NEW m \in Outputs \cup {Unusable}, SensorSample(m) PROVE TypeOK'
    BY <1>1 DEF SensorSample, mlVars, consumerVars
  <1>2. CASE SensorPeekScore
    BY <1>2 DEF SensorPeekScore, mlVars, consumerVars
  <1>3. CASE SensorOverwrite
    BY <1>3 DEF SensorOverwrite, mlVars, consumerVars
  <1>4. ASSUME NEW c \in Consumers, ConsumerGetData(c) PROVE TypeOK'
    BY <1>4 DEF ConsumerGetData, sensorVars, mlVars
  <1>5. ASSUME NEW c \in Consumers, ConsumerUse(c) PROVE TypeOK'
    BY <1>5 DEF ConsumerUse, sensorVars, mlVars
  <1>6. CASE MlSetupFails
    BY <1>6 DEF MlSetupFails, sensorVars, consumerVars
  <1>7. CASE MlSetupOk
    BY <1>7 DEF MlSetupOk, sensorVars, consumerVars
  <1>8. CASE MlGetData
    BY <1>8 DEF MlGetData, sensorVars, consumerVars
  <1>9. CASE MlInvokeFails
    BY <1>9 DEF MlInvokeFails, sensorVars, consumerVars
  <1>10. CASE MlClassify
    <2>1. predicted_class' \in Class
      BY <1>10, PredictedClassType DEF MlClassify
    <2> QED BY <1>10, <2>1 DEF MlClassify, sensorVars, consumerVars
  <1>11. CASE MlPeek
    BY <1>11 DEF MlPeek, NoRecord, sensorVars, consumerVars
  <1>12. CASE MlOverwrite
    BY <1>12 DEF MlOverwrite, sensorVars, consumerVars
  <1>13. CASE UNCHANGED vars
    BY <1>13 DEF vars, sensorVars, mlVars, consumerVars
  <1> QED
    BY <1>1, <1>2, <1>3, <1>4, <1>5, <1>6, <1>7, <1>8, <1>9, <1>10, <1>11,
       <1>12, <1>13 DEF Next, SensorStep, MlStep, ConsumerStep

\* Type correctness: every copy of the shared record, in the queue or in a task,
\* stays a numbered measurement with one of the three classes.
THEOREM TypeCorrect == Spec => []TypeOK
  BY InitTypeOK, NextTypeOK, PTL DEF Spec

-----------------------------------------------------------------------------
(* The safety invariants                                                     *)

\* The initial state satisfies the inductive invariant.
LEMMA InitIInv == Init => IInv
  <1> SUFFICES ASSUME Init PROVE IInv
    OBVIOUS
  <1>1. Copies \subseteq {NoRecord}
    BY DEF Init, Copies
  <1>2. NoPhantomAlarm /\ NoFutureRecord
    BY <1>1 DEF Init, NoPhantomAlarm, NoFutureRecord, Earned, NoRecord
  <1> QED
    BY InitTypeOK, <1>2
    DEF Init, IInv, NeverBehindClassifier, WriteOrder, PendingClass, NoRecord

\* A step that adds no measurement, and only copies that have earned their
\* score for a measurement that was made, keeps the two invariants on copies.
LEMMA CopiesKept ==
  ASSUME NoPhantomAlarm, NoFutureRecord, measured' = measured,
         NEW r, Earned(r), r.seq <= Len(measured),
         Copies' \subseteq Copies \cup {r}
  PROVE  NoPhantomAlarm' /\ NoFutureRecord'
  <1> SUFFICES ASSUME NEW q \in Copies'
               PROVE  Earned(q)' /\ q.seq <= Len(measured')
    BY DEF NoPhantomAlarm, NoFutureRecord
  <1>1. Earned(q) /\ q.seq <= Len(measured)
    BY DEF NoPhantomAlarm, NoFutureRecord
  <1> QED BY <1>1 DEF Earned

\* A new measurement keeps them: its record has no score yet.
LEMMA SamplePreserves ==
  ASSUME IInv, NEW m \in Outputs \cup {Unusable}, SensorSample(m)
  PROVE  IInv'
  <1> USE DEF SensorSample, mlVars, consumerVars
  <1>0. TypeOK /\ TypeOK'
    BY NextTypeOK DEF IInv, Next, SensorStep
  <1>1. Len(measured') = Len(measured) + 1 /\ Len(measured) \in Nat
    BY <1>0 DEF TypeOK
  <1>2. Copies' \subseteq Copies \cup {avg_data'}
    BY DEF Copies
  <1>3. ASSUME NEW r \in Copies'
        PROVE  Earned(r)' /\ r.seq <= Len(measured')
    <2>1. CASE r = avg_data'
      <3>1. r.score = 0 /\ r.seq = Len(measured')
        BY <2>1
      <3> QED BY <3>1, <1>1 DEF Earned
    <2>2. CASE r \in Copies
      <3>1. r \in Record /\ r.seq <= Len(measured) /\ Earned(r)
        BY <2>2, <1>0, CopiesType DEF IInv, NoPhantomAlarm, NoFutureRecord
      <3>2. Earned(r)'
        BY <3>1, <1>0, EarnedStable DEF TypeOK
      <3> QED BY <3>1, <3>2, <1>1 DEF Record
    <2> QED BY <2>1, <2>2, <1>2
  <1>4. NoPhantomAlarm' /\ NoFutureRecord'
    BY <1>3 DEF NoPhantomAlarm, NoFutureRecord
  <1>5. NeverBehindClassifier'
    BY DEF IInv, NeverBehindClassifier
  <1>6. queue.seq <= Len(measured) /\ ml_data.seq <= Len(measured)
    BY DEF IInv, NoFutureRecord, Copies
  <1>7. WriteOrder'
    BY <1>0, <1>1, <1>6 DEF IInv, WriteOrder, TypeOK, Record
  <1>8. PendingClass'
    <2> SUFFICES ASSUME ml_pc \in {"peek", "overwrite"}
                 PROVE  predicted_class \in Classes(measured'[ml_data.seq])
      BY DEF PendingClass
    <2>1. ml_data.seq \in 1 .. Len(measured)
      BY <1>0, <1>6 DEF IInv, NeverBehindClassifier, TypeOK, Record
    <2>2. measured'[ml_data.seq] = measured[ml_data.seq]
      BY <1>0, <2>1 DEF TypeOK
    <2> QED BY <2>2 DEF IInv, PendingClass
  <1> QED BY <1>0, <1>4, <1>5, <1>7, <1>8 DEF IInv

\* A class that waits to be written has been earned by every record that is not
\* older than the one it was computed from.
LEMMA PendingEarned ==
  ASSUME TypeOK, PendingClass, NeverBehindClassifier,
         ml_pc \in {"peek", "overwrite"},
         NEW r, r.seq \in Nat, ml_data.seq <= r.seq, r.score = predicted_class
  PROVE  Earned(r)
  <1>1. ml_data.seq \in 1 .. r.seq
    BY DEF NeverBehindClassifier, TypeOK, Record
  <1> QED BY <1>1 DEF Earned, PendingClass

\* Every step keeps the inductive invariant.
LEMMA NextIInv == IInv /\ [Next]_vars => IInv'
  <1> SUFFICES ASSUME IInv, [Next]_vars PROVE IInv'
    OBVIOUS
  <1>0. TypeOK /\ TypeOK'
    BY NextTypeOK DEF IInv
  <1>a. /\ NoPhantomAlarm /\ NoFutureRecord /\ NeverBehindClassifier
        /\ WriteOrder /\ PendingClass
    BY DEF IInv
  <1>q. Earned(queue) /\ queue.seq <= Len(measured) /\ Len(measured) \in Nat
    BY <1>0, <1>a DEF NoPhantomAlarm, NoFutureRecord, Copies, TypeOK
  <1> USE DEF sensorVars, mlVars, consumerVars
  <1>1. ASSUME NEW m \in Outputs \cup {Unusable}, SensorSample(m) PROVE IInv'
    BY <1>1, SamplePreserves
  <1>2. CASE SensorPeekScore
    <2> USE <1>2 DEF SensorPeekScore
    <2>1. avg_data'.score = queue.score /\ avg_data'.seq = avg_data.seq
      BY <1>0 DEF TypeOK, Record
    <2>2. Earned(avg_data')
      BY <2>1, <1>0, <1>a, <1>q DEF Earned, WriteOrder, TypeOK, Record
    <2>3. avg_data'.seq <= Len(measured)
      BY <2>1, <1>a, <1>q DEF WriteOrder
    <2>4. Copies' \subseteq Copies \cup {avg_data'}
      BY DEF Copies
    <2>5. NoPhantomAlarm' /\ NoFutureRecord'
      BY <2>2, <2>3, <2>4, <1>a, CopiesKept
    <2> QED
      BY <2>1, <2>5, <1>0, <1>a
      DEF IInv, NeverBehindClassifier, WriteOrder, PendingClass
  <1>3. CASE SensorOverwrite
    <2> USE <1>3 DEF SensorOverwrite
    <2>1. Copies' \subseteq Copies \cup {queue}
      BY DEF Copies
    <2>2. NoPhantomAlarm' /\ NoFutureRecord'
      BY <2>1, <1>a, <1>q, CopiesKept
    <2>3. queue.seq < queue'.seq
      BY <1>a DEF WriteOrder
    <2>4. NeverBehindClassifier' /\ WriteOrder'
      BY <2>3, <1>0, <1>a DEF NeverBehindClassifier, WriteOrder, TypeOK, Record
    <2> QED BY <2>2, <2>4, <1>0, <1>a DEF IInv, PendingClass
  <1>4. ASSUME NEW c \in Consumers, ConsumerGetData(c) PROVE IInv'
    <2> USE <1>4 DEF ConsumerGetData
    <2>1. Copies' \subseteq Copies \cup {queue}
      BY <1>0 DEF Copies, TypeOK
    <2>2. NoPhantomAlarm' /\ NoFutureRecord'
      BY <2>1, <1>a, <1>q, CopiesKept
    <2> QED
      BY <2>2, <1>0, <1>a DEF IInv, NeverBehindClassifier, WriteOrder, PendingClass
  <1>5. ASSUME NEW c \in Consumers, ConsumerUse(c) PROVE IInv'
    <2> USE <1>5 DEF ConsumerUse
    <2>1. NoPhantomAlarm' /\ NoFutureRecord'
      BY <1>a, <1>q, CopiesKept DEF Copies
    <2> QED
      BY <2>1, <1>0, <1>a DEF IInv, NeverBehindClassifier, WriteOrder, PendingClass
  <1>6. CASE MlSetupFails \/ MlSetupOk
    <2> USE <1>6 DEF MlSetupFails, MlSetupOk
    <2>1. NoPhantomAlarm' /\ NoFutureRecord'
      BY <1>a, <1>q, CopiesKept DEF Copies
    <2> QED
      BY <2>1, <1>0, <1>a DEF IInv, NeverBehindClassifier, WriteOrder, PendingClass
  <1>7. CASE MlGetData
    <2> USE <1>7 DEF MlGetData
    <2>1. Copies' \subseteq Copies \cup {queue}
      BY DEF Copies
    <2>2. NoPhantomAlarm' /\ NoFutureRecord'
      BY <2>1, <1>a, <1>q, CopiesKept
    <2>3. NeverBehindClassifier'
      BY <1>0 DEF NeverBehindClassifier, HasRecord, TypeOK, Record
    <2> QED BY <2>2, <2>3, <1>0, <1>a DEF IInv, WriteOrder, PendingClass
  <1>8. CASE MlInvokeFails
    <2> USE <1>8 DEF MlInvokeFails
    <2>1. NoPhantomAlarm' /\ NoFutureRecord'
      BY <1>a, <1>q, CopiesKept DEF Copies
    <2> QED
      BY <2>1, <1>0, <1>a DEF IInv, NeverBehindClassifier, WriteOrder, PendingClass
  <1>9. CASE MlClassify
    <2> USE <1>9 DEF MlClassify
    <2>1. ml_data'.seq = ml_data.seq /\ ml_data'.score = predicted_class'
      BY <1>0 DEF TypeOK, Record
    <2>2. NeverBehindClassifier' /\ WriteOrder'
      BY <2>1, <1>0, <1>a DEF NeverBehindClassifier, WriteOrder
    <2>3. PendingClass'
      BY <2>1, ClassesOfUsable DEF PendingClass
    <2>4. ml_data'.seq \in 1 .. ml_data'.seq
      BY <2>1, <1>0, <1>a DEF NeverBehindClassifier, TypeOK, Record
    <2>5. Earned(ml_data')
      BY <2>1, <2>4, ClassesOfUsable DEF Earned
    <2>6. ml_data'.seq <= Len(measured)
      BY <2>1, <1>0, <1>a, <1>q DEF NoFutureRecord, Copies
    <2>7. Copies' \subseteq Copies \cup {ml_data'}
      BY DEF Copies
    <2>8. NoPhantomAlarm' /\ NoFutureRecord'
      BY <2>5, <2>6, <2>7, <1>a, CopiesKept
    <2> QED BY <2>2, <2>3, <2>8, <1>0 DEF IInv
  <1>10. CASE MlPeek
    <2> USE <1>10 DEF MlPeek
    <2>1. HasRecord /\ cur' = queue /\ ml_pc' = "overwrite"
      BY <1>0, <1>a DEF HasRecord, NeverBehindClassifier, TypeOK, Record
    <2>2. Copies' \subseteq Copies \cup {queue}
      BY <2>1 DEF Copies
    <2>3. NoPhantomAlarm' /\ NoFutureRecord'
      BY <2>2, <1>a, <1>q, CopiesKept
    <2>4. NeverBehindClassifier' /\ WriteOrder'
      BY <2>1, <1>0, <1>a DEF NeverBehindClassifier, WriteOrder, TypeOK, Record
    <2> QED BY <2>3, <2>4, <1>0, <1>a DEF IInv, PendingClass
  <1>11. CASE MlOverwrite
    <2> USE <1>11 DEF MlOverwrite
    <2>1. queue' = cur' /\ cur'.seq = cur.seq /\ cur'.score = predicted_class
      BY <1>0 DEF TypeOK, Record
    <2>2. ml_data.seq <= cur.seq /\ cur.seq <= queue.seq
      BY <1>a DEF WriteOrder
    <2>3. Earned(cur')
      BY <2>1, <2>2, <1>0, <1>a, PendingEarned DEF TypeOK, Record
    <2>4. cur'.seq <= Len(measured)
      BY <2>1, <2>2, <1>0, <1>q DEF TypeOK, Record
    <2>5. Copies' \subseteq Copies \cup {cur'}
      BY <2>1 DEF Copies
    <2>6. NoPhantomAlarm' /\ NoFutureRecord'
      BY <2>3, <2>4, <2>5, <1>a, CopiesKept
    <2>7. NeverBehindClassifier' /\ WriteOrder'
      BY <2>1, <2>2, <1>0, <1>a DEF NeverBehindClassifier, WriteOrder, TypeOK, Record
    <2> QED BY <2>6, <2>7, <1>0 DEF IInv, PendingClass
  <1>12. CASE UNCHANGED vars
    <2> USE <1>12 DEF vars
    <2>1. NoPhantomAlarm' /\ NoFutureRecord'
      BY <1>a, <1>q, CopiesKept DEF Copies
    <2> QED
      BY <2>1, <1>0, <1>a DEF IInv, NeverBehindClassifier, WriteOrder, PendingClass
  <1> QED
    BY <1>1, <1>2, <1>3, <1>4, <1>5, <1>6, <1>7, <1>8, <1>9, <1>10, <1>11, <1>12
    DEF Next, SensorStep, MlStep, ConsumerStep

\* The inductive invariant holds in every reachable state.
LEMMA Inductive == Spec => []IInv
  BY InitIInv, NextIInv, PTL DEF Spec

\* However the peeks and overwrites of the two writers interleave, no task ever
\* holds a record whose score was not given to a measurement up to its own.
THEOREM NoPhantom == Spec => []NoPhantomAlarm
  <1>1. IInv => NoPhantomAlarm
    BY DEF IInv
  <1> QED BY Inductive, <1>1, PTL

\* A write-back never takes the shared record behind the measurement being
\* classified, and sensor_update_score always finds a record to update.
THEOREM ClassifierKeepsUp == Spec => []NeverBehindClassifier
  <1>1. IInv => NeverBehindClassifier
    BY DEF IInv
  <1> QED BY Inductive, <1>1, PTL

-----------------------------------------------------------------------------
(* Refinement                                                                *)

\* The levels of the abstract feed.
Levels == [i \in DOMAIN measured |-> Classes(measured[i])]

\* They are a sequence as long as the history of the measurements.
LEMMA LevelsType ==
  ASSUME TypeOK
  PROVE  /\ Levels \in Seq(SUBSET Class)
         /\ Len(Levels) = Len(measured)
         /\ \A i \in 1 .. Len(measured) : Levels[i] = Classes(measured[i])
  <1>1. DOMAIN measured = 1 .. Len(measured) /\ Len(measured) \in Nat
    BY DEF TypeOK
  <1>2. Levels \in [1 .. Len(measured) -> SUBSET Class]
    BY <1>1, ClassesType DEF Levels
  <1>3. Levels \in Seq(SUBSET Class)
    BY <1>1, <1>2
  <1> QED BY <1>1, <1>2, <1>3 DEF Levels

\* A new measurement appends its classes.
LEMMA LevelsAppend ==
  ASSUME TypeOK, TypeOK', NEW m \in Outputs \cup {Unusable},
         measured' = Append(measured, m)
  PROVE  Levels' = Append(Levels, Classes(m))
  <1> DEFINE A == Append(Levels, Classes(m))
             n == Len(measured)
  <1>1. Len(measured') = n + 1 /\ n \in Nat
    BY DEF TypeOK
  <1>2. /\ Levels \in Seq(SUBSET Class)
        /\ Len(Levels) = n
        /\ \A i \in 1 .. n : Levels[i] = Classes(measured[i])
    BY LevelsType
  <1>3. A \in Seq(SUBSET Class) /\ Len(A) = n + 1
    BY <1>1, <1>2, ClassesType
  <1>4. /\ Levels' \in Seq(SUBSET Class)
        /\ Len(Levels') = n + 1
        /\ \A i \in 1 .. n + 1 : Levels'[i] = Classes(measured'[i])
    <2>1. DOMAIN measured' = 1 .. n + 1
      BY <1>1 DEF TypeOK
    <2>2. Levels' \in [1 .. n + 1 -> SUBSET Class]
      BY <2>1, ClassesType DEF Levels
    <2>3. \A i \in 1 .. n + 1 : Levels'[i] = Classes(measured'[i])
      BY <2>1 DEF Levels
    <2> QED BY <2>2, <2>3, <1>1
  <1>5. ASSUME NEW i \in 1 .. n + 1 PROVE Levels'[i] = A[i]
    <2>1. CASE i = n + 1
      <3>1. measured'[i] = m
        BY <2>1, <1>1 DEF TypeOK
      <3>2. A[i] = Classes(m)
        BY <2>1, <1>1, <1>2, ClassesType
      <3> QED BY <3>1, <3>2, <1>4
    <2>2. CASE i \in 1 .. n
      <3>1. measured'[i] = measured[i]
        BY <2>2, <1>1 DEF TypeOK
      <3>2. A[i] = Levels[i]
        BY <2>2, <1>1, <1>2, ClassesType
      <3> QED BY <3>1, <3>2, <1>2, <1>4, <2>2
    <2>3. i = n + 1 \/ i \in 1 .. n
      BY <1>1
    <2> QED BY <2>1, <2>2, <2>3
  <1> QED BY <1>3, <1>4, <1>5

\* A record that has earned its score has earned it in the abstract feed.
LEMMA FeedEarned ==
  ASSUME TypeOK, NEW r \in Record, r.seq <= Len(measured), Earned(r)
  PROVE  Feed!Earned(r)
  <1>1. \A i \in 1 .. r.seq : Levels[i] = Classes(measured[i])
    BY LevelsType DEF TypeOK, Record
  <1> QED BY <1>1 DEF Earned, Feed!Earned, Levels

\* The initial state is an initial state of the feed.
LEMMA FeedInit == Init => Feed!Init
  <1> SUFFICES ASSUME Init PROVE Feed!Init
    OBVIOUS
  <1>1. Levels = << >>
    BY DEF Init, Levels
  <1>2. queue = Feed!Empty
    BY DEF Init, NoRecord, Feed!Empty
  <1> QED BY <1>1, <1>2 DEF Feed!Init, Levels

\* Every step is a step of the feed or leaves it unchanged.
LEMMA FeedNext == IInv /\ IInv' /\ [Next]_vars => [Feed!Next]_Feed!vars
  <1> SUFFICES ASSUME IInv, IInv', [Next]_vars PROVE [Feed!Next]_Feed!vars
    OBVIOUS
  <1>0. TypeOK /\ TypeOK'
    BY DEF IInv
  <1>l. /\ Len(Levels) = Len(measured)
        /\ \A i \in 1 .. Len(measured) : Levels[i] = Classes(measured[i])
    BY <1>0, LevelsType
  <1>s. ASSUME measured' = measured, queue' = queue
        PROVE  [Feed!Next]_Feed!vars
    BY <1>s DEF Feed!vars
  <1> USE DEF sensorVars, mlVars, consumerVars
  <1>1. ASSUME NEW m \in Outputs \cup {Unusable}, SensorSample(m)
        PROVE  Feed!Measure
    <2> USE <1>1 DEF SensorSample
    <2>1. Levels' = Append(Levels, Classes(m))
      BY <1>0, LevelsAppend
    <2>2. Classes(m) \in SUBSET Feed!Level
      BY ClassesType DEF Class, Feed!Level
    <2> QED BY <2>1, <2>2 DEF Feed!Measure, Levels
  <1>2. CASE SensorOverwrite
    <2> USE <1>2 DEF SensorOverwrite
    <2>1. queue.seq < Len(Levels) /\ queue'.seq = Len(Levels)
      BY <1>l DEF IInv, WriteOrder
    <2>2. queue' \in Record /\ queue'.score \in Feed!Level
      BY <1>0 DEF TypeOK, Record, Class, Feed!Level
    <2>3. queue' = [seq |-> Len(Levels), score |-> queue'.score]
      BY <2>1, <2>2 DEF Record
    <2>4. Earned(queue') /\ queue'.seq <= Len(measured)
      BY DEF IInv, NoPhantomAlarm, NoFutureRecord, Copies
    <2>5. Feed!Earned(queue')
      BY <2>2, <2>4, <1>0, FeedEarned
    <2>6. Levels' = Levels
      BY DEF Levels
    <2>7. Feed!Publish
      BY <2>1, <2>2, <2>3, <2>5, <2>6 DEF Feed!Publish, Levels
    <2> QED BY <2>7 DEF Feed!Next
  <1>3. CASE MlOverwrite
    <2> USE <1>3 DEF MlOverwrite
    <2>1. queue' \in Record
      BY <1>0 DEF TypeOK
    <2>2. queue'.seq = cur.seq /\ queue'.score = predicted_class
      BY <1>0 DEF TypeOK, Record
    <2>3. ml_data.seq \in 1 .. cur.seq /\ cur.seq \in 1 .. queue.seq
      BY <1>0 DEF IInv, WriteOrder, NeverBehindClassifier, TypeOK, Record
    <2>4. predicted_class \in Levels[ml_data.seq]
      <3>1. predicted_class \in Classes(measured[ml_data.seq])
        BY DEF IInv, PendingClass
      <3>2. ml_data.seq \in 1 .. Len(measured)
        BY <2>3, <1>0 DEF IInv, NoFutureRecord, Copies, TypeOK, Record
      <3> QED BY <3>1, <3>2, <1>l
    <2>5. \E n \in 1 .. queue.seq, s \in Feed!Level : queue' = [seq |-> n, score |-> s]
      BY <2>1, <2>2, <2>3 DEF Record, Class, Feed!Level
    <2>6. \E i \in 1 .. queue'.seq : queue'.score \in Levels[i]
      BY <2>2, <2>3, <2>4
    <2>7. Levels' = Levels
      BY DEF Levels
    <2>8. Feed!WriteBack
      BY <2>5, <2>6, <2>7 DEF Feed!WriteBack, Levels
    <2> QED BY <2>8 DEF Feed!Next
  <1>4. ASSUME NEW c \in Consumers, ConsumerStep(c) PROVE [Feed!Next]_Feed!vars
    BY <1>4, <1>s DEF ConsumerStep, ConsumerGetData, ConsumerUse
  <1>5. CASE SensorPeekScore
    BY <1>5, <1>s DEF SensorPeekScore
  <1>6. CASE MlSetupFails \/ MlSetupOk \/ MlGetData \/ MlInvokeFails \/ MlClassify \/ MlPeek
    BY <1>6, <1>s
    DEF MlSetupFails, MlSetupOk, MlGetData, MlInvokeFails, MlClassify, MlPeek
  <1>7. CASE UNCHANGED vars
    BY <1>7, <1>s DEF vars
  <1> QED
    BY <1>1, <1>2, <1>3, <1>4, <1>5, <1>6, <1>7
    DEF Next, SensorStep, MlStep, Feed!Next

\* The queue and its two writers implement the abstract feed: whatever the
\* interleaving, the cell only ever moves to the newest measurement or back to
\* one made before, always with a level that was earned.
THEOREM ImplementsFeed == Spec => FeedSpec
  <1>1. Spec => []IInv
    BY Inductive
  <1> QED BY <1>1, FeedInit, FeedNext, PTL DEF Spec, FeedSpec, Feed!Spec

=============================================================================
