------------------------------ MODULE LcdStream ------------------------------
(* The way of a record to the LCD (task_ui.cpp): the UI controller sends the *)
(* record byte by byte through a stream buffer, which knows no record        *)
(* boundaries, and waits at most 100 ms for space; the LCD thread takes a    *)
(* record's worth of bytes out, decides whether to show them, and prints     *)
(* them holding the I2C mutex, which it shares with the sensor task.         *)
EXTENDS Naturals, Sequences, FiniteSetsExt

CONSTANTS
    Readings,      \* the sensor records (sensor_data_t)
    NoReading,     \* a zero-initialised record that was never sent
    RecordSize,    \* sizeof(sensor_data_t) in bytes
    Slots          \* the stream buffer holds Slots * sizeof(sensor_data_t): 8

ASSUME NoReadingAssumption == NoReading \notin Readings
ASSUME RecordSizeAssumption == RecordSize \in Nat \ {0}
ASSUME SlotsAssumption == Slots \in Nat \ {0}

VARIABLES
    stream,        \* the bytes in uxCBT->myLCDstreamBuf
    lcd_pc,        \* where thread_lcd_display is
    recvData,      \* its receive buffer, byte by byte
    lastShownData, \* the bytes it last printed
    i2c            \* who holds sensor->i2c_mutex

lcdVars == <<stream, lcd_pc, recvData, lastShownData, i2c>>

\* The bytes of the records in S; the bytes of record r.
BytesOf(S) == [of : S, at : 1 .. RecordSize]
Bytes(r) == [k \in 1 .. RecordSize |-> [of |-> r, at |-> k]]

CapacityLessOne == Slots * RecordSize - 1    \* variant: one byte is reserved
Capacity == Slots * RecordSize
Space == Capacity - Len(stream)

LcdTypeOK ==
    /\ stream \in Seq(BytesOf(Readings))
    /\ Len(stream) <= Capacity
    /\ lcd_pc \in {"receive", "lock", "print"}
    /\ {recvData, lastShownData} \subseteq
           [1 .. RecordSize -> BytesOf(Readings \cup {NoReading})]
    /\ i2c \in {"free", "lcd", "sensor"}

LcdInit ==
    /\ stream = << >>
    /\ lcd_pc = "receive"
    /\ recvData = Bytes(NoReading)
    /\ lastShownData = Bytes(NoReading)
    /\ i2c = "free"

-----------------------------------------------------------------------------
LcdSendForever(r) ==    \* variant: the timeout is portMAX_DELAY
    /\ Space >= RecordSize
    /\ stream' = stream \o Bytes(r)
    /\ UNCHANGED <<lcd_pc, recvData, lastShownData, i2c>>

\* xStreamBufferSend of record r: it waits for space for the whole record, and
\* when it is still short of it after the timeout writes the bytes that fit.
LcdSend(r) ==
    /\ stream' = stream \o SubSeq(Bytes(r), 1, Min({RecordSize, Space}))
    /\ UNCHANGED <<lcd_pc, recvData, lastShownData, i2c>>

\* xStreamBufferReceive: up to a record's worth of the bytes there are.  A whole
\* record is shown when it differs from the one shown or a second has elapsed.
\* (Readings that differ by less than the thresholds are one reading here.)
LcdReceive ==
    LET n == Min({RecordSize, Len(stream)})
        shouldUpdate(elapsed) == recvData' # lastShownData \/ elapsed
    IN  /\ lcd_pc = "receive"
        /\ stream # << >>
        /\ recvData' = [k \in 1 .. RecordSize |-> IF k <= n THEN stream[k] ELSE recvData[k]]
        /\ stream' = SubSeq(stream, n + 1, Len(stream))
        /\ \E elapsed \in BOOLEAN :
              lcd_pc' = IF n = RecordSize /\ shouldUpdate(elapsed) THEN "lock" ELSE "receive"
        /\ UNCHANGED <<lastShownData, i2c>>

\* sensor_i2c_mutex_take(sensor, portMAX_DELAY)
LcdTakeMutex ==
    /\ lcd_pc = "lock"
    /\ i2c = "free"
    /\ i2c' = "lcd"
    /\ lcd_pc' = "print"
    /\ UNCHANGED <<stream, recvData, lastShownData>>

\* Print the two lines and give the mutex back.
LcdPrint ==
    /\ lcd_pc = "print"
    /\ i2c' = "free"
    /\ lastShownData' = recvData
    /\ lcd_pc' = "receive"
    /\ UNCHANGED <<stream, recvData>>

\* The sensor task takes the mutex to read the DHT20, and gives it back if
\* DHT20::read returns: it loops while the sensor answers "busy".
SensorTakeMutex ==
    /\ i2c = "free"
    /\ i2c' = "sensor"
    /\ UNCHANGED <<stream, lcd_pc, recvData, lastShownData>>

SensorGiveMutex ==
    /\ i2c = "sensor"
    /\ i2c' = "free"
    /\ UNCHANGED <<stream, lcd_pc, recvData, lastShownData>>

-----------------------------------------------------------------------------
LcdThread == LcdReceive \/ LcdTakeMutex \/ LcdPrint

LcdNext == \/ \E r \in Readings : LcdSend(r)
           \/ LcdThread
           \/ SensorTakeMutex \/ SensorGiveMutex

LcdSpec == LcdInit /\ [][LcdNext]_lcdVars

-----------------------------------------------------------------------------
\* The bytes s are those of n whole records, one after the other.
Framed(s, n) ==
    /\ Len(s) = n * RecordSize
    /\ \A q \in 0 .. n - 1, k \in 1 .. RecordSize :
          s[q * RecordSize + k] = [of |-> s[q * RecordSize + 1].of, at |-> k]

\* The stream buffer never holds a piece of a record, however often a send timed
\* out on a full buffer, so that what the LCD thread takes out and prints always
\* is one record, never the end of one and the beginning of the next.
WholeRecords ==
    /\ \E n \in 0 .. Slots : Framed(stream, n)
    /\ \E r \in Readings \cup {NoReading} : lastShownData = Bytes(r)
    /\ lcd_pc # "receive" => \E r \in Readings : recvData = Bytes(r)
=============================================================================
