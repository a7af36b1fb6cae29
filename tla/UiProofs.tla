------------------------------- MODULE UiProofs -------------------------------
(* Theorems about the user interface: LcdStream, for any records, any size of *)
(* a record and any number of slots of the stream buffer; LcdOutput, which    *)
(* prints them, for any number of columns, lost transfers and resets; and     *)
(* UiDispatch, which sends its records over that LCD path.                    *)
EXTENDS UiDispatch, LcdOutput, SequenceTheorems, TLAPS

-----------------------------------------------------------------------------
(* What makes the properties inductive                                       *)

\* The types of the panel and of what the driver sends it.
PanelType ==
    {p \in [bits : {4, 8}, high : -1 .. 15, address : 0 .. 127, cgram : BOOLEAN,
            cells : [Cells -> 0 .. 255], twoLines : BOOLEAN, on : BOOLEAN,
            increment : BOOLEAN, scroll : BOOLEAN, scrolled : BOOLEAN] :
        p.bits = 8 => p.high = -1}
PinsType == [rs : BOOLEAN, nibble : 0 .. 15, en : BOOLEAN]
Calls == [rs : BOOLEAN, value : 0 .. 255, pulses : {TRUE}] \cup {Backlight}
PanelTypeOK ==
    /\ calls \in Seq(Calls)
    /\ done \in 0 .. Len(calls)
    /\ place \in 0 .. 5
    /\ place # 0 => ~AllMade /\ Call.pulses
    /\ pins \in PinsType
    /\ panel \in PanelType
    /\ damaged \in BOOLEAN

\* The expander puts out what the driver sent last, with E low between two calls.
Wired == IF place = 0 THEN ~pins.en ELSE pins = Transfers(Call)[place]

\* The panel takes four bits at a time, and holds the upper half of the call's
\* value once it has been sent.
InStep ==
    /\ panel.bits = 4
    /\ panel.high = IF place >= 3 THEN Call.value \div 16 ELSE -1

\* A panel p that shows what is written to it, from left to right.
Ready(p) == p.on /\ p.twoLines /\ ~p.scrolled /\ p.increment /\ ~p.scroll

\* The panel p after n calls of Lines: the cells left of and above the cursor show the
\* new text, the others the old one.
Written(n) == {a \in Cells : IF a < 64 THEN a + 2 <= n ELSE a - 64 + Columns + 3 <= n}
CursorAt(n) == IF n <= Columns + 1 THEN n - 1 ELSE 64 + n - Columns - 2
PrintedTo(p, n, old, new) ==
    /\ Ready(p)
    /\ p.cells = [a \in Cells |-> IF a \in Written(n) THEN new[a] ELSE old[a]]
    /\ n # 0 => ~p.cgram /\ p.address = CursorAt(n)

\* The panel p after n >= 3 calls of SetUp: one thing after the other is set.
SetTo(p, n) ==
    /\ n >= 4 => p.twoLines
    /\ n >= 5 => p.on
    /\ n >= 6 =>
           /\ p.increment /\ ~p.scrolled
           /\ p.cells = [a \in Cells |-> IF a + 12 <= n THEN Greeting[a] ELSE 32]
    /\ n >= 7 => ~p.scroll
    /\ n >= 11 => ~p.cgram /\ p.address = n - 11

\* Before that the set-up brings the panel to four bits whatever state it was in:
\* after the second half of its 3s at the latest the panel takes eight.
FirstHalves ==
    /\ done = 1 /\ place >= 3 => panel.bits = 8 \/ panel.high \in {-1, 3}
    /\ done = 2 /\ place < 3 => panel.bits = 8 \/ panel.high = 3
    /\ done = 2 /\ place >= 3 => panel.bits = 8

PrintingRecord == Wired /\ InStep /\ PrintedTo(panel, done, LastText, TextOf(recvData))
SettingUp ==
    /\ done # 0 => Wired
    /\ FirstHalves
    /\ done >= 3 => InStep /\ SetTo(panel, done)
Resting == Wired /\ InStep /\ Ready(panel) /\ panel.cells = LastText
OutputInv ==
    /\ PanelTypeOK
    /\ Printing => calls = Lines(recvData) /\ (~damaged => PrintingRecord)
    /\ ~Printing /\ ~AllMade =>
           /\ calls = SetUp /\ lastShownData = Bytes(NoReading)
           /\ ~damaged => SettingUp
    /\ ~Printing /\ AllMade /\ ~damaged => Resting

\* The two gas alarms are sent the same ratio, one after the other; before the
\* first one both are off.
SameRatioSent ==
    /\ ctrl_pc # "relay" => sent["buzzer"] = sent["relay"]
    /\ sent["buzzer"] = NoNotification => buzzer = 0
    /\ sent["relay"] = NoNotification => relay = "LOW"
    /\ ctrl_pc = "relay" => sent["buzzer"] = data.ratio

-----------------------------------------------------------------------------
(* The LCD path: lemmas about its operators                                  *)

\* The smaller of two numbers.
LEMMA MinOfTwo ==
  ASSUME NEW a \in Nat, NEW b \in Nat, a <= b
  PROVE  Min({a, b}) = a /\ Min({b, a}) = a
  BY DEF Min

\* Byte k of block q of n blocks of RecordSize bytes lies within the n blocks.
LEMMA BlockIndex ==
  ASSUME NEW n \in Nat, NEW q \in 0 .. n - 1, NEW k \in 1 .. RecordSize
  PROVE  q * RecordSize + k \in 1 .. n * RecordSize
  <1> DEFINE d == n - (q + 1)
  <1>1. d \in Nat /\ n = q + 1 + d /\ q \in Nat /\ RecordSize \in Nat
    BY RecordSizeAssumption
  <1>2. n * RecordSize = q * RecordSize + RecordSize + d * RecordSize
    BY <1>1
  <1>3. d * RecordSize \in Nat /\ q * RecordSize \in Nat
    BY <1>1
  <1> HIDE DEF d
  <1> QED BY <1>1, <1>2, <1>3

\* A record is a sequence of RecordSize bytes.
LEMMA BytesType ==
  ASSUME NEW S, NEW r \in S
  PROVE  /\ Bytes(r) \in Seq(BytesOf(S))
         /\ Bytes(r) \in [1 .. RecordSize -> BytesOf(S)]
         /\ Len(Bytes(r)) = RecordSize
         /\ \A k \in 1 .. RecordSize : Bytes(r)[k] = [of |-> r, at |-> k]
  BY RecordSizeAssumption DEF Bytes, BytesOf

\* A record appended to n whole records makes n + 1.
LEMMA FramedAppend ==
  ASSUME NEW S, NEW s \in Seq(BytesOf(S)), NEW r \in S, NEW n \in Nat, Framed(s, n)
  PROVE  Framed(s \o Bytes(r), n + 1)
  <1> DEFINE t == s \o Bytes(r)
             R == RecordSize
  <1>1. R \in Nat \ {0} /\ n * R \in Nat /\ (n + 1) * R = n * R + R
    BY RecordSizeAssumption
  <1>2. Len(s) = n * R
    BY DEF Framed
  <1>3. Len(t) = (n + 1) * R
    BY <1>1, <1>2, BytesType
  <1>4. ASSUME NEW i \in 1 .. n * R PROVE t[i] = s[i]
    BY <1>1, <1>2, BytesType
  <1>5. ASSUME NEW k \in 1 .. R PROVE t[n * R + k] = [of |-> r, at |-> k]
    BY <1>1, <1>2, BytesType
  <1>6. ASSUME NEW q \in 0 .. n, NEW k \in 1 .. R
        PROVE  t[q * R + k] = [of |-> t[q * R + 1].of, at |-> k]
    <2>1. CASE q = n
      <3>1. 1 \in 1 .. R
        BY <1>1
      <3>2. /\ t[n * R + k] = [of |-> r, at |-> k]
            /\ t[n * R + 1] = [of |-> r, at |-> 1]
        BY <3>1, <1>5
      <3> QED BY <2>1, <3>2
    <2>2. CASE q \in 0 .. n - 1
      <3>1. q * R + k \in 1 .. n * R /\ q * R + 1 \in 1 .. n * R
        BY <2>2, <1>1, BlockIndex
      <3>2. s[q * R + k] = [of |-> s[q * R + 1].of, at |-> k]
        BY <2>2 DEF Framed
      <3> QED BY <3>1, <3>2, <1>4
    <2>3. q = n \/ q \in 0 .. n - 1
      OBVIOUS
    <2> QED BY <2>1, <2>2, <2>3
  <1>7. 0 .. (n + 1) - 1 = 0 .. n
    OBVIOUS
  <1> QED BY <1>3, <1>6, <1>7 DEF Framed

\* The first of n + 1 whole records is a record, and n are left after it.
LEMMA FramedTail ==
  ASSUME NEW S, NEW s \in Seq(BytesOf(S)), NEW n \in Nat, Framed(s, n + 1)
  PROVE  /\ s[1].of \in S
         /\ \A k \in 1 .. RecordSize : s[k] = [of |-> s[1].of, at |-> k]
         /\ Framed(SubSeq(s, RecordSize + 1, Len(s)), n)
  <1> DEFINE R == RecordSize
             t == SubSeq(s, R + 1, Len(s))
  <1>1. /\ R \in Nat \ {0} /\ n * R \in Nat
        /\ (n + 1) * R = n * R + R
        /\ Len(s) = n * R + R
    BY RecordSizeAssumption DEF Framed
  <1>2. s[1].of \in S
    <2>1. 1 \in 1 .. Len(s)
      BY <1>1
    <2>2. s[1] \in BytesOf(S)
      BY <2>1
    <2> QED BY <2>2 DEF BytesOf
  <1>3. ASSUME NEW k \in 1 .. R PROVE s[k] = [of |-> s[1].of, at |-> k]
    <2>1. 0 \in 0 .. (n + 1) - 1 /\ 0 * R + k = k /\ 0 * R + 1 = 1
      BY <1>1
    <2> QED BY <2>1 DEF Framed
  <1>4. Len(t) = n * R
    BY <1>1
  <1>5. ASSUME NEW i \in 1 .. n * R PROVE t[i] = s[R + i]
    BY <1>1
  <1>6. ASSUME NEW q \in 0 .. n - 1, NEW k \in 1 .. R
        PROVE  t[q * R + k] = [of |-> t[q * R + 1].of, at |-> k]
    <2>1. q * R + k \in 1 .. n * R /\ q * R + 1 \in 1 .. n * R
      BY <1>1, BlockIndex
    <2>2. /\ q + 1 \in 0 .. (n + 1) - 1
          /\ (q + 1) * R + k = R + (q * R + k)
          /\ (q + 1) * R + 1 = R + (q * R + 1)
      BY <1>1
    <2>3. s[(q + 1) * R + k] = [of |-> s[(q + 1) * R + 1].of, at |-> k]
      BY <2>2 DEF Framed
    <2> QED BY <2>1, <2>2, <2>3, <1>5
  <1> QED BY <1>2, <1>3, <1>4, <1>6 DEF Framed

-----------------------------------------------------------------------------
(* Type correctness and framing                                              *)

LcdInv == LcdTypeOK /\ WholeRecords

\* The initial state satisfies the invariant.
LEMMA LcdInitInv == LcdInit => LcdInv
  <1> SUFFICES ASSUME LcdInit PROVE LcdInv
    OBVIOUS
  <1>1. Bytes(NoReading) \in [1 .. RecordSize -> BytesOf(Readings \cup {NoReading})]
    BY BytesType
  <1>2. LcdTypeOK
    <2>1. Slots * RecordSize \in Nat
      BY RecordSizeAssumption, SlotsAssumption
    <2>2. stream \in Seq(BytesOf(Readings)) /\ Len(stream) <= Capacity
      BY <2>1 DEF LcdInit, Capacity
    <2> QED BY <1>1, <2>2 DEF LcdInit, LcdTypeOK
  <1>3. 0 \in 0 .. Slots /\ Framed(<< >>, 0)
    BY RecordSizeAssumption, SlotsAssumption DEF Framed
  <1> QED BY <1>2, <1>3 DEF LcdInit, LcdInv, WholeRecords

\* A buffer of n whole records has no room left, or room for one more.
LEMMA RoomForOne ==
  ASSUME LcdTypeOK, NEW n \in 0 .. Slots, Framed(stream, n)
  PROVE  /\ n = Slots => Space = 0
         /\ n < Slots => Space \in Nat /\ RecordSize <= Space
         /\ (n + 1) * RecordSize = n * RecordSize + RecordSize
  <1> DEFINE d == Slots - n
  <1>1. n \in Nat /\ d \in Nat /\ Slots = n + d /\ RecordSize \in Nat \ {0}
    BY RecordSizeAssumption, SlotsAssumption
  <1>2. Slots * RecordSize = n * RecordSize + d * RecordSize
    BY <1>1
  <1>3. n * RecordSize \in Nat /\ d * RecordSize \in Nat
    BY <1>1
  <1>4. d >= 1 => d * RecordSize >= RecordSize
    <2>1. SUFFICES ASSUME d >= 1 PROVE d * RecordSize >= RecordSize
      OBVIOUS
    <2>2. (d - 1) \in Nat /\ (d - 1) * RecordSize \in Nat
      BY <1>1, <2>1
    <2>3. d * RecordSize = (d - 1) * RecordSize + RecordSize
      BY <1>1
    <2> QED BY <1>1, <1>3, <2>2, <2>3
  <1>5. Space = d * RecordSize
    BY <1>2, <1>3 DEF Space, Capacity, Framed
  <1>6. d = 0 => d * RecordSize = 0
    BY <1>1
  <1> HIDE DEF d
  <1>7. (n = Slots => d = 0) /\ (n < Slots => d >= 1)
    BY <1>1
  <1>8. (n + 1) * RecordSize = n * RecordSize + RecordSize
    BY <1>1
  <1> QED BY <1>1, <1>3, <1>4, <1>5, <1>6, <1>7, <1>8

\* Sending a record, with or without room for it, keeps the invariant.
LEMMA SendKeepsInv ==
  ASSUME LcdInv, NEW r \in Readings, LcdSend(r)
  PROVE  LcdInv'
  <1> USE RecordSizeAssumption, SlotsAssumption
  <1>1. LcdTypeOK /\ WholeRecords
    BY DEF LcdInv
  <1>2. PICK n \in 0 .. Slots : Framed(stream, n)
    BY <1>1 DEF WholeRecords
  <1>3. /\ Bytes(r) \in Seq(BytesOf(Readings))
        /\ Len(Bytes(r)) = RecordSize
    BY BytesType
  <1>4. CASE n = Slots
    <2>1. Space = 0
      BY <1>1, <1>2, <1>4, RoomForOne
    <2>2. Min({RecordSize, 0}) = 0
      BY MinOfTwo
    <2>3. SubSeq(Bytes(r), 1, 0) = << >>
      BY <1>3
    <2>4. stream' = stream \o << >>
      BY <2>1, <2>2, <2>3 DEF LcdSend
    <2>5. stream' = stream
      BY <1>1, <2>4 DEF LcdTypeOK
    <2> QED BY <1>1, <2>5 DEF LcdSend, LcdInv, LcdTypeOK, WholeRecords, Capacity
  <1>5. CASE n < Slots
    <2>1. Space \in Nat /\ RecordSize <= Space
      BY <1>1, <1>2, <1>5, RoomForOne
    <2>2. Min({RecordSize, Space}) = RecordSize
      BY <2>1, MinOfTwo
    <2>3. SubSeq(Bytes(r), 1, RecordSize) = Bytes(r)
      BY <1>3
    <2>4. stream' = stream \o Bytes(r)
      BY <2>2, <2>3 DEF LcdSend
    <2>5. Framed(stream', n + 1) /\ n + 1 \in 0 .. Slots
      <3>1. stream \in Seq(BytesOf(Readings)) /\ n \in Nat
        BY <1>1 DEF LcdTypeOK
      <3>2. Framed(stream \o Bytes(r), n + 1)
        BY <3>1, <1>2, FramedAppend
      <3> QED BY <1>5, <2>4, <3>2
    <2>6. stream' \in Seq(BytesOf(Readings)) /\ Len(stream') = Len(stream) + RecordSize
      <3> DEFINE B == BytesOf(Readings)
      <3>1. stream \in Seq(B) /\ Bytes(r) \in Seq(B)
        BY <1>1, <1>3 DEF LcdTypeOK
      <3> HIDE DEF B
      <3>2. stream' \in Seq(B) /\ Len(stream') = Len(stream) + Len(Bytes(r))
        BY <2>4, <3>1
      <3> QED BY <1>3, <3>2 DEF B
    <2>7. Len(stream') <= Capacity
      <3>1. Slots * RecordSize \in Nat
        OBVIOUS
      <3> QED BY <1>1, <2>1, <2>6, <3>1 DEF Space, Capacity, LcdTypeOK
    <2>8. LcdTypeOK'
      BY <1>1, <2>6, <2>7 DEF LcdTypeOK, Capacity, LcdSend
    <2>9. WholeRecords'
      BY <1>1, <2>5 DEF WholeRecords, LcdSend
    <2> QED BY <2>8, <2>9 DEF LcdInv
  <1> QED BY <1>2, <1>4, <1>5

\* Receiving takes exactly one record out of a buffer that is not empty.
LEMMA ReceiveKeepsInv ==
  ASSUME LcdInv, LcdReceive
  PROVE  LcdInv'
  <1> USE RecordSizeAssumption, SlotsAssumption
  <1> DEFINE k0 == Min({RecordSize, Len(stream)})
  <1>1. LcdTypeOK /\ WholeRecords
    BY DEF LcdInv
  <1>2. PICK n \in 0 .. Slots : Framed(stream, n)
    BY <1>1 DEF WholeRecords
  <1>3. n # 0
    <2> SUFFICES ASSUME n = 0 PROVE FALSE
      OBVIOUS
    <2>1. Len(stream) = 0
      BY <1>2 DEF Framed
    <2>2. stream = << >>
      BY <1>1, <2>1 DEF LcdTypeOK
    <2> QED BY <2>2 DEF LcdReceive
  <1> DEFINE p == n - 1
  <1>4. p \in 0 .. Slots /\ p \in Nat /\ p < Slots /\ Framed(stream, p + 1)
    BY <1>2, <1>3
  <1> HIDE DEF p
  <1>5. /\ stream[1].of \in Readings
        /\ \A k \in 1 .. RecordSize : stream[k] = [of |-> stream[1].of, at |-> k]
        /\ Framed(SubSeq(stream, RecordSize + 1, Len(stream)), p)
    BY <1>1, <1>4, FramedTail DEF LcdTypeOK
  <1>6. RecordSize <= Len(stream) /\ Len(stream) \in Nat
    <2>1. Len(stream) = (p + 1) * RecordSize
      BY <1>4 DEF Framed
    <2>2. p * RecordSize \in Nat /\ (p + 1) * RecordSize = p * RecordSize + RecordSize
      BY <1>4
    <2> QED BY <2>1, <2>2
  <1>7. k0 = RecordSize
    BY <1>6, MinOfTwo
  <1>8. recvData' = Bytes(stream[1].of)
    BY <1>5, <1>7 DEF LcdReceive, Bytes
  <1>9. stream' = SubSeq(stream, RecordSize + 1, Len(stream))
    BY <1>7 DEF LcdReceive
  <1>10. stream' \in Seq(BytesOf(Readings)) /\ Len(stream') <= Len(stream)
    BY <1>1, <1>6, <1>9 DEF LcdTypeOK
  <1>11. lcd_pc' \in {"receive", "lock"} /\ UNCHANGED <<lastShownData, i2c>>
    BY DEF LcdReceive
  <1>12. recvData' \in [1 .. RecordSize -> BytesOf(Readings \cup {NoReading})]
    BY <1>5, <1>8, BytesType
  <1>13. LcdTypeOK'
    <2>1. Slots * RecordSize \in Nat
      OBVIOUS
    <2>2. Len(stream') <= Capacity /\ Capacity' = Capacity
      BY <1>1, <1>6, <1>10, <2>1 DEF LcdTypeOK, Capacity
    <2>3. lcd_pc' \in {"receive", "lock", "print"} /\ i2c' \in {"free", "lcd", "sensor"}
      BY <1>1, <1>11 DEF LcdTypeOK
    <2>4. lastShownData' \in [1 .. RecordSize -> BytesOf(Readings \cup {NoReading})]
      BY <1>1, <1>11 DEF LcdTypeOK
    <2> QED BY <1>10, <1>12, <2>2, <2>3, <2>4 DEF LcdTypeOK
  <1>14. WholeRecords'
    BY <1>1, <1>4, <1>5, <1>8, <1>9, <1>11 DEF WholeRecords
  <1> QED BY <1>13, <1>14 DEF LcdInv

\* Every step keeps the invariant.
LEMMA LcdNextInv == LcdInv /\ [LcdNext]_lcdVars => LcdInv'
  <1> SUFFICES ASSUME LcdInv, [LcdNext]_lcdVars PROVE LcdInv'
    OBVIOUS
  <1>1. ASSUME NEW r \in Readings, LcdSend(r) PROVE LcdInv'
    BY <1>1, SendKeepsInv
  <1>2. CASE LcdReceive
    BY <1>2, ReceiveKeepsInv
  <1> USE DEF LcdInv, LcdTypeOK, WholeRecords, Capacity
  <1>3. CASE LcdTakeMutex
    BY <1>3 DEF LcdTakeMutex
  <1>4. CASE LcdPrint
    BY <1>4 DEF LcdPrint
  <1>5. CASE SensorTakeMutex
    BY <1>5 DEF SensorTakeMutex
  <1>6. CASE SensorGiveMutex
    BY <1>6 DEF SensorGiveMutex
  <1>7. CASE UNCHANGED lcdVars
    BY <1>7 DEF lcdVars
  <1> QED BY <1>1, <1>2, <1>3, <1>4, <1>5, <1>6, <1>7 DEF LcdNext, LcdThread

\* Type correctness; the stream buffer never exceeds its capacity.
THEOREM LcdTypeCorrect == LcdSpec => []LcdTypeOK
  <1>1. LcdInv => LcdTypeOK
    BY DEF LcdInv
  <1> QED BY LcdInitInv, LcdNextInv, <1>1, PTL DEF LcdSpec

\* The stream buffer loses the boundaries of the records but never breaks one:
\* its capacity is a multiple of a record, so a send that times out finds no
\* room at all, and the LCD never prints parts of two records.
THEOREM RecordsStayWhole == LcdSpec => []WholeRecords
  <1>1. LcdInv => WholeRecords
    BY DEF LcdInv
  <1> QED BY LcdInitInv, LcdNextInv, <1>1, PTL DEF LcdSpec

-----------------------------------------------------------------------------
(* LcdOutput: the framing of the LCD path survives resets of the             *)
(* microcontroller.                                                          *)

\* Seen from the stream buffer a step of the whole is one of LcdStream, or leaves
\* it alone, or starts it again.
LEMMA OutputStep == [OutputNext]_outputVars => [LcdNext]_lcdVars \/ LcdInit'
  <1> SUFFICES ASSUME [OutputNext]_outputVars PROVE [LcdNext]_lcdVars \/ LcdInit'
    OBVIOUS
  <1>1. ASSUME NEW r \in Readings, SendRecord(r) PROVE LcdNext
    BY <1>1 DEF SendRecord, LcdNext
  <1>2. CASE Transfer
    BY <1>2 DEF Transfer
  <1>3. CASE Receive \/ Printed
    BY <1>3 DEF Receive, Printed, LcdNext, LcdThread
  <1>4. CASE TakeMutex
    BY <1>4 DEF TakeMutex, LcdNext, LcdThread
  <1>5. CASE SensorUsesBus
    BY <1>5 DEF SensorUsesBus, LcdNext
  <1>6. CASE Restart
    BY <1>6 DEF Restart, LcdInit, Bytes
  <1>7. CASE UNCHANGED outputVars
    BY <1>7 DEF outputVars
  <1> QED BY <1>1, <1>2, <1>3, <1>4, <1>5, <1>6, <1>7 DEF OutputNext

LEMMA OutputKeepsInv == LcdInv /\ [OutputNext]_outputVars => LcdInv'
  <1>1. LcdInit' => LcdInv'
    BY LcdInitInv, PTL
  <1> QED BY <1>1, OutputStep, LcdNextInv

\* However records, timeouts and resets interleave, the stream buffer never holds
\* a piece of a record and the LCD thread never prints parts of two.
THEOREM OutputRecordsStayWhole == OutputSpec => [](LcdTypeOK /\ WholeRecords)
  <1>1. OutputInit => LcdInv
    BY LcdInitInv DEF OutputInit
  <1>2. LcdInv => LcdTypeOK /\ WholeRecords
    BY DEF LcdInv
  <1> QED BY <1>1, <1>2, OutputKeepsInv, PTL DEF OutputSpec

-----------------------------------------------------------------------------
(* LcdPanel: the driver's calls and the HD44780                              *)

\* A byte is its halves.
LEMMA HalvesOf ==
  ASSUME NEW v \in 0 .. 255
  PROVE  v \div 16 \in 0 .. 15 /\ v % 16 \in 0 .. 15 /\ 16 * (v \div 16) + (v % 16) = v
  <1>1. ASSUME NEW q \in Int, NEW m \in 0 .. 15, v = 16 * q + m PROVE q \in 0 .. 15
    BY <1>1
  <1>2. v \div 16 \in Int
    OBVIOUS
  <1>3. v % 16 \in 0 .. 15
    OBVIOUS
  <1>4. v = 16 * (v \div 16) + (v % 16)
    OBVIOUS
  <1>5. v \div 16 \in 0 .. 15
    BY <1>1, <1>2, <1>3, <1>4
  <1> QED  BY <1>3, <1>4, <1>5

\* What the driver puts on the expander for a call.
LEMMA TransfersOf ==
  ASSUME NEW c \in Calls
  PROVE  /\ c.pulses => /\ c.value \in 0 .. 255 /\ c.rs \in BOOLEAN
                        /\ Transfers(c) = Send(c) /\ Len(Transfers(c)) = 6
         /\ ~c.pulses => Transfers(c) = <<Byte(FALSE, 0, FALSE)>> /\ Len(Transfers(c)) = 1
         /\ \A k \in 1 .. Len(Transfers(c)) : Transfers(c)[k] \in PinsType
  <1>1. CASE c = Backlight
    <2>1. Transfers(c) = <<Byte(FALSE, 0, FALSE)>> /\ ~c.pulses
      BY <1>1 DEF Backlight, Transfers
    <2>2. Len(<<Byte(FALSE, 0, FALSE)>>) = 1 /\ <<Byte(FALSE, 0, FALSE)>>[1] = Byte(FALSE, 0, FALSE)
      OBVIOUS
    <2>3. Byte(FALSE, 0, FALSE) \in PinsType
      BY DEF Byte, PinsType
    <2>4. \A k \in 1 .. 1 : k = 1
      OBVIOUS
    <2> QED  BY <2>1, <2>2, <2>3, <2>4
  <1>2. CASE c \in [rs : BOOLEAN, value : 0 .. 255, pulses : {TRUE}]
    <2>1. c.pulses /\ c.value \in 0 .. 255 /\ c.rs \in BOOLEAN
      BY <1>2
    <2>2. c.value \div 16 \in 0 .. 15 /\ c.value % 16 \in 0 .. 15
      BY <2>1, HalvesOf
    <2>3. Transfers(c) = Send(c)
      BY <2>1 DEF Transfers
    <2>4. Send(c) \in Seq(PinsType) /\ Len(Send(c)) = 6
      BY <2>1, <2>2 DEF Send, Byte, PinsType
    <2> QED  BY <2>1, <2>3, <2>4, ElementOfSeq
  <1> QED  BY <1>1, <1>2 DEF Calls

\* Cells are addresses.
LEMMA CellsAre ==
  /\ Columns \in Nat /\ Columns >= 1 /\ Columns <= 16
  /\ \A a \in Cells : a \in Nat /\ a < 128 /\ (a < 64 => a < Columns) /\ (a >= 64 => a < 64 + Columns)
  BY ColumnsAssumption DEF Cells

\* Writing a character keeps the registers in their ranges, ...
LEMMA WriteCharTyped ==
  ASSUME NEW p \in PanelType, NEW v \in 0 .. 255
  PROVE  WriteChar(p, v) \in PanelType
  <1>1. Moved(p, p.increment) \in 0 .. 127
    BY DEF Moved, PanelType
  <1>2. PICK cells \in [Cells -> 0 .. 255] :
          cells = [a \in Cells |-> IF a = p.address /\ ~p.cgram THEN v ELSE p.cells[a]]
    BY DEF PanelType
  <1>3. PICK z \in BOOLEAN : z = (p.scrolled \/ p.scroll)
    OBVIOUS
  <1>4. WriteChar(p, v) = [p EXCEPT !.cells = cells, !.address = Moved(p, p.increment), !.scrolled = z]
    BY <1>2, <1>3 DEF WriteChar
  <1>5. [p EXCEPT !.cells = cells, !.address = Moved(p, p.increment), !.scrolled = z] \in PanelType
    BY <1>1 DEF PanelType
  <1> QED  BY <1>4, <1>5, Zenon

\* What the instructions do.
LEMMA Instructions ==
  ASSUME NEW p \in PanelType, NEW v \in 0 .. 255
  PROVE  /\ v >= 128 => Execute(p, v) = [p EXCEPT !.address = v - 128, !.cgram = FALSE]
         /\ v \in 64 .. 127 => Execute(p, v) = [p EXCEPT !.address = v - 64, !.cgram = TRUE]
         /\ v \in 32 .. 63 => Execute(p, v) =
               [p EXCEPT !.bits = IF Bit(v, 16) THEN 8 ELSE 4, !.twoLines = Bit(v, 8)]
         /\ v \in 16 .. 31 => Execute(p, v) = IF Bit(v, 8) THEN [p EXCEPT !.scrolled = TRUE]
                                               ELSE [p EXCEPT !.address = Moved(p, Bit(v, 4))]
         /\ v \in 8 .. 15 => Execute(p, v) = [p EXCEPT !.on = Bit(v, 4)]
         /\ v \in 4 .. 7 => Execute(p, v) = [p EXCEPT !.increment = Bit(v, 2), !.scroll = Bit(v, 1)]
         /\ v \in 2 .. 3 => Execute(p, v) = [p EXCEPT !.address = 0, !.cgram = FALSE, !.scrolled = FALSE]
         /\ v = 1 => Execute(p, v) =
               [p EXCEPT !.cells = Blank, !.address = 0, !.cgram = FALSE, !.scrolled = FALSE,
                         !.increment = TRUE]
         /\ v = 0 => Execute(p, v) = p
  <1>1. CASE v >= 128
    BY <1>1 DEF Execute
  <1>2. CASE v \in 64 .. 127
    BY <1>2 DEF Execute
  <1>3. CASE v \in 32 .. 63
    BY <1>3 DEF Execute
  <1>4. CASE v \in 16 .. 31
    BY <1>4 DEF Execute
  <1>5. CASE v \in 8 .. 15
    BY <1>5 DEF Execute
  <1>6. CASE v \in 4 .. 7
    BY <1>6 DEF Execute
  <1>7. CASE v \in 2 .. 3
    BY <1>7 DEF Execute
  <1>8. CASE v = 1
    BY <1>8 DEF Execute
  <1>9. CASE v = 0
    BY <1>9 DEF Execute
  <1> QED  BY <1>1, <1>2, <1>3, <1>4, <1>5, <1>6, <1>7, <1>8, <1>9

\* ... so does returning home, ...
LEMMA HomeTyped ==
  ASSUME NEW p \in PanelType
  PROVE  [p EXCEPT !.address = 0, !.cgram = FALSE, !.scrolled = FALSE] \in PanelType
  <1>1. [p EXCEPT !.address = 0] \in PanelType
    BY DEF PanelType
  <1>2. PICK q \in PanelType : q = [p EXCEPT !.address = 0]
    BY <1>1
  <1>3. [p EXCEPT !.address = 0, !.cgram = FALSE, !.scrolled = FALSE]
          = [q EXCEPT !.cgram = FALSE, !.scrolled = FALSE]
    BY <1>2 DEF PanelType
  <1>4. [q EXCEPT !.cgram = FALSE] \in PanelType
    BY DEF PanelType
  <1>5. PICK z \in PanelType : z = [q EXCEPT !.cgram = FALSE]
    BY <1>4
  <1>6. [q EXCEPT !.cgram = FALSE, !.scrolled = FALSE] = [z EXCEPT !.scrolled = FALSE]
    BY <1>5 DEF PanelType
  <1>7. [z EXCEPT !.scrolled = FALSE] \in PanelType
    BY DEF PanelType
  <1> QED BY <1>3, <1>6, <1>7, Zenon

\* ... so does clearing, ...
LEMMA ClearTyped ==
  ASSUME NEW p \in PanelType, NEW cells \in [Cells -> 0 .. 255]
  PROVE  [p EXCEPT !.cells = cells, !.address = 0, !.cgram = FALSE, !.scrolled = FALSE,
                   !.increment = TRUE] \in PanelType
  <1>1. PICK q \in PanelType : q = [p EXCEPT !.address = 0, !.cgram = FALSE, !.scrolled = FALSE]
    BY HomeTyped
  <1>2. [p EXCEPT !.cells = cells, !.address = 0, !.cgram = FALSE, !.scrolled = FALSE,
                  !.increment = TRUE]
          = [q EXCEPT !.cells = cells, !.increment = TRUE]
    BY <1>1 DEF PanelType
  <1>3. [q EXCEPT !.cells = cells, !.increment = TRUE] \in PanelType
    BY DEF PanelType
  <1> QED BY <1>2, <1>3, Zenon

\* ... and so does any instruction.
LEMMA ExecuteTyped ==
  ASSUME NEW p \in PanelType, NEW v \in 0 .. 255, p.high = -1
  PROVE  Execute(p, v) \in PanelType
  <1>1. \A b \in BOOLEAN : Moved(p, b) \in 0 .. 127
    BY DEF Moved, PanelType
  <1>2. Blank \in [Cells -> 0 .. 255]
    BY DEF Blank
  <1>3. \A w : Bit(v, w) \in BOOLEAN
    BY DEF Bit
  <1>4. CASE v >= 128
    <2>1. PICK n \in 0 .. 127 : n = v - 128
      BY <1>1, <1>2, <1>3, <1>4
    <2>2. Execute(p, v) = [p EXCEPT !.address = n, !.cgram = FALSE]
      BY <1>4, <2>1 DEF Execute
    <2>3. [p EXCEPT !.address = n, !.cgram = FALSE] \in PanelType
      BY DEF PanelType
    <2> QED  BY <2>2, <2>3, Zenon
  <1>5. CASE v \in 64 .. 127
    <2>1. PICK n \in 0 .. 127 : n = v - 64
      BY <1>1, <1>2, <1>3, <1>5
    <2>2. Execute(p, v) = [p EXCEPT !.address = n, !.cgram = TRUE]
      BY <1>5, <2>1 DEF Execute
    <2>3. [p EXCEPT !.address = n, !.cgram = TRUE] \in PanelType
      BY DEF PanelType
    <2> QED  BY <2>2, <2>3, Zenon
  <1>6. CASE v \in 32 .. 63
    <2>1. PICK n \in {4, 8}, z \in BOOLEAN : n = (IF Bit(v, 16) THEN 8 ELSE 4) /\ z = Bit(v, 8)
      BY <1>1, <1>2, <1>3, <1>6
    <2>2. Execute(p, v) = [p EXCEPT !.bits = n, !.twoLines = z]
      BY <1>6, <2>1 DEF Execute
    <2>3. [p EXCEPT !.bits = n, !.twoLines = z] \in PanelType
      BY DEF PanelType
    <2> QED  BY <2>2, <2>3, Zenon
  <1>7. CASE v \in 16 .. 31 /\ Bit(v, 8)
    <2>1. Execute(p, v) = [p EXCEPT !.scrolled = TRUE]
      BY <1>7 DEF Execute
    <2>2. [p EXCEPT !.scrolled = TRUE] \in PanelType
      BY DEF PanelType
    <2> QED  BY <2>1, <2>2, Zenon
  <1>8. CASE v \in 16 .. 31 /\ ~Bit(v, 8)
    <2>1. PICK n \in 0 .. 127 : n = Moved(p, Bit(v, 4))
      BY <1>1, <1>2, <1>3, <1>8
    <2>2. Execute(p, v) = [p EXCEPT !.address = n]
      BY <1>8, <2>1 DEF Execute
    <2>3. [p EXCEPT !.address = n] \in PanelType
      BY DEF PanelType
    <2> QED  BY <2>2, <2>3, Zenon
  <1>9. CASE v \in 8 .. 15
    <2>1. PICK z \in BOOLEAN : z = Bit(v, 4)
      BY <1>1, <1>2, <1>3, <1>9
    <2>2. Execute(p, v) = [p EXCEPT !.on = z]
      BY <1>9, <2>1 DEF Execute
    <2>3. [p EXCEPT !.on = z] \in PanelType
      BY DEF PanelType
    <2> QED  BY <2>2, <2>3, Zenon
  <1>10. CASE v \in 4 .. 7
    <2>1. PICK y \in BOOLEAN, z \in BOOLEAN : y = Bit(v, 2) /\ z = Bit(v, 1)
      BY <1>1, <1>2, <1>3, <1>10
    <2>2. Execute(p, v) = [p EXCEPT !.increment = y, !.scroll = z]
      BY <1>10, <2>1 DEF Execute
    <2>3. [p EXCEPT !.increment = y, !.scroll = z] \in PanelType
      BY DEF PanelType
    <2> QED  BY <2>2, <2>3, Zenon
  <1>11. CASE v \in 2 .. 3
    <2>1. Execute(p, v) = [p EXCEPT !.address = 0, !.cgram = FALSE, !.scrolled = FALSE]
      BY <1>11, Instructions
    <2> QED  BY <2>1, HomeTyped, Zenon
  <1>12. CASE v = 1
    <2>1. Execute(p, v) = [p EXCEPT !.cells = Blank, !.address = 0, !.cgram = FALSE, !.scrolled = FALSE,
                                 !.increment = TRUE]
      BY <1>12, Instructions
    <2> QED  BY <1>2, <2>1, ClearTyped, Zenon
  <1>13. CASE v = 0
    BY <1>13 DEF Execute
  <1> QED  BY <1>4, <1>5, <1>6, <1>7, <1>8, <1>9, <1>10, <1>11, <1>12, <1>13

\* What a falling E does keeps the panel's registers in their ranges.
LEMMA LatchTyped ==
  ASSUME NEW p \in PanelType, NEW rs \in BOOLEAN, NEW n \in 0 .. 15
  PROVE  Latch(p, rs, n) \in PanelType
  <1>1. CASE p.bits = 8
    <2>1. p.high = -1 /\ 16 * n + 15 \in 0 .. 255
      BY <1>1 DEF PanelType
    <2>2. Latch(p, rs, n) = IF rs THEN WriteChar(p, 16 * n + 15) ELSE Execute(p, 16 * n + 15)
      BY <1>1 DEF Latch
    <2> QED  BY <2>1, <2>2, WriteCharTyped, ExecuteTyped
  <1>2. CASE p.bits # 8 /\ p.high = -1
    BY <1>2 DEF Latch, PanelType
  <1>3. CASE p.bits # 8 /\ p.high # -1
    <2> DEFINE q == [p EXCEPT !.high = -1]
               v == 16 * p.high + n
    <2>1. q \in PanelType /\ q.high = -1
      BY DEF PanelType
    <2>2. v \in 0 .. 255
      BY <1>3 DEF PanelType
    <2>3. Latch(p, rs, n) = IF rs THEN WriteChar(q, v) ELSE Execute(q, v)
      BY <1>3 DEF Latch
    <2> HIDE DEF q, v
    <2> QED  BY <2>1, <2>2, <2>3, WriteCharTyped, ExecuteTyped
  <1> QED  BY <1>1, <1>2, <1>3

\* The bits of the values that begin() sends.
LEMMA Bits ==
  /\ Bit(63, 16) /\ Bit(51, 16) /\ ~Bit(47, 16) /\ Bit(47, 8)
  /\ ~Bit(40, 16) /\ Bit(40, 8)
  /\ Bit(12, 4) /\ Bit(6, 2) /\ ~Bit(6, 1)
  BY DEF Bit

\* What each command of begin() sets, and that it leaves the rest alone: 4 bits and two
\* lines, ...
LEMMA TwoLinesEffect ==
  ASSUME NEW p \in PanelType, NEW v, v = 40, NEW e, e = Execute(p, v)
  PROVE  /\ e.bits = 4 /\ e.high = p.high /\ e.address = p.address /\ e.cgram = p.cgram /\ e.cells = p.cells
         /\ e.twoLines /\ e.on = p.on /\ e.increment = p.increment /\ e.scroll = p.scroll /\ e.scrolled = p.scrolled
  <1>1. v \in 0 .. 255 /\ v \in 32 .. 63
    OBVIOUS
  <1>2. PICK y \in BOOLEAN, z \in BOOLEAN : y = Bit(v, 16) /\ z = Bit(v, 8)
    BY DEF Bit
  <1>3. ~y /\ z
    BY <1>2, Bits
  <1>4. Execute(p, v) = [p EXCEPT !.bits = IF y THEN 8 ELSE 4, !.twoLines = z]
    BY <1>1, <1>2 DEF Execute
  <1> QED  BY <1>3, <1>4 DEF PanelType

\* ... the display on, ...
LEMMA OnEffect ==
  ASSUME NEW p \in PanelType, NEW v, v = 12, NEW e, e = Execute(p, v)
  PROVE  /\ e.bits = p.bits /\ e.high = p.high /\ e.address = p.address /\ e.cgram = p.cgram /\ e.cells = p.cells
         /\ e.twoLines = p.twoLines /\ e.on /\ e.increment = p.increment /\ e.scroll = p.scroll /\ e.scrolled = p.scrolled
  <1>1. v \in 0 .. 255 /\ v \in 8 .. 15
    OBVIOUS
  <1>2. PICK y \in BOOLEAN : y = Bit(v, 4)
    BY DEF Bit
  <1>3. y
    BY <1>2, Bits
  <1>4. Execute(p, v) = [p EXCEPT !.on = y]
    BY <1>1, <1>2 DEF Execute
  <1> QED  BY <1>3, <1>4 DEF PanelType

\* ... from left to right without scrolling, ...
LEMMA EntryEffect ==
  ASSUME NEW p \in PanelType, NEW v, v = 6, NEW e, e = Execute(p, v)
  PROVE  /\ e.bits = p.bits /\ e.high = p.high /\ e.address = p.address /\ e.cgram = p.cgram /\ e.cells = p.cells
         /\ e.twoLines = p.twoLines /\ e.on = p.on /\ e.increment /\ ~e.scroll /\ e.scrolled = p.scrolled
  <1>1. v \in 0 .. 255 /\ v \in 4 .. 7
    OBVIOUS
  <1>2. PICK y \in BOOLEAN, z \in BOOLEAN : y = Bit(v, 2) /\ z = Bit(v, 1)
    BY DEF Bit
  <1>3. y /\ ~z
    BY <1>2, Bits
  <1>4. Execute(p, v) = [p EXCEPT !.increment = y, !.scroll = z]
    BY <1>1, <1>2 DEF Execute
  <1> QED  BY <1>3, <1>4 DEF PanelType

\* ... the cursor at the first cell, ...
LEMMA HomeEffect ==
  ASSUME NEW p \in PanelType, NEW v, v = 2, NEW e, e = Execute(p, v)
  PROVE  /\ e.bits = p.bits /\ e.high = p.high /\ e.address = 0 /\ ~e.cgram /\ e.cells = p.cells
         /\ e.twoLines = p.twoLines /\ e.on = p.on /\ e.increment = p.increment /\ e.scroll = p.scroll /\ ~e.scrolled
  <1>1. v \in 0 .. 255 /\ v \in 2 .. 3
    OBVIOUS
  <1>2. Execute(p, v) = [p EXCEPT !.address = 0, !.cgram = FALSE, !.scrolled = FALSE]
    BY <1>1, Instructions
  <1> QED  BY <1>2 DEF PanelType

\* ... and all cells blank.
LEMMA ClearEffect ==
  ASSUME NEW p \in PanelType, NEW v, v = 1, NEW e, e = Execute(p, v)
  PROVE  /\ e.bits = p.bits /\ e.high = p.high /\ e.address = 0 /\ ~e.cgram /\ e.cells = Blank
         /\ e.twoLines = p.twoLines /\ e.on = p.on /\ e.increment /\ e.scroll = p.scroll /\ ~e.scrolled
  <1>1. v \in 0 .. 255
    OBVIOUS
  <1>2. Execute(p, v) = [p EXCEPT !.cells = Blank, !.address = 0, !.cgram = FALSE, !.scrolled = FALSE,
                                !.increment = TRUE]
    BY <1>1, Instructions
  <1> QED  BY <1>2 DEF PanelType

\* e is the panel p with the cursor at an address.
Places(p, at, e) ==
  /\ e.bits = p.bits /\ e.high = p.high /\ e.address = at /\ ~e.cgram /\ e.cells = p.cells
  /\ e.twoLines = p.twoLines /\ e.on = p.on /\ e.increment = p.increment /\ e.scroll = p.scroll
  /\ e.scrolled = p.scrolled
  /\ Ready(p) => Ready(e)

\* setCursor moves the cursor and does nothing else.
LEMMA CursorEffect ==
  ASSUME NEW p \in PanelType, NEW v \in 128 .. 255, NEW e, e = Execute(p, v)
  PROVE  Places(p, v - 128, e)
  <1>1. PICK n \in 0 .. 127 : n = v - 128
    OBVIOUS
  <1>2. Execute(p, v) = [p EXCEPT !.address = n, !.cgram = FALSE]
    BY <1>1 DEF Execute
  <1>3. e.address = n
    BY <1>2 DEF PanelType
  <1>4. e.address = v - 128
    BY <1>1, <1>3, Zenon
  <1>5. e.bits = p.bits /\ e.high = p.high /\ ~e.cgram /\ e.cells = p.cells
    BY <1>2 DEF PanelType
  <1>6. /\ e.twoLines = p.twoLines /\ e.on = p.on /\ e.increment = p.increment
        /\ e.scroll = p.scroll /\ e.scrolled = p.scrolled
    BY <1>2 DEF PanelType
  <1>7. Ready(p) => Ready(e)
    BY <1>6, Zenon DEF Ready
  <1> QED  BY <1>4, <1>5, <1>6, <1>7, Zenon DEF Places

\* e is the panel p with the character v at the cursor, which has moved on.
Put(cells, at, v) == [a \in Cells |-> IF a = at THEN v ELSE cells[a]]
Writes(p, v, e) ==
  /\ e.bits = p.bits /\ e.high = p.high /\ Ready(e)
  /\ e.address = Moved(p, TRUE) /\ ~e.cgram
  /\ e.cells = Put(p.cells, p.address, v)

\* write does that.
LEMMA WriteEffect ==
  ASSUME NEW p \in PanelType, NEW v \in 0 .. 255, NEW e, e = WriteChar(p, v), ~p.cgram, Ready(p)
  PROVE  Writes(p, v, e)
  <1>1. PICK m : m = Moved(p, p.increment)
    OBVIOUS
  <1>2. p.increment = TRUE
    BY DEF Ready, PanelType
  <1>3. PICK c : c = Put(p.cells, p.address, v)
    OBVIOUS
  <1>4. WriteChar(p, v) = [p EXCEPT !.cells = c, !.address = m, !.scrolled = p.scrolled]
    BY <1>1, <1>3 DEF WriteChar, PanelType, Ready, Put
  <1>5. e.address = m /\ e.cells = c
    BY <1>4 DEF PanelType
  <1>6. e.address = Moved(p, TRUE)
    BY <1>1, <1>2, <1>5, Zenon
  <1>7. /\ e.bits = p.bits /\ e.high = p.high /\ e.cgram = p.cgram
        /\ e.twoLines = p.twoLines /\ e.on = p.on /\ e.increment = p.increment
        /\ e.scroll = p.scroll /\ e.scrolled = p.scrolled
    BY <1>4 DEF PanelType
  <1>8. Ready(e)
    BY <1>7, Zenon DEF Ready
  <1> QED  BY <1>3, <1>5, <1>6, <1>7, <1>8, Zenon DEF Writes

\* What a falling E does to a panel that takes four bits at a time.
LEMMA UpperLatched ==
  ASSUME NEW p \in PanelType, p.bits = 4, p.high = -1, NEW rs \in BOOLEAN, NEW n \in 0 .. 15,
         NEW q, q = Latch(p, rs, n)
  PROVE  /\ q.bits = p.bits /\ q.high = n /\ q.address = p.address /\ q.cgram = p.cgram /\ q.cells = p.cells
         /\ q.twoLines = p.twoLines /\ q.on = p.on /\ q.increment = p.increment /\ q.scroll = p.scroll /\ q.scrolled = p.scrolled
  <1>1. Latch(p, rs, n) = [p EXCEPT !.high = n]
    BY DEF Latch
  <1> QED  BY <1>1 DEF PanelType

\* With the lower half it takes the whole value.
LEMMA LowerLatched ==
  ASSUME NEW p \in PanelType, p.bits = 4, NEW v \in 0 .. 255, p.high = v \div 16, NEW rs \in BOOLEAN
  PROVE  \E o \in PanelType :
            /\ o.bits = 4 /\ o.high = -1 /\ o.address = p.address /\ o.cgram = p.cgram /\ o.cells = p.cells
            /\ o.twoLines = p.twoLines /\ o.on = p.on /\ o.increment = p.increment /\ o.scroll = p.scroll /\ o.scrolled = p.scrolled
            /\ Latch(p, rs, v % 16) = IF rs THEN WriteChar(o, v) ELSE Execute(o, v)
  <1>1. v \div 16 \in 0 .. 15 /\ v % 16 \in 0 .. 15 /\ 16 * (v \div 16) + (v % 16) = v
    BY HalvesOf
  <1>2. [p EXCEPT !.high = -1] \in PanelType
    BY DEF PanelType
  <1>3. PICK o \in PanelType : o = [p EXCEPT !.high = -1]
    BY <1>2
  <1>4. /\ o.bits = 4 /\ o.high = -1 /\ o.address = p.address /\ o.cgram = p.cgram /\ o.cells = p.cells
        /\ o.twoLines = p.twoLines /\ o.on = p.on /\ o.increment = p.increment /\ o.scroll = p.scroll /\ o.scrolled = p.scrolled
    BY <1>3 DEF PanelType
  <1>5. PICK n \in 0 .. 15 : n = v % 16
    BY <1>1
  <1>6. 16 * p.high + n = v
    BY <1>1, <1>5
  <1>7. p.high # -1 /\ p.bits # 8
    BY <1>1
  <1>8. Latch(p, rs, n) = IF rs THEN WriteChar(o, 16 * p.high + n) ELSE Execute(o, 16 * p.high + n)
    BY <1>3, <1>7 DEF Latch
  <1>9. Latch(p, rs, v % 16) = IF rs THEN WriteChar(o, v) ELSE Execute(o, v)
    BY <1>5, <1>6, <1>8, Zenon
  <1> QED  BY <1>4, <1>9

\* What it does while begin() brings the panel to four bits.
LEMMA HighKept ==
  ASSUME NEW p \in PanelType, NEW v \in 0 .. 255
  PROVE  Execute(p, v).high = p.high
  <1>1. CASE v >= 128
    BY <1>1 DEF Execute, PanelType
  <1>2. CASE v \in 64 .. 127
    BY <1>2 DEF Execute, PanelType
  <1>3. CASE v \in 32 .. 63
    BY <1>3 DEF Execute, PanelType
  <1>4. CASE v \in 16 .. 31
    BY <1>4 DEF Execute, PanelType
  <1>5. CASE v \in 8 .. 15
    BY <1>5 DEF Execute, PanelType
  <1>6. CASE v \in 4 .. 7
    BY <1>6 DEF Execute, PanelType
  <1>7. CASE v \in 0 .. 3
    BY <1>7 DEF Execute, PanelType
  <1> QED  BY <1>1, <1>2, <1>3, <1>4, <1>5, <1>6, <1>7

\* A 3, twice or with the unconnected half pulled up, brings it to eight bits, ...
LEMMA EightBits ==
  ASSUME NEW p \in PanelType, NEW v, v = 51 \/ v = 63, NEW e, e = Execute(p, v)
  PROVE  e.bits = 8
  <1>1. v \in 32 .. 63 /\ v \in 0 .. 255
    OBVIOUS
  <1>2. PICK y \in BOOLEAN, z \in BOOLEAN : y = Bit(v, 16) /\ z = Bit(v, 8)
    BY DEF Bit
  <1>3. y
    BY <1>2, Bits
  <1>4. Execute(p, v) = [p EXCEPT !.bits = IF y THEN 8 ELSE 4, !.twoLines = z]
    BY <1>1, <1>2 DEF Execute
  <1> QED  BY <1>3, <1>4 DEF PanelType

\* ... and a 2 with the unconnected half pulled up brings it to four.
LEMMA FourBits ==
  ASSUME NEW p \in PanelType, p.high = -1, NEW v, v = 47
  PROVE  Execute(p, v).bits = 4 /\ Execute(p, v).high = -1
  <1>1. v \in 32 .. 63 /\ v \in 0 .. 255
    OBVIOUS
  <1>2. PICK y \in BOOLEAN, z \in BOOLEAN : y = Bit(v, 16) /\ z = Bit(v, 8)
    BY DEF Bit
  <1>3. ~y
    BY <1>2, Bits
  <1>4. Execute(p, v) = [p EXCEPT !.bits = IF y THEN 8 ELSE 4, !.twoLines = z]
    BY <1>1, <1>2 DEF Execute
  <1> QED  BY <1>3, <1>4 DEF PanelType

\* A half that is 3, in whatever state the panel is, ...
LEMMA ThreeLatched ==
  ASSUME NEW p \in PanelType, NEW q, q = Latch(p, FALSE, 3)
  PROVE  /\ p.bits = 8 => q.bits = 8
         /\ p.bits = 4 /\ p.high = -1 => q.high = 3
         /\ p.bits = 4 /\ p.high = 3 => q.bits = 8
         /\ p.bits = 4 /\ p.high # -1 => q.high = -1
  <1>1. ASSUME p.bits = 8 PROVE q.bits = 8
    <2>1. PICK v : v = 16 * 3 + 15
      OBVIOUS
    <2>2. v = 63
      BY <2>1
    <2>3. q = Execute(p, v)
      BY <1>1, <2>1 DEF Latch
    <2> QED  BY <2>2, <2>3, EightBits
  <1>2. ASSUME p.bits = 4, p.high = -1 PROVE q.high = 3
    BY <1>2 DEF Latch, PanelType
  <1>3. ASSUME p.bits = 4, p.high # -1 PROVE q.high = -1 /\ (p.high = 3 => q.bits = 8)
    <2>1. [p EXCEPT !.high = -1] \in PanelType
      BY DEF PanelType
    <2>2. PICK o \in PanelType : o = [p EXCEPT !.high = -1]
      BY <2>1
    <2>3. o.high = -1
      BY <2>2 DEF PanelType
    <2>4. p.high \in 0 .. 15
      BY <1>3 DEF PanelType
    <2>5. PICK v \in 0 .. 255 : v = 16 * p.high + 3
      BY <2>4
    <2>6. q = Execute(o, v)
      BY <1>3, <2>2, <2>5 DEF Latch
    <2>7. q.high = -1
      BY <2>3, <2>6, HighKept
    <2>8. ASSUME p.high = 3 PROVE q.bits = 8
      <3>1. v = 51
        BY <2>5, <2>8
      <3> QED  BY <2>6, <3>1, EightBits
    <2> QED  BY <2>7, <2>8
  <1>4. p.high = 3 => p.high # -1
    OBVIOUS
  <1> QED  BY <1>1, <1>2, <1>3, <1>4

\* ... and the 2 that follows.
LEMMA TwoLatched ==
  ASSUME NEW p \in PanelType, p.bits = 8, NEW q, q = Latch(p, FALSE, 2)
  PROVE  q.bits = 4 /\ q.high = -1
  <1>1. PICK v : v = 16 * 2 + 15
    OBVIOUS
  <1>2. v = 47 /\ p.high = -1
    BY <1>1 DEF PanelType
  <1>3. q = Execute(p, v)
    BY <1>1 DEF Latch
  <1> QED  BY <1>2, <1>3, FourBits

-----------------------------------------------------------------------------
(* LcdOutput: the calls of the set-up and of a record                        *)

\* u is s, of m elements, and then t, of n.
Joins(u, s, m, t, n) ==
  /\ Len(u) = m + n
  /\ \A i \in 1 .. m : u[i] = s[i]
  /\ \A i \in 1 .. n : u[m + i] = t[i]

\* Concatenation joins.
LEMMA Joined ==
  ASSUME NEW S, NEW s \in Seq(S), NEW t \in Seq(S), NEW m \in Nat, NEW n \in Nat, Len(s) = m, Len(t) = n,
         NEW u, u = s \o t
  PROVE  u \in Seq(S) /\ Joins(u, s, m, t, n)
  <1>1. s \o t \in Seq(S)
    OBVIOUS
  <1>2. Len(s \o t) = m + n
    OBVIOUS
  <1>3. \A i \in 1 .. m : (s \o t)[i] = s[i]
    OBVIOUS
  <1>4. \A i \in 1 .. n : (s \o t)[m + i] = t[i]
    OBVIOUS
  <1> QED BY <1>1, <1>2, <1>3, <1>4, Zenon DEF Joins

\* The lengths of the parts of SetUp.
LEMMA Numbers == {1, 2, 3, 5, 8, 10} \subseteq Nat
  OBVIOUS
\* The call that sends the character of a cell, the line it belongs to.
LEMMA LineOf ==
  ASSUME NEW text \in [Cells -> 0 .. 255], NEW row \in 0 .. 1, NEW l, l = PrintLine(text, row)
  PROVE  /\ l \in Seq(Calls) /\ Len(l) = 1 + Columns
         /\ l[1] = Command(128 + 64 * row)
         /\ \A i \in 1 .. Columns : l[1 + i] = Write(text[i - 1 + 64 * row])
  <1>1. PICK cols \in Nat : cols = Columns
    BY ColumnsAssumption
  <1>2. PICK t : t = [k \in 1 .. cols |-> Write(text[k - 1 + 64 * row])]
    OBVIOUS
  <1>3. \A k \in 1 .. cols : k - 1 + 64 * row \in Cells
    BY <1>1, ColumnsAssumption DEF Cells
  <1>4. \A k \in 1 .. cols : Write(text[k - 1 + 64 * row]) \in Calls
    BY <1>3 DEF Calls, Write
  <1>5. t \in Seq(Calls) /\ Len(t) = cols
    BY <1>2, <1>4
  <1>6. Command(128 + 64 * row) \in Calls
    BY DEF Calls, Command
  <1>7. SetCursor(0, row) = Command(128 + 64 * row)
    BY DEF SetCursor, RowOffset
  <1>8. PICK c \in Calls : c = Command(128 + 64 * row)
    BY <1>6
  <1>9. <<c>> \in Seq(Calls) /\ Len(<<c>>) = 1 /\ <<c>>[1] = c
    OBVIOUS
  <1>10. PICK s \in Seq(Calls) : s = <<c>>
    BY <1>9
  <1>11. l = s \o t
    BY <1>1, <1>2, <1>7, <1>8, <1>10 DEF PrintLine
  <1>12. Len(s) = 1 /\ s[1] = c
    BY <1>9, <1>10
  <1>13. l \in Seq(Calls) /\ Joins(l, s, 1, t, cols)
    BY <1>5, <1>11, <1>12, Joined, Numbers, Zenon
  <1>14. Len(l) = 1 + cols /\ l[1] = c /\ \A i \in 1 .. cols : l[1 + i] = t[i]
    BY <1>12, <1>13 DEF Joins
  <1> QED BY <1>1, <1>2, <1>8, <1>13, <1>14

\* The greeting is a text.
LEMMA GreetingType == Greeting \in [Cells -> 0 .. 255]
  BY CellsAre DEF Greeting

\* command and write are calls of send().
LEMMA CommandTyped ==
  ASSUME NEW v \in 0 .. 255
  PROVE  Command(v) \in Calls /\ Write(v) \in Calls
  BY DEF Command, Write, Calls

\* The set-up, call by call.
LEMMA SetUpOf ==
  /\ SetUp \in Seq(Calls) /\ Len(SetUp) = 11 + Columns
  /\ SetUp[1] = Backlight /\ SetUp[2] = Command(51) /\ SetUp[3] = Command(50)
  /\ SetUp[4] = Command(40) /\ SetUp[5] = Command(12) /\ SetUp[6] = Command(1)
  /\ SetUp[7] = Command(6) /\ SetUp[8] = Command(2) /\ SetUp[9] = Backlight
  /\ SetUp[10] = Command(1) /\ SetUp[11] = Command(128)
  /\ \A i \in 1 .. Columns : SetUp[11 + i] = Write(Greeting[i - 1])
  <1>1. PICK cols \in Nat : cols = Columns
    BY ColumnsAssumption
  <1>2. PICK t : t = PrintLine(Greeting, 0)
    OBVIOUS
  <1>3. /\ t \in Seq(Calls) /\ Len(t) = 1 + cols
        /\ t[1] = Command(128)
        /\ \A i \in 1 .. cols : t[1 + i] = Write(Greeting[i - 1])
    <2>1. 0 \in 0 .. 1 /\ 128 + 64 * 0 = 128
      OBVIOUS
    <2>2. PICK row \in 0 .. 1 : row = 0
      OBVIOUS
    <2>3. /\ t \in Seq(Calls) /\ Len(t) = 1 + Columns
          /\ t[1] = Command(128 + 64 * row)
          /\ \A i \in 1 .. Columns : t[1 + i] = Write(Greeting[i - 1 + 64 * row])
      BY <1>2, <2>2, GreetingType, LineOf
    <2>4. 128 + 64 * row = 128 /\ \A i \in 1 .. Columns : i - 1 + 64 * row = i - 1
      BY <2>2, ColumnsAssumption
    <2>5. t[1] = Command(128)
      BY <2>3, <2>4, Zenon
    <2>6. ASSUME NEW i \in 1 .. Columns PROVE t[1 + i] = Write(Greeting[i - 1])
      <3>1. t[1 + i] = Write(Greeting[i - 1 + 64 * row])
        BY <2>3
      <3>2. i - 1 + 64 * row = i - 1
        BY <2>4
      <3> QED  BY <3>1, <3>2, Zenon
    <2> QED  BY <1>1, <2>3, <2>5, <2>6, Zenon
  <1>4. PICK a2 \in Calls, a3 \in Calls, a4 \in Calls, a5 \in Calls, a6 \in Calls, a7 \in Calls,
             a8 \in Calls :
          /\ a2 = Command(51) /\ a3 = Command(50) /\ a4 = Command(40) /\ a5 = Command(12)
          /\ a6 = Command(1) /\ a7 = Command(6) /\ a8 = Command(2)
    <2>1. {51, 50, 40, 12, 1, 6, 2} \subseteq 0 .. 255
      OBVIOUS
    <2> QED BY <2>1, CommandTyped, Zenon
  <1>5. PICK a1 \in Calls : a1 = Backlight
    BY DEF Calls
  <1>6. SetUp = <<a1>> \o <<a2, a3>> \o <<a4, a5, a6, a7, a8>> \o <<a1, a6>> \o t
    <2>1. FourBitMode = <<a2, a3>>
      BY <1>4 DEF FourBitMode
    <2>2. BeginDisplay = <<a1>> \o <<a2, a3>> \o <<a4, a5, a6, a7, a8>>
      <3>1. 32 + 8 = 40 /\ 8 + 4 = 12 /\ 4 + 2 = 6
        OBVIOUS
      <3>2. /\ a4 = Command(32 + 8) /\ a5 = Command(8 + 4) /\ a6 = ClearDisplay
            /\ a7 = Command(4 + 2) /\ a8 = Home
        BY <1>4, <3>1 DEF ClearDisplay, Home
      <3> QED  BY <1>5, <2>1, <3>2, Zenon DEF BeginDisplay
    <2> QED  BY <1>2, <1>4, <1>5, <2>2, Zenon DEF SetUp, ClearDisplay
  <1>7. /\ <<a1>> \in Seq(Calls) /\ <<a2, a3>> \in Seq(Calls)
        /\ <<a4, a5, a6, a7, a8>> \in Seq(Calls) /\ <<a1, a6>> \in Seq(Calls)
    OBVIOUS
  <1>8. PICK x \in Seq(Calls) : x = <<a1>>
    BY <1>7
  <1>9. PICK y \in Seq(Calls) : y = <<a2, a3>>
    BY <1>7
  <1>10. PICK z \in Seq(Calls) : z = <<a4, a5, a6, a7, a8>>
    BY <1>7
  <1>11. PICK w \in Seq(Calls) : w = <<a1, a6>>
    BY <1>7
  <1>12. PICK n \in Nat : n = 1 + cols
    OBVIOUS
  <1>13. /\ Len(x) = 1 /\ x[1] = a1 /\ Len(y) = 2 /\ y[1] = a2 /\ y[2] = a3
        /\ Len(w) = 2 /\ w[1] = a1 /\ w[2] = a6
    BY <1>8, <1>9, <1>11
  <1>14. Len(z) = 5 /\ z[1] = a4 /\ z[2] = a5 /\ z[3] = a6 /\ z[4] = a7 /\ z[5] = a8
    BY <1>10
  <1>15. PICK xy : xy = x \o y
    OBVIOUS
  <1>16. xy \in Seq(Calls) /\ Joins(xy, x, 1, y, 2)
    BY <1>13, <1>15, Joined, Numbers, Zenon
  <1>17. Len(xy) = 3 /\ xy[1] = a1 /\ xy[2] = a2 /\ xy[3] = a3
    BY <1>13, <1>16 DEF Joins
  <1>18. PICK xyz : xyz = xy \o z
    OBVIOUS
  <1>19. xyz \in Seq(Calls) /\ Joins(xyz, xy, 3, z, 5)
    BY <1>14, <1>16, <1>17, <1>18, Joined, Numbers, Zenon
  <1>20. Len(xyz) = 8 /\ xyz[1] = a1 /\ xyz[2] = a2 /\ xyz[3] = a3
    BY <1>17, <1>19 DEF Joins
  <1>21. xyz[4] = a4 /\ xyz[5] = a5 /\ xyz[6] = a6 /\ xyz[7] = a7 /\ xyz[8] = a8
    BY <1>14, <1>19 DEF Joins
  <1>22. PICK ten : ten = xyz \o w
    OBVIOUS
  <1>23. ten \in Seq(Calls) /\ Joins(ten, xyz, 8, w, 2)
    BY <1>13, <1>19, <1>20, <1>22, Joined, Numbers, Zenon
  <1>24. /\ Len(ten) = 10 /\ ten[1] = a1 /\ ten[2] = a2 /\ ten[3] = a3
         /\ ten[4] = a4 /\ ten[5] = a5 /\ ten[6] = a6 /\ ten[7] = a7 /\ ten[8] = a8
    BY <1>20, <1>21, <1>23 DEF Joins
  <1>25. ten[9] = a1 /\ ten[10] = a6
    BY <1>13, <1>23 DEF Joins
  <1>26. SetUp = ten \o t
    BY <1>6, <1>8, <1>9, <1>10, <1>11, <1>15, <1>18, <1>22, Zenon
  <1>27. Len(t) = n
    BY <1>3, <1>12
  <1>28. SetUp \in Seq(Calls) /\ Joins(SetUp, ten, 10, t, n)
    BY <1>3, <1>23, <1>24, <1>26, <1>27, Joined, Numbers, Zenon
  <1>29. PICK u : u = SetUp
    OBVIOUS
  <1>30. Joins(u, ten, 10, t, n)
    BY <1>28, <1>29, Zenon
  <1>31. Len(u) = 10 + n /\ \A i \in 1 .. n : u[10 + i] = t[i]
    BY <1>30 DEF Joins
  <1>32. u[1] = a1 /\ u[2] = a2 /\ u[3] = a3 /\ u[4] = a4 /\ u[5] = a5
    BY <1>24, <1>30 DEF Joins
  <1>33. u[6] = a6 /\ u[7] = a7 /\ u[8] = a8 /\ u[9] = a1 /\ u[10] = a6
    BY <1>24, <1>25, <1>30 DEF Joins
  <1>34. u[11] = Command(128)
    BY <1>3, <1>12, <1>31
  <1>35. ASSUME NEW i \in 1 .. cols PROVE u[11 + i] = Write(Greeting[i - 1])
    <2>1. PICK j : j = 1 + i
      OBVIOUS
    <2>2. j \in 1 .. n /\ 11 + i = 10 + j
      BY <1>12, <2>1
    <2>3. u[10 + j] = t[j]
      BY <1>31, <2>2
    <2>4. t[1 + i] = Write(Greeting[i - 1])
      BY <1>3
    <2> QED BY <2>1, <2>2, <2>3, <2>4, Zenon
  <1>36. Len(u) = 11 + cols
    BY <1>12, <1>31
  <1> QED BY <1>1, <1>4, <1>5, <1>28, <1>29, <1>32, <1>33, <1>34, <1>35, <1>36, Zenon

\* The two lines of a text.
IsLines(l, text) ==
  /\ l[1] = Command(128)
  /\ \A i \in 1 .. Columns : l[1 + i] = Write(text[i - 1])
  /\ l[Columns + 2] = Command(192)
  /\ \A i \in 1 .. Columns : l[Columns + 2 + i] = Write(text[63 + i])

\* Lines is that.
LEMMA LinesOf ==
  ASSUME NEW text \in [Cells -> 0 .. 255],
         NEW l, l = PrintLine(text, 0) \o PrintLine(text, 1)
  PROVE  l \in Seq(Calls) /\ Len(l) = 2 * Columns + 2 /\ IsLines(l, text)
  <1>1. PICK cols \in Nat : cols = Columns
    BY ColumnsAssumption
  <1>2. PICK upper \in 0 .. 1, lower \in 0 .. 1 : upper = 0 /\ lower = 1
    <2>1. 0 \in 0 .. 1 /\ 1 \in 0 .. 1
      OBVIOUS
    <2> QED  BY <2>1
  <1>3. PICK s : s = PrintLine(text, upper)
    OBVIOUS
  <1>4. PICK t : t = PrintLine(text, lower)
    OBVIOUS
  <1>5. /\ s \in Seq(Calls) /\ Len(s) = 1 + Columns
        /\ s[1] = Command(128 + 64 * upper)
        /\ \A i \in 1 .. Columns : s[1 + i] = Write(text[i - 1 + 64 * upper])
    BY <1>3, LineOf
  <1>6. /\ t \in Seq(Calls) /\ Len(t) = 1 + Columns
        /\ t[1] = Command(128 + 64 * lower)
        /\ \A i \in 1 .. Columns : t[1 + i] = Write(text[i - 1 + 64 * lower])
    BY <1>4, LineOf
  <1>7. 128 + 64 * upper = 128 /\ 128 + 64 * lower = 192
    BY <1>2
  <1>8. s[1] = Command(128) /\ t[1] = Command(192)
    BY <1>5, <1>6, <1>7, Zenon
  <1>9. ASSUME NEW i \in 1 .. cols
        PROVE  s[1 + i] = Write(text[i - 1]) /\ t[1 + i] = Write(text[63 + i])
    <2>1. s[1 + i] = Write(text[i - 1 + 64 * upper]) /\ t[1 + i] = Write(text[i - 1 + 64 * lower])
      BY <1>1, <1>5, <1>6
    <2>2. i - 1 + 64 * upper = i - 1 /\ i - 1 + 64 * lower = 63 + i
      BY <1>2
    <2> QED  BY <2>1, <2>2, Zenon
  <1>10. l = s \o t
    BY <1>2, <1>3, <1>4, Zenon
  <1>11. PICK n \in Nat : n = 1 + cols
    OBVIOUS
  <1>12. Len(s) = n /\ Len(t) = n
    BY <1>1, <1>5, <1>6, <1>11, Zenon
  <1>13. l \in Seq(Calls) /\ Joins(l, s, n, t, n)
    BY <1>5, <1>6, <1>10, <1>12, Joined, Zenon
  <1>14. Len(l) = 2 * cols + 2
    BY <1>11, <1>13 DEF Joins
  <1>15. l[1] = Command(128) /\ l[n + 1] = Command(192)
    <2>1. 1 \in 1 .. n
      BY <1>11
    <2> QED  BY <1>8, <1>13, <2>1, Zenon DEF Joins
  <1>16. l[cols + 2] = Command(192)
    <2>1. n + 1 = cols + 2
      BY <1>11
    <2> QED  BY <1>15, <2>1, Zenon
  <1>17. ASSUME NEW i \in 1 .. cols
         PROVE  l[1 + i] = Write(text[i - 1]) /\ l[cols + 2 + i] = Write(text[63 + i])
    <2>1. PICK j : j = 1 + i
      OBVIOUS
    <2>2. j \in 1 .. n /\ n + j = cols + 2 + i
      BY <1>11, <2>1
    <2>3. l[j] = s[j] /\ l[n + j] = t[j]
      BY <1>13, <2>2 DEF Joins
    <2> QED  BY <1>9, <2>1, <2>2, <2>3, Zenon
  <1> QED BY <1>1, <1>13, <1>14, <1>15, <1>16, <1>17, Zenon DEF IsLines

\* What the LCD shows of a record.
LEMMA TextOfRecord ==
  ASSUME NEW r \in Readings
  PROVE  TextOf(Bytes(r)) \in [Cells -> 0 .. 255] /\ TextOf(Bytes(r)) = Glyphs[r]
  <1>1. ASSUME NEW a \in Cells PROVE Bytes(r)[(Position(a) % RecordSize) + 1].of = r
    <2>1. PICK x \in Nat : x = Position(a)
      BY CellsAre DEF Position
    <2>2. RecordSize \in Nat /\ RecordSize > 0
      BY RecordSizeAssumption
    <2>3. (x % RecordSize) + 1 \in 1 .. RecordSize
      BY <2>2
    <2>4. Bytes(r)[(x % RecordSize) + 1] = [of |-> r, at |-> (x % RecordSize) + 1]
      BY <2>3 DEF Bytes
    <2> QED  BY <2>1, <2>4
  <1>2. Glyphs[r] \in [Cells -> 0 .. 255]
    BY GlyphsAssumption
  <1>3. TextOf(Bytes(r)) = [a \in Cells |-> Glyphs[r][a]]
    BY <1>1 DEF TextOf
  <1> QED  BY <1>2, <1>3

-----------------------------------------------------------------------------
(* What each call does to the panel                                          *)

\* All registers of p and q but the half byte they hold.
Same(p, q) ==
  /\ p.bits = q.bits /\ p.address = q.address /\ p.cgram = q.cgram /\ p.cells = q.cells
  /\ p.twoLines = q.twoLines /\ p.on = q.on /\ p.increment = q.increment
  /\ p.scroll = q.scroll /\ p.scrolled = q.scrolled

\* How far the panel is with a text does not depend on that half.
LEMMA SameKeeps ==
  ASSUME NEW p, NEW q, Same(p, q)
  PROVE  /\ \A n : SetTo(p, n) => SetTo(q, n)
         /\ \A n, old, new : PrintedTo(p, n, old, new) => PrintedTo(q, n, old, new)
  <1>1. ASSUME NEW n, SetTo(p, n) PROVE SetTo(q, n)
    BY <1>1, Zenon DEF Same, SetTo
  <1>2. ASSUME NEW n, NEW old, NEW new, PrintedTo(p, n, old, new) PROVE PrintedTo(q, n, old, new)
    BY <1>2, Zenon DEF Same, PrintedTo, Ready
  <1> QED  BY <1>1, <1>2, Zenon

\* What the panel does when it has the whole value of the call c.
Carried(c, o) == IF c.rs THEN WriteChar(o, c.value) ELSE Execute(o, c.value)

\* The fields of a call, ...
LEMMA CommandFields ==
  ASSUME NEW v
  PROVE  /\ ~Command(v).rs /\ Command(v).value = v /\ Command(v).pulses
         /\ Write(v).rs /\ Write(v).value = v /\ Write(v).pulses
  BY DEF Command, Write

\* ... and what the panel does with it.
LEMMA Carries ==
  ASSUME NEW o, NEW v
  PROVE  Carried(Command(v), o) = Execute(o, v) /\ Carried(Write(v), o) = WriteChar(o, v)
  <1>1. /\ ~Command(v).rs /\ Command(v).value = v
        /\ Write(v).rs /\ Write(v).value = v
    BY CommandFields, Zenon
  <1>2. Carried(Command(v), o) = Execute(o, v)
    BY <1>1, Zenon DEF Carried
  <1>3. Carried(Write(v), o) = WriteChar(o, v)
    BY <1>1, Zenon DEF Carried
  <1> QED  BY <1>2, <1>3

\* Each call of the set-up sets the next thing.
LEMMA SetUpCall ==
  ASSUME NEW n \in Nat, n >= 3, n < 11 + Columns,
         NEW o \in PanelType, o.bits = 4, o.high = -1, SetTo(o, n),
         NEW c, c = SetUp[n + 1], c.pulses, NEW e, e = Carried(c, o)
  PROVE  SetTo(e, n + 1) /\ e.bits = 4 /\ e.high = -1
  <1>1. CASE n = 3
    <2>1. e = Execute(o, 40)
      <3>1. c = Command(40)
        BY <1>1, SetUpOf
      <3> QED  BY <3>1, Carries
    <2>2. e.bits = 4 /\ e.high = -1 /\ e.twoLines
      BY <2>1, TwoLinesEffect
    <2> QED  BY <1>1, <2>2 DEF SetTo
  <1>2. CASE n = 4
    <2>1. e = Execute(o, 12)
      <3>1. c = Command(12)
        BY <1>2, SetUpOf
      <3> QED  BY <3>1, Carries
    <2>2. e.bits = 4 /\ e.high = -1 /\ e.twoLines /\ e.on
      BY <1>2, <2>1, OnEffect DEF SetTo
    <2> QED  BY <1>2, <2>2 DEF SetTo
  <1>3. CASE n = 5 \/ n = 9
    <2>1. e = Execute(o, 1)
      <3>1. c = Command(1)
        BY <1>3, SetUpOf
      <3> QED  BY <3>1, Carries
    <2>2. /\ e.bits = 4 /\ e.high = -1 /\ e.twoLines /\ e.on
          /\ e.increment /\ ~e.scrolled /\ e.cells = Blank /\ e.scroll = o.scroll
      BY <1>3, <2>1, ClearEffect DEF SetTo
    <2>3. \A a \in Cells : ~(a + 12 <= n + 1)
      BY <1>3, CellsAre
    <2>4. Blank = [a \in Cells |-> IF a + 12 <= n + 1 THEN Greeting[a] ELSE 32]
      BY <2>3 DEF Blank
    <2> QED  BY <1>3, <2>2, <2>4 DEF SetTo
  <1>4. CASE n = 6
    <2>1. e = Execute(o, 6)
      <3>1. c = Command(6)
        BY <1>4, SetUpOf
      <3> QED  BY <3>1, Carries
    <2>2. /\ e.bits = 4 /\ e.high = -1 /\ e.twoLines /\ e.on
          /\ e.increment /\ ~e.scrolled /\ e.cells = o.cells /\ ~e.scroll
      BY <1>4, <2>1, EntryEffect DEF SetTo
    <2>3. \A a \in Cells : (a + 12 <= n) <=> (a + 12 <= n + 1)
      BY <1>4, CellsAre
    <2>4. e.cells = [a \in Cells |-> IF a + 12 <= n + 1 THEN Greeting[a] ELSE 32]
      BY <1>4, <2>2, <2>3 DEF SetTo
    <2> QED  BY <1>4, <2>2, <2>4 DEF SetTo
  <1>5. CASE n = 7
    <2>1. e = Execute(o, 2)
      <3>1. c = Command(2)
        BY <1>5, SetUpOf
      <3> QED  BY <3>1, Carries
    <2>2. /\ e.bits = 4 /\ e.high = -1 /\ e.twoLines /\ e.on
          /\ e.increment /\ ~e.scrolled /\ e.cells = o.cells /\ ~e.scroll
      BY <1>5, <2>1, HomeEffect DEF SetTo
    <2>3. \A a \in Cells : (a + 12 <= n) <=> (a + 12 <= n + 1)
      BY <1>5, CellsAre
    <2>4. e.cells = [a \in Cells |-> IF a + 12 <= n + 1 THEN Greeting[a] ELSE 32]
      BY <1>5, <2>2, <2>3 DEF SetTo
    <2> QED  BY <1>5, <2>2, <2>4 DEF SetTo
  <1>6. CASE n = 8
    <2>1. c = Backlight
      BY <1>6, SetUpOf
    <2> QED  BY <2>1 DEF Backlight
  <1>7. CASE n = 10
    <2>1. e = Execute(o, 128)
      <3>1. c = Command(128)
        BY <1>7, SetUpOf
      <3> QED  BY <3>1, Carries
    <2>2. /\ e.bits = 4 /\ e.high = -1 /\ e.twoLines /\ e.on
          /\ e.increment /\ ~e.scrolled /\ e.cells = o.cells /\ ~e.scroll
          /\ ~e.cgram /\ e.address = 0
      <3>1. 128 \in 128 .. 255 /\ 128 - 128 = 0
        OBVIOUS
      <3>2. Places(o, 128 - 128, e)
        BY <2>1, <3>1, CursorEffect, Zenon
      <3>3. /\ o.twoLines /\ o.on /\ o.increment /\ ~o.scrolled /\ ~o.scroll
        BY <1>7 DEF SetTo
      <3> QED  BY <3>1, <3>2, <3>3, Zenon DEF Places
    <2>3. \A a \in Cells : (a + 12 <= n) <=> (a + 12 <= n + 1)
      BY <1>7, CellsAre
    <2>4. e.cells = [a \in Cells |-> IF a + 12 <= n + 1 THEN Greeting[a] ELSE 32]
      BY <1>7, <2>2, <2>3 DEF SetTo
    <2> QED  BY <1>7, <2>2, <2>4 DEF SetTo
  <1>8. CASE n >= 11
    <2>1. PICK i \in 1 .. Columns : n = 10 + i
      BY <1>8, CellsAre
    <2>2. n + 1 = 11 + i /\ i - 1 \in Cells /\ n - 11 = i - 1
      BY <2>1, CellsAre DEF Cells
    <2>3. PICK v \in 0 .. 255 : v = Greeting[i - 1]
      BY <2>2, GreetingType
    <2>4. c = Write(v)
      BY <2>1, <2>2, <2>3, SetUpOf
    <2>5. e = WriteChar(o, v)
      BY <2>4, Carries
    <2>6. /\ o.twoLines /\ o.on /\ o.increment /\ ~o.scrolled /\ ~o.scroll
          /\ ~o.cgram /\ o.address = i - 1
          /\ o.cells = [a \in Cells |-> IF a + 12 <= n THEN Greeting[a] ELSE 32]
      BY <1>8, <2>2 DEF SetTo
    <2>61. Ready(o)
      BY <2>6, Zenon DEF Ready
    <2>62. ~o.cgram
      BY <2>6, Zenon
    <2>63. Writes(o, v, e)
      BY <2>5, <2>61, <2>62, WriteEffect
    <2>7. /\ e.bits = 4 /\ e.high = -1 /\ e.twoLines /\ e.on /\ e.increment /\ ~e.scrolled /\ ~e.scroll
          /\ ~e.cgram /\ e.address = Moved(o, TRUE)
          /\ e.cells = Put(o.cells, o.address, v)
      BY <2>63, Zenon DEF Ready, Writes
    <2>8. Moved(o, TRUE) = n + 1 - 11
      BY <2>1, <2>6, CellsAre DEF Moved
    <2>9. e.address = n + 1 - 11
      BY <2>6, <2>7, <2>8, Zenon
    <2>10. ASSUME NEW a \in Cells
           PROVE  (IF a = i - 1 THEN v ELSE IF a + 12 <= n THEN Greeting[a] ELSE 32)
                    = IF a + 12 <= n + 1 THEN Greeting[a] ELSE 32
      BY <2>1, <2>3, CellsAre
    <2>11. e.cells = [a \in Cells |-> IF a + 12 <= n + 1 THEN Greeting[a] ELSE 32]
      BY <2>6, <2>7, <2>10 DEF Put
    <2>12. PICK m : m = n + 1
      OBVIOUS
    <2>13. SetTo(e, m)
      <3>1. e.cells = [a \in Cells |-> IF a + 12 <= m THEN Greeting[a] ELSE 32]
        BY <2>11, <2>12, Zenon
      <3>2. e.address = m - 11
        <4>1. m - 11 = n + 1 - 11
          BY <2>12
        <4> QED  BY <2>9, <4>1, Zenon
      <3> QED  BY <2>7, <3>1, <3>2, Zenon DEF SetTo
    <2> QED  BY <2>7, <2>12, <2>13, Zenon
  <1> QED  BY <1>1, <1>2, <1>3, <1>4, <1>5, <1>6, <1>7, <1>8

\* The panel after the whole set-up shows the greeting.
LEMMA SetUpEnds ==
  ASSUME NEW p \in PanelType, SetTo(p, 11 + Columns)
  PROVE  Ready(p) /\ p.cells = Greeting
  <1>1. PICK n \in Nat : n = 11 + Columns
    BY CellsAre
  <1>2. n >= 12
    BY <1>1, CellsAre
  <1>3. SetTo(p, n)
    BY <1>1
  <1>4. /\ p.twoLines /\ p.on /\ p.increment /\ ~p.scrolled /\ ~p.scroll
        /\ p.cells = [a \in Cells |-> IF a + 12 <= n THEN Greeting[a] ELSE 32]
    BY <1>2, <1>3 DEF SetTo
  <1>5. ASSUME NEW a \in Cells PROVE (IF a + 12 <= n THEN Greeting[a] ELSE 32) = Greeting[a]
    BY <1>1, CellsAre DEF Greeting
  <1>6. Greeting = [a \in Cells |-> Greeting[a]]
    BY GreetingType
  <1> QED  BY <1>4, <1>5, <1>6 DEF Ready

\* The addresses in use do not wrap around.
LEMMA NoWrap ==
  ASSUME NEW x, NEW y \in 0 .. 127, x = y
  PROVE  x % 128 = y
  OBVIOUS

\* The panel waits for the upper half of a value.
Whole(p) == p.bits = 4 /\ p.high = -1

\* Each call that prints a text writes the next character or goes to a line.
LEMMA PrintCall ==
  ASSUME NEW old \in [Cells -> 0 .. 255], NEW new \in [Cells -> 0 .. 255],
         NEW n \in Nat, n < 2 * Columns + 2,
         NEW o \in PanelType, o.bits = 4, o.high = -1, PrintedTo(o, n, old, new),
         NEW l, l = PrintLine(new, 0) \o PrintLine(new, 1),
         NEW c, c = l[n + 1], NEW e, e = Carried(c, o)
  PROVE  c.pulses /\ PrintedTo(e, n + 1, old, new) /\ Whole(e)
  <1>a. IsLines(l, new)
    BY LinesOf, Zenon
  <1>b. /\ Ready(o)
        /\ o.cells = [a \in Cells |-> IF a \in Written(n) THEN new[a] ELSE old[a]]
        /\ n # 0 => ~o.cgram /\ o.address = CursorAt(n)
    BY DEF PrintedTo
  \* A call that moves the cursor to cell `to`.
  <1>1. ASSUME NEW v \in 128 .. 255, c = Command(v), Written(n + 1) = Written(n),
               v - 128 = CursorAt(n + 1)
        PROVE  c.pulses /\ PrintedTo(e, n + 1, old, new) /\ e.bits = 4 /\ e.high = -1
    <2>1. e = Execute(o, v) /\ c.pulses
      BY <1>1, Carries, CommandFields
    <2>11. Places(o, v - 128, e)
      BY <2>1, CursorEffect
    <2>2. /\ e.bits = 4 /\ e.high = -1 /\ Ready(e) /\ ~e.cgram /\ e.cells = o.cells
          /\ e.address = v - 128
      BY <1>b, <2>11, Zenon DEF Places
    <2>3. e.cells = [a \in Cells |-> IF a \in Written(n + 1) THEN new[a] ELSE old[a]]
      BY <1>b, <1>1, <2>2, Zenon
    <2>4. e.address = CursorAt(n + 1)
      BY <1>1, <2>2, Zenon
    <2> QED  BY <2>1, <2>2, <2>3, <2>4, Zenon DEF PrintedTo
  \* A call that writes the character of cell `at`.
  <1>2. ASSUME NEW at \in Cells, c = Write(new[at]), n # 0, o.address = at,
               Written(n + 1) = Written(n) \cup {at},
               Moved(o, TRUE) = CursorAt(n + 1)
        PROVE  c.pulses /\ PrintedTo(e, n + 1, old, new) /\ e.bits = 4 /\ e.high = -1
    <2>1. PICK v \in 0 .. 255 : v = new[at]
      OBVIOUS
    <2>2. e = WriteChar(o, v) /\ c.pulses
      <3>1. c = Write(v)
        BY <1>2, <2>1, Zenon
      <3> QED  BY <3>1, Carries, CommandFields, Zenon
    <2>21. ~o.cgram /\ Ready(o)
      BY <1>b, <1>2, Zenon
    <2>22. Writes(o, v, e)
      BY <2>2, <2>21, WriteEffect
    <2>3. /\ e.bits = 4 /\ e.high = -1 /\ Ready(e) /\ ~e.cgram
          /\ e.address = Moved(o, TRUE)
          /\ e.cells = Put(o.cells, at, v)
      BY <1>2, <2>22, Zenon DEF Writes
    <2>4. ASSUME NEW a \in Cells
          PROVE  (IF a = at THEN v ELSE o.cells[a]) = IF a \in Written(n + 1) THEN new[a] ELSE old[a]
      BY <1>b, <1>2, <2>1
    <2>5. e.cells = [a \in Cells |-> IF a \in Written(n + 1) THEN new[a] ELSE old[a]]
      BY <2>3, <2>4 DEF Put
    <2>6. e.address = CursorAt(n + 1)
      BY <1>2, <2>3, Zenon
    <2> QED  BY <2>2, <2>3, <2>5, <2>6, Zenon DEF PrintedTo
  <1>3. CASE n = 0
    <2>1. c = Command(128)
      <3>1. n + 1 = 1
        BY <1>3
      <3> QED  BY <1>a, <3>1, Zenon DEF IsLines
    <2>2. Written(n + 1) = Written(n)
      BY <1>3, CellsAre DEF Written
    <2>3. 128 - 128 = CursorAt(n + 1)
      BY <1>3, CellsAre DEF CursorAt
    <2>4. PICK v \in 128 .. 255 : v = 128
      OBVIOUS
    <2> QED  BY <1>1, <2>1, <2>2, <2>3, <2>4 DEF Whole
  <1>4. CASE n = Columns + 1
    <2>1. c = Command(192)
      <3>1. n + 1 = Columns + 2
        BY <1>4, CellsAre
      <3> QED  BY <1>a, <3>1, Zenon DEF IsLines
    <2>2. Written(n + 1) = Written(n)
      BY <1>4, CellsAre DEF Written
    <2>3. 192 - 128 = CursorAt(n + 1)
      BY <1>4, CellsAre DEF CursorAt
    <2>4. PICK v \in 128 .. 255 : v = 192
      OBVIOUS
    <2> QED  BY <1>1, <2>1, <2>2, <2>3, <2>4 DEF Whole
  <1>5. CASE n \in 1 .. Columns
    <2>1. PICK at \in Cells : at = n - 1
      BY <1>5, CellsAre DEF Cells
    <2>2. c = Write(new[at])
      <3>1. l[1 + n] = Write(new[n - 1])
        BY <1>a, <1>5, Zenon DEF IsLines
      <3>2. 1 + n = n + 1
        OBVIOUS
      <3> QED  BY <2>1, <3>1, <3>2, Zenon
    <2>3. o.address = at
      BY <1>b, <1>5, <2>1, CellsAre DEF CursorAt
    <2>4. ASSUME NEW a \in Cells PROVE a \in Written(n + 1) <=> a \in Written(n) \/ a = at
      BY <1>5, <2>1, CellsAre DEF Written
    <2>5. Written(n + 1) = Written(n) \cup {at}
      BY <2>4 DEF Written
    <2>6. Moved(o, TRUE) = CursorAt(n + 1)
      <3>1. Moved(o, TRUE) = (at + 1) % 128
        BY <2>3 DEF Moved
      <3>2. (at + 1) % 128 = n
        <4>1. at + 1 = n
          BY <2>1
        <4>2. n \in 0 .. 127
          BY <1>5, CellsAre
        <4> QED  BY <4>1, <4>2, NoWrap
      <3>3. CursorAt(n + 1) = n
        BY <1>5, CellsAre DEF CursorAt
      <3> QED  BY <3>1, <3>2, <3>3, Zenon
    <2>7. n # 0
      BY <1>5
    <2> QED  BY <1>2, <2>2, <2>3, <2>5, <2>6, <2>7, Zenon DEF Whole
  <1>6. CASE n \in Columns + 2 .. 2 * Columns + 1
    <2>1. PICK i \in 1 .. Columns : n = Columns + 1 + i
      BY <1>6, CellsAre
    <2>2. PICK at \in Cells : at = 63 + i
      BY <2>1, CellsAre DEF Cells
    <2>3. n + 1 = Columns + 2 + i
      BY <2>1, CellsAre
    <2>4. c = Write(new[at])
      BY <1>a, <2>2, <2>3, Zenon DEF IsLines
    <2>5. o.address = at
      BY <1>b, <1>6, <2>1, <2>2, CellsAre DEF CursorAt
    <2>6. ASSUME NEW a \in Cells PROVE a \in Written(n + 1) <=> a \in Written(n) \/ a = at
      BY <2>1, <2>2, CellsAre DEF Written
    <2>7. Written(n + 1) = Written(n) \cup {at}
      BY <2>6 DEF Written
    <2>8. Moved(o, TRUE) = CursorAt(n + 1)
      BY <2>1, <2>2, <2>5, CellsAre DEF Moved, CursorAt
    <2>9. n # 0
      BY <1>6, CellsAre
    <2> QED  BY <1>2, <2>4, <2>5, <2>7, <2>8, <2>9, Zenon DEF Whole
  <1>7. n = 0 \/ n = Columns + 1 \/ n \in 1 .. Columns \/ n \in Columns + 2 .. 2 * Columns + 1
    BY CellsAre
  <1> QED  BY <1>3, <1>4, <1>5, <1>6, <1>7, Zenon

\* The panel shows the old text before the first call and the new one after the last.
LEMMA PrintEnds ==
  ASSUME NEW old \in [Cells -> 0 .. 255], NEW new \in [Cells -> 0 .. 255], NEW p \in PanelType
  PROVE  /\ Ready(p) /\ p.cells = old => PrintedTo(p, 0, old, new)
         /\ PrintedTo(p, 2 * Columns + 2, old, new) => Ready(p) /\ p.cells = new
  <1>1. \A a \in Cells : a \notin Written(0)
    BY CellsAre DEF Written
  <1>2. old = [a \in Cells |-> IF a \in Written(0) THEN new[a] ELSE old[a]]
    BY <1>1
  <1>3. PICK n \in Nat : n = 2 * Columns + 2
    BY CellsAre
  <1>4. \A a \in Cells : a \in Written(n)
    BY <1>3, CellsAre DEF Written
  <1>5. new = [a \in Cells |-> IF a \in Written(n) THEN new[a] ELSE old[a]]
    BY <1>4
  <1>6. ASSUME Ready(p), p.cells = old PROVE PrintedTo(p, 0, old, new)
    BY <1>2, <1>6 DEF PrintedTo
  <1>7. ASSUME PrintedTo(p, n, old, new) PROVE Ready(p) /\ p.cells = new
    BY <1>5, <1>7 DEF PrintedTo
  <1> QED  BY <1>3, <1>6, <1>7

-----------------------------------------------------------------------------
(* What each transfer does                                                   *)

\* The next transfer is one of the call's, and after its last comes the next call.
LEMMA NextTyped ==
  ASSUME PanelTypeOK, NextTransfer
  PROVE  /\ done \in Nat /\ done < Len(calls) /\ Call \in Calls /\ calls' = calls
         /\ Call.pulses /\ place # 5 => done' = done /\ place' = place + 1
         /\ Call.pulses /\ place = 5 => done' = done + 1 /\ place' = 0
         /\ ~Call.pulses => place = 0 /\ done' = done + 1 /\ place' = 0
         /\ place + 1 \in 1 .. Len(Transfers(Call))
  <1>1. /\ calls \in Seq(Calls) /\ done \in 0 .. Len(calls) /\ place \in 0 .. 5
        /\ place # 0 => Call.pulses
    BY DEF PanelTypeOK
  <1>2. Len(calls) \in Nat /\ done # Len(calls) /\ calls' = calls
    BY <1>1 DEF NextTransfer, AllMade
  <1>3. done \in Nat /\ done < Len(calls) /\ done + 1 \in 1 .. Len(calls)
    BY <1>1, <1>2
  <1>4. Call \in Calls
    BY <1>1, <1>3, ElementOfSeq DEF Call
  <1>5. PICK n : n = Len(Transfers(Call))
    OBVIOUS
  <1>6. (Call.pulses => n = 6) /\ (~Call.pulses => n = 1)
    BY <1>4, <1>5, TransfersOf
  <1>7. IF place + 1 = n THEN done' = done + 1 /\ place' = 0
                         ELSE done' = done /\ place' = place + 1
    BY <1>5 DEF NextTransfer
  <1>8. /\ Call.pulses /\ place # 5 => done' = done /\ place' = place + 1
        /\ Call.pulses /\ place = 5 => done' = done + 1 /\ place' = 0
    BY <1>1, <1>6, <1>7
  <1>9. ~Call.pulses => place = 0 /\ done' = done + 1 /\ place' = 0
    BY <1>1, <1>6, <1>7
  <1>10. place + 1 \in 1 .. n
    BY <1>1, <1>6
  <1> QED  BY <1>2, <1>3, <1>4, <1>5, <1>8, <1>9, <1>10, Zenon

\* The driver stays within the calls it has.
LEMMA PlaceTyped ==
  ASSUME PanelTypeOK, NextTransfer
  PROVE  /\ calls' \in Seq(Calls)
         /\ done' \in 0 .. Len(calls')
         /\ place' \in 0 .. 5
         /\ place' # 0 => ~AllMade' /\ Call'.pulses
         /\ done' = done => Call' = Call
  <1>1. /\ calls \in Seq(Calls) /\ done \in 0 .. Len(calls) /\ place \in 0 .. 5
        /\ Len(calls) \in Nat
    BY DEF PanelTypeOK
  <1>2. /\ done \in Nat /\ done < Len(calls) /\ calls' = calls
        /\ Call.pulses /\ place # 5 => done' = done /\ place' = place + 1
        /\ Call.pulses /\ place = 5 => done' = done + 1 /\ place' = 0
        /\ ~Call.pulses => place = 0 /\ done' = done + 1 /\ place' = 0
    BY NextTyped
  <1>3. done' = done => Call' = Call
    BY <1>2 DEF Call
  <1>4. CASE Call.pulses /\ place # 5
    <2>1. done' = done /\ place' = place + 1
      BY <1>2, <1>4
    <2>2. ~AllMade' /\ Call'.pulses
      BY <1>2, <1>3, <1>4, <2>1 DEF AllMade
    <2>3. place + 1 \in 0 .. 5
      BY <1>1, <1>4
    <2> QED  BY <1>1, <1>2, <1>3, <2>1, <2>2, <2>3, Zenon
  <1>5. CASE (Call.pulses /\ place = 5) \/ ~Call.pulses
    <2>1. done' = done + 1 /\ place' = 0
      BY <1>2, <1>5
    <2>2. done + 1 \in 0 .. Len(calls) /\ 0 \in 0 .. 5
      BY <1>1, <1>2
    <2> QED  BY <1>1, <1>2, <1>3, <2>1, <2>2, Zenon
  <1> QED  BY <1>4, <1>5

\* What a transfer that arrives does.
LEMMA WriteTyped ==
  ASSUME PanelTypeOK, ExpanderWrite
  PROVE  pins' \in PinsType /\ panel' \in PanelType
  <1>1. NextTransfer /\ pins' = Transfers(Call)[place + 1]
    BY DEF ExpanderWrite
  <1>2. Call \in Calls /\ place + 1 \in 1 .. Len(Transfers(Call))
    BY <1>1, NextTyped
  <1>3. pins' \in PinsType
    BY <1>1, <1>2, TransfersOf
  <1>4. pins \in PinsType /\ panel \in PanelType
    BY DEF PanelTypeOK
  <1>5. \/ panel' = Latch(panel, pins.rs, pins.nibble)
        \/ panel' = Latch(panel, pins'.rs, pins'.nibble)
        \/ panel' = panel
    BY DEF ExpanderWrite
  <1>6. /\ pins.rs \in BOOLEAN /\ pins.nibble \in 0 .. 15
        /\ pins'.rs \in BOOLEAN /\ pins'.nibble \in 0 .. 15
    BY <1>3, <1>4 DEF PinsType
  <1>7. /\ Latch(panel, pins.rs, pins.nibble) \in PanelType
        /\ Latch(panel, pins'.rs, pins'.nibble) \in PanelType
    BY <1>4, <1>6, LatchTyped
  <1> QED  BY <1>3, <1>4, <1>5, <1>7, Zenon

\* What the call c puts on the expander, transfer by transfer.
LEMMA SendOf ==
  ASSUME NEW c \in Calls, c.pulses, NEW k \in 1 .. 6, NEW b, b = Transfers(c)[k]
  PROVE  /\ b.rs = c.rs
         /\ k <= 3 => b.nibble = c.value \div 16
         /\ k > 3 => b.nibble = c.value % 16
         /\ k = 2 \/ k = 5 => b.en
         /\ k # 2 /\ k # 5 => ~b.en
  <1>1. Transfers(c) = Send(c)
    BY TransfersOf
  <1>2. PICK n : n = IF k <= 3 THEN c.value \div 16 ELSE c.value % 16
    OBVIOUS
  <1>3. b = Byte(c.rs, n, k \in {2, 5})
    BY <1>1, <1>2 DEF Send
  <1>4. b.rs = c.rs /\ b.nibble = n /\ b.en = (k \in {2, 5})
    BY <1>3 DEF Byte
  <1>5. k = 2 \/ k = 5 => b.en
    BY <1>4
  <1>6. k # 2 /\ k # 5 => ~b.en
    BY <1>4
  <1>7. (k <= 3 => b.nibble = c.value \div 16) /\ (k > 3 => b.nibble = c.value % 16)
    BY <1>2, <1>4
  <1> QED  BY <1>4, <1>5, <1>6, <1>7, Zenon

\* After it E is low between two calls, and the expander puts out what was sent.
LEMMA WiresKept ==
  ASSUME PanelTypeOK, ExpanderWrite
  PROVE  Wired'
  <1>1. NextTransfer /\ pins' = Transfers(Call)[place + 1]
    BY DEF ExpanderWrite
  <1>2. /\ Call \in Calls /\ place + 1 \in 1 .. Len(Transfers(Call)) /\ place \in 0 .. 5
        /\ Call.pulses /\ place # 5 => done' = done /\ place' = place + 1
        /\ Call.pulses /\ place = 5 => place' = 0
        /\ ~Call.pulses => place = 0 /\ place' = 0
    BY <1>1, NextTyped DEF PanelTypeOK
  <1>3. CASE Call.pulses /\ place # 5
    <2>1. Call' = Call /\ place' = place + 1
      BY <1>1, <1>2, <1>3, PlaceTyped
    <2>2. place' # 0
      BY <1>2, <2>1
    <2>3. pins' = Transfers(Call')[place']
      BY <1>1, <2>1, Zenon
    <2> QED  BY <2>2, <2>3 DEF Wired
  <1>4. CASE Call.pulses /\ place = 5
    <2>1. place' = 0
      BY <1>2, <1>4
    <2>2. PICK k \in 1 .. 6 : k = place + 1 /\ k = 6
      BY <1>4
    <2>3. PICK c \in Calls : c = Call
      BY <1>2
    <2>4. pins' = Transfers(c)[k] /\ c.pulses
      BY <1>1, <1>4, <2>2, <2>3, Zenon
    <2>5. ~pins'.en
      BY <2>2, <2>4, SendOf
    <2> QED  BY <2>1, <2>5 DEF Wired
  <1>5. CASE ~Call.pulses
    <2>1. place' = 0 /\ place + 1 = 1
      BY <1>2, <1>5
    <2>2. Transfers(Call) = <<Byte(FALSE, 0, FALSE)>>
      BY <1>2, <1>5, TransfersOf
    <2>3. pins' = Byte(FALSE, 0, FALSE)
      <3>1. <<Byte(FALSE, 0, FALSE)>>[1] = Byte(FALSE, 0, FALSE)
        OBVIOUS
      <3> QED  BY <1>1, <2>1, <2>2, <3>1, Zenon
    <2>4. ~pins'.en
      BY <2>3 DEF Byte
    <2> QED  BY <2>1, <2>4 DEF Wired
  <1> QED  BY <1>3, <1>4, <1>5

\* The panel latches the upper half of a value with the third transfer of a call and
\* the lower one with the sixth.
LEMMA WriteLatches ==
  ASSUME PanelTypeOK, Wired, ExpanderWrite
  PROVE  /\ ~Call.pulses => panel' = panel
         /\ Call.pulses /\ place # 2 /\ place # 5 => panel' = panel
         /\ Call.pulses /\ place = 2 => panel' = Latch(panel, Call.rs, Call.value \div 16)
         /\ Call.pulses /\ place = 5 => panel' = Latch(panel, Call.rs, Call.value % 16)
  <1>1. NextTransfer /\ pins' = Transfers(Call)[place + 1]
    BY DEF ExpanderWrite
  <1>2. PICK c \in Calls : c = Call
    BY <1>1, NextTyped
  <1>3. place \in 0 .. 5 /\ (~c.pulses => place = 0)
    BY <1>1, <1>2, NextTyped DEF PanelTypeOK
  <1>4. /\ ~pins.en => panel' = panel
        /\ pins.en /\ ~pins'.en => \/ panel' = Latch(panel, pins.rs, pins.nibble)
                                   \/ panel' = Latch(panel, pins'.rs, pins'.nibble)
    BY DEF ExpanderWrite
  <1>5. /\ place = 0 => ~pins.en
        /\ place # 0 => pins = Transfers(c)[place]
    BY <1>2 DEF Wired
  <1>6. ASSUME place # 2, place # 5 PROVE panel' = panel
    <2>1. CASE place = 0
      BY <1>4, <1>5, <2>1
    <2>2. CASE place # 0
      <3>1. PICK k \in 1 .. 6 : k = place
        BY <1>3, <2>2
      <3>2. pins = Transfers(c)[k] /\ c.pulses /\ k # 2 /\ k # 5
        BY <1>3, <1>5, <1>6, <2>2, <3>1
      <3>3. ~pins.en
        BY <3>2, SendOf
      <3> QED  BY <1>4, <3>3
    <2> QED  BY <2>1, <2>2
  <1>7. ASSUME c.pulses, place = 2 PROVE panel' = Latch(panel, c.rs, c.value \div 16)
    <2>1. PICK k \in 1 .. 6, j \in 1 .. 6 : k = 2 /\ j = 3
      <3>1. 2 \in 1 .. 6 /\ 3 \in 1 .. 6
        OBVIOUS
      <3> QED  BY <3>1
    <2>2. pins = Transfers(c)[k]
      BY <1>5, <1>7, <2>1
    <2>3. pins' = Transfers(c)[j]
      BY <1>1, <1>2, <1>7, <2>1
    <2>4. pins.rs = c.rs /\ pins.nibble = c.value \div 16 /\ pins.en
      BY <1>7, <2>1, <2>2, SendOf
    <2>5. pins'.rs = c.rs /\ pins'.nibble = c.value \div 16 /\ ~pins'.en
      BY <1>7, <2>1, <2>3, SendOf
    <2> QED  BY <1>4, <2>4, <2>5
  <1>8. ASSUME c.pulses, place = 5 PROVE panel' = Latch(panel, c.rs, c.value % 16)
    <2>1. PICK k \in 1 .. 6, j \in 1 .. 6 : k = 5 /\ j = 6
      <3>1. 5 \in 1 .. 6 /\ 6 \in 1 .. 6
        OBVIOUS
      <3> QED  BY <3>1
    <2>2. pins = Transfers(c)[k]
      BY <1>5, <1>8, <2>1
    <2>3. pins' = Transfers(c)[j]
      BY <1>1, <1>2, <1>8, <2>1
    <2>4. pins.rs = c.rs /\ pins.nibble = c.value % 16 /\ pins.en
      BY <1>8, <2>1, <2>2, SendOf
    <2>5. pins'.rs = c.rs /\ pins'.nibble = c.value % 16 /\ ~pins'.en
      BY <1>8, <2>1, <2>3, SendOf
    <2> QED  BY <1>4, <2>4, <2>5
  <1> QED  BY <1>2, <1>3, <1>6, <1>7, <1>8

\* A panel that is in step gets the value of each call whole.
LEMMA CallSteps ==
  ASSUME PanelTypeOK, Wired, InStep, ExpanderWrite
  PROVE  /\ Call.pulses /\ place # 5 => InStep' /\ Same(panel, panel')
         /\ Call.pulses /\ place = 5 =>
              \E o \in PanelType : /\ o.bits = 4 /\ o.high = -1 /\ Same(panel, o)
                                   /\ panel' = Carried(Call, o)
  <1>1. NextTransfer /\ panel \in PanelType /\ place \in 0 .. 5
    BY DEF ExpanderWrite, PanelTypeOK
  <1>2. PICK c \in Calls : c = Call
    BY <1>1, NextTyped
  <1>3. c.pulses => c.rs \in BOOLEAN /\ c.value \in 0 .. 255
    BY TransfersOf
  <1>4. panel.bits = 4 /\ panel.high = IF place >= 3 THEN c.value \div 16 ELSE -1
    BY <1>2 DEF InStep
  <1>5. ASSUME c.pulses, place # 5 PROVE InStep' /\ Same(panel, panel')
    <2>1. Call' = c /\ place' = place + 1
      BY <1>1, <1>2, <1>5, NextTyped, PlaceTyped
    <2>2. ASSUME panel'.bits = 4, panel'.high = (IF place + 1 >= 3 THEN c.value \div 16 ELSE -1)
          PROVE  InStep'
      BY <2>1, <2>2 DEF InStep
    <2>3. CASE place = 2
      <3>1. PICK n \in 0 .. 15 : n = c.value \div 16
        BY <1>3, <1>5, HalvesOf
      <3>2. panel' = Latch(panel, c.rs, n)
        BY <1>2, <1>5, <2>3, <3>1, WriteLatches
      <3>3. panel.high = -1
        BY <1>4, <2>3
      <3>4. PICK p \in PanelType, q \in PanelType : p = panel /\ q = panel'
        BY <1>1, WriteTyped
      <3>5. /\ q.bits = p.bits /\ q.high = n /\ q.address = p.address /\ q.cgram = p.cgram /\ q.cells = p.cells
            /\ q.twoLines = p.twoLines /\ q.on = p.on /\ q.increment = p.increment /\ q.scroll = p.scroll
            /\ q.scrolled = p.scrolled
        BY <1>3, <1>4, <1>5, <3>2, <3>3, <3>4, UpperLatched
      <3>6. InStep'
        BY <1>4, <2>2, <2>3, <3>1, <3>4, <3>5
      <3>7. Same(p, q)
        BY <3>5 DEF Same
      <3> QED  BY <3>4, <3>6, <3>7, Zenon
    <2>4. CASE place # 2
      <3>1. panel' = panel
        BY <1>2, <1>5, <2>4, WriteLatches
      <3>2. place + 1 >= 3 <=> place >= 3
        BY <1>1, <2>4
      <3>3. InStep'
        BY <1>4, <2>2, <3>1, <3>2
      <3> QED  BY <3>1, <3>3, Zenon DEF Same
    <2> QED  BY <2>3, <2>4
  <1>6. ASSUME c.pulses, place = 5
        PROVE  \E o \in PanelType : /\ o.bits = 4 /\ o.high = -1 /\ Same(panel, o)
                                    /\ panel' = Carried(c, o)
    <2>1. panel' = Latch(panel, c.rs, c.value % 16)
      BY <1>2, <1>6, WriteLatches
    <2>2. panel.high = c.value \div 16
      BY <1>4, <1>6
    <2>3. PICK v \in 0 .. 255, rs \in BOOLEAN : v = c.value /\ rs = c.rs
      BY <1>3, <1>6
    <2>4. PICK p \in PanelType : p = panel
      BY <1>1
    <2>5. p.bits = 4 /\ p.high = v \div 16
      BY <1>4, <2>2, <2>3, <2>4
    <2>6. PICK o \in PanelType :
            /\ o.bits = 4 /\ o.high = -1 /\ o.address = p.address /\ o.cgram = p.cgram /\ o.cells = p.cells
            /\ o.twoLines = p.twoLines /\ o.on = p.on /\ o.increment = p.increment /\ o.scroll = p.scroll
            /\ o.scrolled = p.scrolled
            /\ Latch(p, rs, v % 16) = IF rs THEN WriteChar(o, v) ELSE Execute(o, v)
      BY <2>5, LowerLatched
    <2>7. Same(p, o)
      BY <2>5, <2>6 DEF Same
    <2>8. panel' = Carried(c, o)
      BY <2>1, <2>3, <2>4, <2>6, Zenon DEF Carried
    <2> QED  BY <2>4, <2>6, <2>7, <2>8, Zenon
  <1> QED  BY <1>2, <1>5, <1>6, Zenon

\* The only call of the set-up without a pulse, once the panel takes four bits.
LEMMA SetUpRaw ==
  ASSUME NEW n \in Nat, n >= 3, n < 11 + Columns, NEW p, SetTo(p, n), ~SetUp[n + 1].pulses
  PROVE  SetTo(p, n + 1)
  <1>1. CASE n = 8
    <2>1. \A a \in Cells : ~(a + 12 <= n) /\ ~(a + 12 <= n + 1)
      BY <1>1, CellsAre
    <2>2. [a \in Cells |-> IF a + 12 <= n THEN Greeting[a] ELSE 32]
            = [a \in Cells |-> IF a + 12 <= n + 1 THEN Greeting[a] ELSE 32]
      BY <2>1
    <2>3. p.twoLines /\ p.on /\ p.increment /\ ~p.scrolled /\ ~p.scroll
      BY <1>1 DEF SetTo
    <2>4. p.cells = [a \in Cells |-> IF a + 12 <= n THEN Greeting[a] ELSE 32]
      BY <1>1 DEF SetTo
    <2>5. ~(n + 1 >= 11)
      BY <1>1
    <2> QED  BY <2>2, <2>3, <2>4, <2>5, Zenon DEF SetTo
  <1>2. CASE n \in {3, 4, 5, 6, 7, 9, 10}
    <2>1. PICK v : SetUp[n + 1] = Command(v)
      BY <1>2, SetUpOf
    <2> QED  BY <2>1, CommandFields
  <1>3. CASE n >= 11
    <2>1. PICK i \in 1 .. Columns : n + 1 = 11 + i
      BY <1>3, CellsAre
    <2>2. SetUp[n + 1] = Write(Greeting[i - 1])
      BY <2>1, SetUpOf
    <2> QED  BY <2>2, CommandFields
  <1> QED  BY <1>1, <1>2, <1>3

\* What the panel gets with the two 3s and the 2 that begin() starts with.
LEMMA FirstHalvesKept ==
  ASSUME PanelTypeOK, calls = SetUp, SettingUp, ExpanderWrite, done = 1 \/ done = 2
  PROVE  /\ FirstHalves'
         /\ done' = 3 => InStep'
  <1>1. NextTransfer /\ panel \in PanelType /\ place \in 0 .. 5 /\ Wired
    BY DEF ExpanderWrite, PanelTypeOK, SettingUp
  <1>2. PICK p \in PanelType, q \in PanelType : p = panel /\ q = panel'
    BY <1>1, WriteTyped
  <1>3. PICK c \in Calls : c = Call
    BY <1>1, NextTyped
  <1>4. /\ c.pulses /\ ~c.rs
        /\ c.value \div 16 = 3
        /\ c.value % 16 = IF done = 1 THEN 3 ELSE 2
    <2>1. \/ c = Command(51) /\ done = 1
          \/ c = Command(50) /\ done = 2
      <3>1. c = SetUp[done + 1]
        BY <1>3 DEF Call
      <3>2. CASE done = 1
        <4>1. done + 1 = 2
          BY <3>2
        <4>2. c = SetUp[2]
          BY <3>1, <4>1, Zenon
        <4>3. SetUp[2] = Command(51)
          BY SetUpOf
        <4> QED  BY <3>2, <4>2, <4>3, Zenon
      <3>3. CASE done = 2
        <4>1. done + 1 = 3
          BY <3>3
        <4>2. c = SetUp[3]
          BY <3>1, <4>1, Zenon
        <4>3. SetUp[3] = Command(50)
          BY SetUpOf
        <4> QED  BY <3>3, <4>2, <4>3, Zenon
      <3> QED  BY <3>2, <3>3
    <2>2. 51 \div 16 = 3 /\ 51 % 16 = 3 /\ 50 \div 16 = 3 /\ 50 % 16 = 2
      OBVIOUS
    <2> QED  BY <2>1, <2>2, CommandFields
  <1>5. c.rs = FALSE
    BY <1>4, TransfersOf
  <1>6. /\ place # 5 => done' = done /\ place' = place + 1
        /\ place = 5 => done' = done + 1 /\ place' = 0
        /\ place # 2 /\ place # 5 => q = p
        /\ place = 2 => q = Latch(p, FALSE, 3)
        /\ place = 5 => q = Latch(p, FALSE, IF done = 1 THEN 3 ELSE 2)
    BY <1>1, <1>2, <1>3, <1>4, <1>5, NextTyped, WriteLatches
  <1>7. /\ done = 1 /\ place >= 3 => p.bits = 8 \/ p.high \in {-1, 3}
        /\ done = 2 /\ place < 3 => p.bits = 8 \/ p.high = 3
        /\ done = 2 /\ place >= 3 => p.bits = 8
    BY <1>2 DEF SettingUp, FirstHalves
  <1>8. p.bits = 8 \/ p.bits = 4
    BY DEF PanelType
  <1>9. CASE done = 1
    <2>1. ASSUME place = 2 PROVE q.bits = 8 \/ q.high \in {-1, 3}
      <3>1. q = Latch(p, FALSE, 3)
        BY <1>6, <2>1
      <3> QED  BY <1>8, <3>1, ThreeLatched
    <2>2. ASSUME place = 5 PROVE q.bits = 8 \/ q.high = 3
      <3>1. q = Latch(p, FALSE, 3)
        BY <1>6, <1>9, <2>2
      <3>2. p.bits = 8 \/ p.high \in {-1, 3}
        BY <1>7, <1>9, <2>2
      <3> QED  BY <1>8, <3>1, <3>2, ThreeLatched
    <2>3. CASE place = 5
      <3>1. done' = 2 /\ place' = 0
        BY <1>6, <1>9, <2>3
      <3> QED  BY <1>2, <2>2, <2>3, <3>1 DEF FirstHalves
    <2>4. CASE place # 5
      <3>1. done' = 1 /\ place' = place + 1
        BY <1>6, <1>9, <2>4
      <3>2. place' >= 3 => q.bits = 8 \/ q.high \in {-1, 3}
        BY <1>1, <1>6, <1>7, <1>9, <2>1, <2>4, <3>1
      <3> QED  BY <1>2, <3>1, <3>2 DEF FirstHalves
    <2> QED  BY <2>3, <2>4
  <1>10. CASE done = 2
    <2>1. ASSUME place = 2 PROVE q.bits = 8
      <3>1. q = Latch(p, FALSE, 3)
        BY <1>6, <2>1
      <3>2. p.bits = 8 \/ p.high = 3
        BY <1>7, <1>10, <2>1
      <3> QED  BY <1>8, <3>1, <3>2, ThreeLatched
    <2>2. ASSUME place = 5 PROVE q.bits = 4 /\ q.high = -1
      <3>1. q = Latch(p, FALSE, 2)
        BY <1>6, <1>10, <2>2
      <3>2. p.bits = 8
        BY <1>7, <1>10, <2>2
      <3> QED  BY <3>1, <3>2, TwoLatched
    <2>3. CASE place = 5
      <3>1. done' = 3 /\ place' = 0
        BY <1>6, <1>10, <2>3
      <3>2. InStep'
        BY <1>2, <2>2, <2>3, <3>1 DEF InStep
      <3>3. FirstHalves'
        BY <3>1 DEF FirstHalves
      <3> QED  BY <3>2, <3>3
    <2>4. CASE place # 5
      <3>1. done' = 2 /\ place' = place + 1
        BY <1>6, <1>10, <2>4
      <3>2. /\ place' < 3 => q.bits = 8 \/ q.high = 3
            /\ place' >= 3 => q.bits = 8
        BY <1>1, <1>6, <1>7, <1>10, <2>1, <2>4, <3>1
      <3> QED  BY <1>2, <3>1, <3>2 DEF FirstHalves
    <2> QED  BY <2>3, <2>4
  <1> QED  BY <1>9, <1>10

\* A transfer of the set-up that arrives.
LEMMA SetUpWrite ==
  ASSUME PanelTypeOK, calls = SetUp, SettingUp, ExpanderWrite
  PROVE  SettingUp'
  <1>1. NextTransfer /\ panel \in PanelType /\ place \in 0 .. 5
    BY DEF ExpanderWrite, PanelTypeOK
  <1>2. /\ done \in Nat /\ done < Len(calls) /\ Call \in Calls /\ calls' = calls
        /\ Call.pulses /\ place # 5 => done' = done /\ place' = place + 1
        /\ Call.pulses /\ place = 5 => done' = done + 1 /\ place' = 0
        /\ ~Call.pulses => place = 0 /\ done' = done + 1 /\ place' = 0
    BY <1>1, NextTyped
  <1>3. Wired'
    BY WiresKept
  <1>4. CASE done = 0
    <2>1. Call = Backlight
      BY <1>4, SetUpOf DEF Call
    <2>2. done' = 1 /\ place' = 0
      BY <1>2, <1>4, <2>1 DEF Backlight
    <2> QED  BY <1>3, <2>2 DEF SettingUp, FirstHalves
  <1>5. CASE done = 1 \/ done = 2
    <2>1. FirstHalves' /\ (done' = 3 => InStep')
      BY <1>5, FirstHalvesKept
    <2>2. done' \in {1, 2, 3}
      BY <1>2, <1>5
    <2>3. done' = 3 => SetTo(panel', done')
      BY DEF SetTo
    <2> QED  BY <1>3, <2>1, <2>2, <2>3 DEF SettingUp
  <1>6. CASE done >= 3
    <2>1. Wired /\ InStep /\ SetTo(panel, done)
      BY <1>6 DEF SettingUp
    <2>2. done < 11 + Columns
      BY <1>2, SetUpOf
    <2>3. PICK n \in Nat, c \in Calls : n = done /\ c = Call
      BY <1>2
    <2>4. c = SetUp[n + 1] /\ n >= 3 /\ n < 11 + Columns
      BY <1>6, <2>2, <2>3 DEF Call
    <2>5. PICK p \in PanelType : p = panel
      BY <1>1
    <2>6. SetTo(p, n)
      BY <2>1, <2>3, <2>5, Zenon
    <2>7. ASSUME NEW m \in Nat, m >= 3, done' = m, InStep', SetTo(panel', m)
          PROVE  SettingUp'
      <3>1. FirstHalves'
        BY <2>7 DEF FirstHalves
      <3>2. SetTo(panel', done')
        BY <2>7, Zenon
      <3> QED  BY <1>3, <2>7, <3>1, <3>2 DEF SettingUp
    <2>8. n + 1 \in Nat /\ n + 1 >= 3
      BY <2>4
    <2>9. CASE ~c.pulses
      <3>1. panel' = panel /\ done' = n + 1 /\ place' = 0 /\ place = 0
        BY <1>2, <2>1, <2>3, <2>9, WriteLatches
      <3>2. SetTo(p, n + 1)
        BY <2>4, <2>6, <2>9, SetUpRaw
      <3>3. InStep'
        BY <2>1, <3>1 DEF InStep
      <3>4. SetTo(panel', n + 1)
        BY <2>5, <3>1, <3>2, Zenon
      <3> QED  BY <2>7, <2>8, <3>1, <3>3, <3>4, Zenon
    <2>10. CASE c.pulses /\ place # 5
      <3>1. done' = n /\ InStep' /\ Same(panel, panel')
        BY <1>2, <2>1, <2>3, <2>10, CallSteps, Zenon
      <3>2. SetTo(panel', n)
        BY <2>5, <2>6, <3>1, SameKeeps, Zenon
      <3> QED  BY <2>4, <2>7, <3>1, <3>2, Zenon
    <2>11. CASE c.pulses /\ place = 5
      <3>1. done' = n + 1 /\ place' = 0
        BY <1>2, <2>3, <2>11
      <3>2. PICK o \in PanelType : /\ o.bits = 4 /\ o.high = -1 /\ Same(panel, o)
                                   /\ panel' = Carried(c, o)
        BY <2>1, <2>3, <2>11, CallSteps, Zenon
      <3>3. SetTo(o, n)
        BY <2>5, <2>6, <3>2, SameKeeps, Zenon
      <3>4. PICK e : e = Carried(c, o)
        OBVIOUS
      <3>5. SetTo(e, n + 1) /\ e.bits = 4 /\ e.high = -1
        BY <2>4, <2>11, <3>2, <3>3, <3>4, SetUpCall
      <3>6. e = panel'
        BY <3>2, <3>4, Zenon
      <3>7. InStep'
        BY <3>1, <3>5, <3>6 DEF InStep
      <3> QED  BY <2>7, <2>8, <3>1, <3>5, <3>6, <3>7, Zenon
    <2> QED  BY <2>9, <2>10, <2>11
  <1> QED  BY <1>2, <1>4, <1>5, <1>6

\* A panel is the same as one that waits for the upper half.
LEMMA WithoutHalf ==
  ASSUME NEW p \in PanelType, p.bits = 4
  PROVE  \E o \in PanelType : o.bits = 4 /\ o.high = -1 /\ Same(p, o)
  <1>1. [p EXCEPT !.high = -1] \in PanelType
    BY DEF PanelType
  <1>2. PICK o \in PanelType : o = [p EXCEPT !.high = -1]
    BY <1>1
  <1>3. o.bits = 4 /\ o.high = -1 /\ Same(p, o)
    BY <1>2 DEF PanelType, Same
  <1> QED  BY <1>3

\* A transfer of a record's two lines that arrives.
LEMMA PrintWrite ==
  ASSUME PanelTypeOK, Wired, InStep, ExpanderWrite,
         NEW old \in [Cells -> 0 .. 255], NEW new \in [Cells -> 0 .. 255],
         calls = PrintLine(new, 0) \o PrintLine(new, 1), PrintedTo(panel, done, old, new)
  PROVE  InStep' /\ PrintedTo(panel', done', old, new)
  <1>1. NextTransfer /\ panel \in PanelType /\ place \in 0 .. 5
    BY DEF ExpanderWrite, PanelTypeOK
  <1>2. /\ done \in Nat /\ done < Len(calls) /\ Call \in Calls
        /\ Call.pulses /\ place # 5 => done' = done /\ place' = place + 1
        /\ Call.pulses /\ place = 5 => done' = done + 1 /\ place' = 0
        /\ ~Call.pulses => place = 0 /\ done' = done + 1 /\ place' = 0
    BY <1>1, NextTyped
  <1>3. PICK l : l = calls
    OBVIOUS
  <1>4. l = PrintLine(new, 0) \o PrintLine(new, 1)
    BY <1>3, Zenon
  <1>5. Len(l) = 2 * Columns + 2
    BY <1>4, LinesOf
  <1>6. PICK n \in Nat, c \in Calls : n = done /\ c = Call
    BY <1>2
  <1>7. c = l[n + 1] /\ n < 2 * Columns + 2
    BY <1>2, <1>3, <1>5, <1>6 DEF Call
  <1>8. PICK p \in PanelType : p = panel
    BY <1>1
  <1>9. PrintedTo(p, n, old, new)
    BY <1>6, <1>8, Zenon
  <1>10. ASSUME NEW o \in PanelType, o.bits = 4, o.high = -1, Same(p, o), NEW e, e = Carried(c, o)
         PROVE  c.pulses /\ PrintedTo(e, n + 1, old, new) /\ e.bits = 4 /\ e.high = -1
    <2>1. PrintedTo(o, n, old, new)
      BY <1>9, <1>10, SameKeeps, Zenon
    <2>2. o.bits = 4 /\ o.high = -1 /\ e = Carried(c, o)
      BY <1>10
    <2>3. c.pulses
      BY <1>4, <1>7, <2>1, <2>2, PrintCall, Zenon
    <2>4. PrintedTo(e, n + 1, old, new)
      BY <1>4, <1>7, <2>1, <2>2, PrintCall
    <2>5. Whole(e)
      BY <1>4, <1>7, <2>1, <2>2, PrintCall, Zenon
    <2> QED  BY <2>3, <2>4, <2>5, Zenon DEF Whole
  <1>11. CASE c.pulses /\ place # 5
    <2>1. done' = n /\ InStep' /\ Same(p, panel')
      BY <1>2, <1>6, <1>8, <1>11, CallSteps, Zenon
    <2> QED  BY <1>9, <2>1, SameKeeps, Zenon
  <1>12. CASE c.pulses /\ place = 5
    <2>1. done' = n + 1 /\ place' = 0
      BY <1>2, <1>6, <1>12
    <2>2. PICK o \in PanelType : /\ o.bits = 4 /\ o.high = -1 /\ Same(p, o)
                                 /\ panel' = Carried(c, o)
      BY <1>6, <1>8, <1>12, CallSteps, Zenon
    <2>3. PICK e : e = Carried(c, o)
      OBVIOUS
    <2>4. PrintedTo(e, n + 1, old, new) /\ e.bits = 4 /\ e.high = -1
      BY <1>10, <2>2, <2>3
    <2>5. e = panel'
      BY <2>2, <2>3, Zenon
    <2>6. InStep'
      BY <2>1, <2>4, <2>5 DEF InStep
    <2> QED  BY <2>1, <2>4, <2>5, <2>6, Zenon
  <1>13. c.pulses
    <2>1. p.bits = 4
      BY <1>8 DEF InStep
    <2>2. PICK o \in PanelType : o.bits = 4 /\ o.high = -1 /\ Same(p, o)
      BY <2>1, WithoutHalf
    <2> QED  BY <1>10, <2>2
  <1> QED  BY <1>11, <1>12, <1>13

-----------------------------------------------------------------------------
(* LcdOutput: what the panel shows                                           *)

\* What the LCD thread prints are records, and what it printed last is one or nothing.
LEMMA TextsTyped ==
  ASSUME LcdInv
  PROVE  /\ LastText \in [Cells -> 0 .. 255]
         /\ lcd_pc # "receive" => /\ TextOf(recvData) \in [Cells -> 0 .. 255]
                                  /\ recvData # Bytes(NoReading)
  <1>1. /\ \E r \in Readings \cup {NoReading} : lastShownData = Bytes(r)
        /\ lcd_pc # "receive" => \E r \in Readings : recvData = Bytes(r)
    BY DEF LcdInv, WholeRecords
  <1>2. ASSUME NEW r \in Readings PROVE Bytes(r) # Bytes(NoReading)
    <2>1. 1 \in 1 .. RecordSize
      BY RecordSizeAssumption
    <2>2. Bytes(r)[1].of = r /\ Bytes(NoReading)[1].of = NoReading
      BY <2>1 DEF Bytes
    <2> QED  BY <2>2, NoReadingAssumption
  <1>3. LastText \in [Cells -> 0 .. 255]
    <2>1. CASE lastShownData = Bytes(NoReading)
      BY <2>1, GreetingType, Zenon DEF LastText
    <2>2. CASE lastShownData # Bytes(NoReading)
      <3>1. PICK r \in Readings : lastShownData = Bytes(r)
        BY <1>1, <2>2
      <3> QED  BY <2>2, <3>1, TextOfRecord, Zenon DEF LastText
    <2> QED  BY <2>1, <2>2
  <1>4. ASSUME lcd_pc # "receive"
        PROVE  TextOf(recvData) \in [Cells -> 0 .. 255] /\ recvData # Bytes(NoReading)
    <2>1. PICK r \in Readings : recvData = Bytes(r)
      BY <1>1, <1>4
    <2> QED  BY <1>2, <2>1, TextOfRecord, Zenon
  <1> QED  BY <1>3, <1>4

\* The driver has the calls of the set-up to make, and has made none.
LEMMA SetUpBegins ==
  ASSUME NEW c, c = SetUp
  PROVE  c \in Seq(Calls) /\ 0 \in 0 .. Len(c) /\ Len(c) # 0
  BY SetUpOf, CellsAre

\* At power-up the set-up is to be made.
LEMMA OutputInitInv == OutputInit => OutputInv
  <1> SUFFICES ASSUME OutputInit PROVE OutputInv
    OBVIOUS
  <1>1. /\ calls = SetUp /\ done = 0 /\ place = 0 /\ pins = Byte(TRUE, 15, TRUE)
        /\ panel = PowerUp /\ damaged = FALSE
        /\ lcd_pc = "receive" /\ lastShownData = Bytes(NoReading)
    BY DEF OutputInit, PanelInit, LcdInit
  <1>2. pins \in PinsType
    BY <1>1 DEF Byte, PinsType
  <1>3. panel \in PanelType
    <2>1. Blank \in [Cells -> 0 .. 255]
      BY DEF Blank
    <2> QED  BY <1>1, <2>1 DEF PowerUp, PanelType
  <1>4. calls \in Seq(Calls) /\ 0 \in 0 .. Len(calls) /\ Len(calls) # 0
    BY <1>1, SetUpBegins
  <1>5. PanelTypeOK
    <2>1. done \in 0 .. Len(calls) /\ damaged \in BOOLEAN
      BY <1>1, <1>4
    <2>2. place \in 0 .. 5 /\ place = 0
      BY <1>1
    <2> QED  BY <1>2, <1>3, <1>4, <2>1, <2>2 DEF PanelTypeOK
  <1>6. ~AllMade
    BY <1>1, <1>4 DEF AllMade
  <1>7. SettingUp
    BY <1>1 DEF SettingUp, FirstHalves
  <1> QED  BY <1>1, <1>5, <1>6, <1>7 DEF OutputInv, Printing

\* A step that leaves the driver, the panel and what is printed alone.
LEMMA Untouched ==
  ASSUME OutputInv, UNCHANGED <<panelVars, lastShownData>>, Printing' = Printing,
         Printing => recvData' = recvData
  PROVE  OutputInv'
  <1>1. /\ calls' = calls /\ done' = done /\ place' = place /\ pins' = pins /\ panel' = panel
        /\ damaged' = damaged /\ lastShownData' = lastShownData
    BY DEF panelVars
  <1>2. PanelTypeOK' /\ AllMade' = AllMade /\ Wired' = Wired /\ InStep' = InStep
    BY <1>1 DEF OutputInv, PanelTypeOK, AllMade, Wired, InStep, Call
  <1>3. LastText' = LastText
    BY <1>1 DEF LastText
  <1>4. SettingUp' = SettingUp
    BY <1>1, <1>2 DEF SettingUp, FirstHalves
  <1>5. Resting' = Resting
    BY <1>1, <1>2, <1>3 DEF Resting
  <1>6. Printing => PrintingRecord' = PrintingRecord
    BY <1>1, <1>2, <1>3 DEF PrintingRecord
  <1> QED  BY <1>1, <1>2, <1>4, <1>5, <1>6 DEF OutputInv

\* A transfer, which arrives or fails.
LEMMA TransferKeepsInv ==
  ASSUME LcdInv, OutputInv, Transfer
  PROVE  OutputInv'
  <1>1. /\ UNCHANGED <<stream, lcd_pc, recvData, lastShownData, i2c>>
        /\ ExpanderWrite \/ ExpanderWriteFails
    BY DEF Transfer, lcdVars
  <1>2. NextTransfer /\ PanelTypeOK
    BY <1>1 DEF ExpanderWrite, ExpanderWriteFails, OutputInv
  <1>3. /\ calls' = calls /\ Printing' = Printing /\ recvData' = recvData
        /\ LastText' = LastText /\ lastShownData' = lastShownData /\ ~AllMade
    BY <1>1, <1>2 DEF NextTransfer, Printing, LastText
  <1>4. /\ calls' \in Seq(Calls) /\ done' \in 0 .. Len(calls') /\ place' \in 0 .. 5
        /\ place' # 0 => ~AllMade' /\ Call'.pulses
    BY <1>2, PlaceTyped
  <1>5. CASE ExpanderWriteFails
    <2>1. pins' \in PinsType /\ panel' \in PanelType /\ damaged' = TRUE
      BY <1>2, <1>5 DEF ExpanderWriteFails, PanelTypeOK
    <2>2. PanelTypeOK'
      BY <1>4, <2>1, Zenon DEF PanelTypeOK
    <2> QED  BY <1>3, <2>1, <2>2 DEF OutputInv
  <1>6. CASE ExpanderWrite
    <2>1. pins' \in PinsType /\ panel' \in PanelType /\ damaged' = damaged
      BY <1>2, <1>6, WriteTyped DEF ExpanderWrite
    <2>2. PanelTypeOK'
      <3>1. damaged' \in BOOLEAN
        BY <1>2, <2>1 DEF PanelTypeOK
      <3> QED  BY <1>4, <2>1, <3>1, Zenon DEF PanelTypeOK
    <2>3. CASE damaged
      BY <1>3, <2>1, <2>2, <2>3 DEF OutputInv
    <2>4. CASE ~damaged /\ Printing
      <3>1. PrintingRecord /\ calls = Lines(recvData)
        BY <2>4 DEF OutputInv
      <3>2. PICK old \in [Cells -> 0 .. 255] : old = LastText
        BY TextsTyped
      <3>3. PICK new \in [Cells -> 0 .. 255] : new = TextOf(recvData)
        BY <2>4, TextsTyped DEF Printing
      <3>4. calls = PrintLine(new, 0) \o PrintLine(new, 1)
        BY <3>1, <3>3, Zenon DEF Lines
      <3>5. Wired /\ InStep /\ PrintedTo(panel, done, old, new)
        BY <3>1, <3>2, <3>3, Zenon DEF PrintingRecord
      <3>6. InStep' /\ PrintedTo(panel', done', old, new)
        BY <1>2, <1>6, <3>4, <3>5, PrintWrite
      <3>7. Wired'
        BY <1>2, <1>6, WiresKept
      <3>8. LastText' = old /\ TextOf(recvData)' = new
        BY <1>3, <3>2, <3>3 DEF TextOf
      <3>9. PrintingRecord'
        BY <3>6, <3>7, <3>8, Zenon DEF PrintingRecord
      <3>10. calls' = Lines(recvData)'
        BY <1>3, <3>1 DEF Lines, TextOf
      <3> QED  BY <1>3, <2>2, <2>4, <3>9, <3>10 DEF OutputInv
    <2>5. CASE ~damaged /\ ~Printing
      <3>1. calls = SetUp /\ lastShownData = Bytes(NoReading) /\ SettingUp
        BY <1>3, <2>5 DEF OutputInv
      <3>2. SettingUp'
        BY <1>2, <1>6, <3>1, SetUpWrite
      <3>3. ASSUME AllMade' PROVE Resting'
        <4>1. done' = 11 + Columns /\ place' = 0
          BY <1>3, <1>4, <3>1, <3>3, SetUpOf DEF AllMade
        <4>2. Wired' /\ InStep' /\ SetTo(panel', done')
          BY <3>2, <4>1, CellsAre DEF SettingUp
        <4>3. PICK p \in PanelType : p = panel'
          BY <2>1
        <4>4. SetTo(p, 11 + Columns)
          BY <4>1, <4>2, <4>3, Zenon
        <4>5. Ready(p) /\ p.cells = Greeting
          BY <4>4, SetUpEnds
        <4>6. LastText' = Greeting
          BY <1>3, <3>1 DEF LastText
        <4> QED  BY <4>2, <4>3, <4>5, <4>6, Zenon DEF Resting
      <3> QED  BY <1>3, <2>2, <2>5, <3>1, <3>2, <3>3 DEF OutputInv
    <2> QED  BY <2>3, <2>4, <2>5
  <1> QED  BY <1>1, <1>5, <1>6

\* The LCD thread begins to print a record, ...
LEMMA TakeKeepsInv ==
  ASSUME LcdInv, OutputInv, TakeMutex
  PROVE  OutputInv'
  <1>1. /\ lcd_pc = "lock" /\ lcd_pc' = "print" /\ AllMade /\ calls' = Lines(recvData)
        /\ done' = 0 /\ place' = 0 /\ pins' = pins /\ panel' = panel /\ damaged' = damaged
        /\ recvData' = recvData /\ lastShownData' = lastShownData
    BY DEF TakeMutex, LcdTakeMutex, PanelSend
  <1>2. ~Printing /\ Printing' /\ PanelTypeOK
    BY <1>1 DEF Printing, OutputInv
  <1>3. PICK old \in [Cells -> 0 .. 255] : old = LastText
    BY TextsTyped
  <1>4. PICK new \in [Cells -> 0 .. 255] : new = TextOf(recvData)
    BY <1>1, TextsTyped
  <1>5. PICK l : l = calls'
    OBVIOUS
  <1>6. l = PrintLine(new, 0) \o PrintLine(new, 1)
    BY <1>1, <1>4, <1>5, Zenon DEF Lines
  <1>7. l \in Seq(Calls) /\ Len(l) = 2 * Columns + 2
    BY <1>6, LinesOf
  <1>8. 0 \in 0 .. Len(l)
    BY <1>7, CellsAre
  <1>9. PanelTypeOK'
    <2>1. pins' \in PinsType /\ panel' \in PanelType /\ damaged' \in BOOLEAN
      BY <1>1, <1>2 DEF PanelTypeOK
    <2>2. calls' \in Seq(Calls) /\ done' \in 0 .. Len(calls')
      BY <1>1, <1>5, <1>7, <1>8, Zenon
    <2>3. place' \in 0 .. 5 /\ place' = 0
      BY <1>1
    <2> QED  BY <2>1, <2>2, <2>3 DEF PanelTypeOK
  <1>10. calls' = Lines(recvData)' /\ LastText' = old /\ TextOf(recvData)' = new
    BY <1>1, <1>3, <1>4 DEF Lines, TextOf, LastText
  <1>11. ASSUME ~damaged PROVE PrintingRecord'
    <2>1. Resting
      BY <1>1, <1>2, <1>11 DEF OutputInv
    <2>2. place = 0
      BY <1>1, <1>2 DEF PanelTypeOK
    <2>3. Wired' /\ InStep'
      BY <1>1, <2>1, <2>2 DEF Resting, Wired, InStep
    <2>4. PICK p \in PanelType : p = panel
      BY <1>2 DEF PanelTypeOK
    <2>5. Ready(p) /\ p.cells = old
      BY <1>3, <2>1, <2>4, Zenon DEF Resting
    <2>6. PrintedTo(p, 0, old, new)
      BY <2>5, PrintEnds
    <2> QED  BY <1>1, <1>10, <2>3, <2>4, <2>6, Zenon DEF PrintingRecord
  <1> QED  BY <1>1, <1>2, <1>9, <1>10, <1>11 DEF OutputInv

\* When all calls of Lines are made, the panel shows the record.
LEMMA PrintedWhole ==
  ASSUME LcdInv, OutputInv, Printing, AllMade, ~damaged
  PROVE  Wired /\ InStep /\ Ready(panel) /\ panel.cells = TextOf(recvData)
  <1>1. PrintingRecord /\ calls = Lines(recvData) /\ PanelTypeOK
    BY DEF OutputInv
  <1>2. PICK old \in [Cells -> 0 .. 255] : old = LastText
    BY TextsTyped
  <1>3. PICK new \in [Cells -> 0 .. 255] : new = TextOf(recvData)
    BY TextsTyped DEF Printing
  <1>4. PICK l : l = calls
    OBVIOUS
  <1>5. l = PrintLine(new, 0) \o PrintLine(new, 1)
    BY <1>1, <1>3, <1>4, Zenon DEF Lines
  <1>6. Len(l) = 2 * Columns + 2
    BY <1>5, LinesOf
  <1>7. done = 2 * Columns + 2
    BY <1>4, <1>6 DEF AllMade
  <1>8. PICK p \in PanelType : p = panel
    BY <1>1 DEF PanelTypeOK
  <1>9. PrintedTo(p, 2 * Columns + 2, old, new)
    BY <1>1, <1>2, <1>3, <1>7, <1>8, Zenon DEF PrintingRecord
  <1>10. Ready(p) /\ p.cells = new
    BY <1>9, PrintEnds
  <1> QED  BY <1>1, <1>3, <1>8, <1>10, Zenon DEF PrintingRecord

\* ... and has printed it.
LEMMA PrintedKeepsInv ==
  ASSUME LcdInv, OutputInv, Printed
  PROVE  OutputInv'
  <1>1. /\ lcd_pc = "print" /\ lcd_pc' = "receive" /\ AllMade
        /\ recvData' = recvData /\ lastShownData' = recvData
        /\ calls' = calls /\ done' = done /\ place' = place /\ pins' = pins /\ panel' = panel
        /\ damaged' = damaged
    BY DEF Printed, LcdPrint, panelVars
  <1>2. PanelTypeOK' /\ AllMade' /\ Wired' = Wired /\ InStep' = InStep
    BY <1>1 DEF OutputInv, PanelTypeOK, AllMade, Wired, InStep, Call
  <1>3. Printing /\ ~Printing'
    BY <1>1 DEF Printing
  <1>4. LastText' = TextOf(recvData)
    <2>1. recvData # Bytes(NoReading)
      BY <1>1, TextsTyped
    <2> QED  BY <1>1, <2>1 DEF LastText, TextOf
  <1>5. ASSUME ~damaged PROVE Resting'
    <2>1. Wired /\ InStep /\ Ready(panel) /\ panel.cells = TextOf(recvData)
      BY <1>1, <1>3, <1>5, PrintedWhole
    <2> QED  BY <1>1, <1>2, <1>4, <2>1 DEF Resting
  <1> QED  BY <1>1, <1>2, <1>3, <1>5 DEF OutputInv

\* A reset in the middle of whatever there was.
LEMMA RestartKeepsInv ==
  ASSUME OutputInv, Restart
  PROVE  OutputInv'
  <1>1. /\ calls' = SetUp /\ done' = 0 /\ place' = 0 /\ pins' = pins /\ panel' = panel
        /\ damaged' = FALSE /\ lcd_pc' = "receive" /\ lastShownData' = Bytes(NoReading)
    BY DEF Restart, PanelRestart
  <1>2. calls' \in Seq(Calls) /\ 0 \in 0 .. Len(calls') /\ Len(calls') # 0
    BY <1>1, SetUpBegins
  <1>3. PanelTypeOK'
    <2>1. pins' \in PinsType /\ panel' \in PanelType /\ damaged' \in BOOLEAN
      BY <1>1 DEF OutputInv, PanelTypeOK
    <2>2. done' \in 0 .. Len(calls')
      BY <1>1, <1>2
    <2>3. place' \in 0 .. 5 /\ place' = 0
      BY <1>1
    <2> QED  BY <1>2, <2>1, <2>2, <2>3 DEF PanelTypeOK
  <1>4. ~AllMade' /\ ~Printing'
    BY <1>1, <1>2 DEF AllMade, Printing
  <1>5. SettingUp'
    BY <1>1 DEF SettingUp, FirstHalves
  <1>6. calls' = SetUp' /\ lastShownData' = Bytes(NoReading)'
    BY <1>1 DEF SetUp, Bytes
  <1> QED  BY <1>3, <1>4, <1>5, <1>6 DEF OutputInv

\* Every step keeps the invariant, which therefore always holds.
LEMMA OutputNextInv == LcdInv /\ OutputInv /\ [OutputNext]_outputVars => OutputInv'
  <1> SUFFICES ASSUME LcdInv, OutputInv, [OutputNext]_outputVars PROVE OutputInv'
    OBVIOUS
  <1>1. CASE Transfer
    BY <1>1, TransferKeepsInv
  <1>2. ASSUME NEW r \in Readings, SendRecord(r) PROVE OutputInv'
    <2>1. UNCHANGED <<panelVars, lastShownData, recvData, lcd_pc>>
      BY <1>2 DEF SendRecord, LcdSend
    <2> QED  BY <2>1, Untouched DEF Printing
  <1>3. CASE Receive
    <2>1. UNCHANGED <<panelVars, lastShownData>> /\ ~Printing /\ ~Printing'
      BY <1>3 DEF Receive, LcdReceive, Printing
    <2>2. Printing' = Printing
      <3>1. (lcd_pc = "print") = FALSE /\ (lcd_pc = "print")' = FALSE
        BY <2>1 DEF Printing
      <3> QED  BY <3>1, Zenon DEF Printing
    <2> QED  BY <2>1, <2>2, Untouched
  <1>4. CASE TakeMutex
    BY <1>4, TakeKeepsInv
  <1>5. CASE Printed
    BY <1>5, PrintedKeepsInv
  <1>6. CASE SensorUsesBus
    <2>1. UNCHANGED <<panelVars, lastShownData, recvData, lcd_pc>>
      BY <1>6 DEF SensorUsesBus, SensorTakeMutex, SensorGiveMutex
    <2> QED  BY <2>1, Untouched DEF Printing
  <1>7. CASE Restart
    BY <1>7, RestartKeepsInv
  <1>8. CASE UNCHANGED outputVars
    <2>1. UNCHANGED <<panelVars, lastShownData, recvData, lcd_pc>>
      BY <1>8 DEF outputVars, lcdVars
    <2> QED  BY <2>1, Untouched DEF Printing
  <1> QED  BY <1>1, <1>2, <1>3, <1>4, <1>5, <1>6, <1>7, <1>8 DEF OutputNext

LEMMA OutputInductive == OutputSpec => [](LcdInv /\ OutputInv)
  <1>1. OutputInit => LcdInv
    BY LcdInitInv DEF OutputInit
  <1> QED  BY <1>1, OutputInitInv, OutputKeepsInv, OutputNextInv, PTL DEF OutputSpec

\* Theorem: whenever the driver has sent all it was given, the panel shows the greeting or
\* the record the LCD thread printed last, for any number of columns and any records,
\* whatever transfer a reset interrupted and however often, unless one was lost since.
THEOREM ShownIsPrinted == OutputSpec => []ShowsRecord
  <1>1. LcdInv /\ OutputInv => ShowsRecord
    BY DEF OutputInv, ShowsRecord, Resting, Ready, Shows
  <1> QED  BY <1>1, OutputInductive, PTL

\* Theorem: while LiquidCrystal_I2C prints a record over the one before, each character
\* is that of the old or of the new one, and at the end all are the new one's.
THEOREM PrintedInPlace == OutputSpec => []NoFlicker
  <1>1. LcdInv /\ OutputInv => NoFlicker
    <2> SUFFICES ASSUME LcdInv, OutputInv, Printing, ~damaged
                 PROVE  /\ panel.on /\ panel.twoLines /\ ~panel.scrolled
                        /\ \A a \in Cells : panel.cells[a] \in {LastText[a], TextOf(recvData)[a]}
                        /\ AllMade => Shows(TextOf(recvData))
      BY DEF NoFlicker
    <2>1. PrintedTo(panel, done, LastText, TextOf(recvData))
      BY DEF OutputInv, PrintingRecord
    <2>2. panel.on /\ panel.twoLines /\ ~panel.scrolled
      BY <2>1 DEF PrintedTo, Ready
    <2>3. \A a \in Cells : panel.cells[a] \in {LastText[a], TextOf(recvData)[a]}
      BY <2>1 DEF PrintedTo
    <2>4. AllMade => Shows(TextOf(recvData))
      BY <2>2, PrintedWhole DEF Shows
    <2> QED  BY <2>2, <2>3, <2>4
  <1> QED  BY <1>1, OutputInductive, PTL

-----------------------------------------------------------------------------
(* The controller: lemmas about its operators                                *)

\* The outputs the threads can drive.
LEMMA OutputTypes ==
  /\ \A ratio \in Nat : Tone(ratio) \in {0, 500, 1000, 2000}
  /\ \A ratio \in Nat : RelayLevel(ratio) \in {"LOW", "HIGH"}
  /\ \A h \in Nat : NeoOutput(h) \in { Neo(LED_CYCLE_NORMAL, "green"),
                                       Neo(LED_CYCLE_WARNING, "orange"),
                                       Neo(LED_CYCLE_CRITICAL, "red") }
  BY DEF Tone, RelayLevel, NeoOutput

\* The relay is energised on exactly the ratios that sound the critical tone.
LEMMA SameThreshold ==
  ASSUME NEW ratio \in Nat
  PROVE  RelayLevel(ratio) = "HIGH" <=> Tone(ratio) = 2000
  BY DEF RelayLevel, Tone

\* Acting twice on one temperature is acting once.
LEMMA BlinkIdempotent ==
  ASSUME NEW t, NEW c
  PROVE  BlinkCycle(t, c) = BlinkCycle(t, BlinkCycle(t, c))
  BY DEF BlinkCycle

-----------------------------------------------------------------------------
(* The LCD path as a part of the whole                                       *)

\* The controller sends only records it has read, and nothing but the LCD
\* thread, its sends and the sensor task touches the LCD path.
LEMMA UiStepsLcd == TypeOK /\ [Next]_vars => [LcdNext]_lcdVars
  <1> SUFFICES ASSUME TypeOK, [Next]_vars PROVE [LcdNext]_lcdVars
    OBVIOUS
  <1>1. CASE SendToLcd
    <2>1. data \in Readings
      BY <1>1 DEF SendToLcd, TypeOK
    <2> QED BY <1>1, <2>1 DEF SendToLcd, LcdNext
  <1>2. CASE LcdThread \/ SensorTakeMutex \/ SensorGiveMutex
    BY <1>2 DEF LcdNext
  <1>3. ASSUME NEW r \in Readings, Publish(r) PROVE UNCHANGED lcdVars
    BY <1>3 DEF Publish
  <1>4. CASE UiGetData \/ NotifyLed \/ NotifyNeo \/ NotifyBuzzer \/ NotifyRelay
    BY <1>4 DEF UiGetData, NotifyLed, NotifyNeo, NotifyBuzzer, NotifyRelay, Notify
  <1>5. CASE LedTakes \/ NeoTakes \/ BuzzerThread \/ RelayThread
    BY <1>5 DEF LedTakes, NeoTakes, BuzzerThread, BuzzerTakes, BuzzerDrives,
                RelayThread, RelayTakes, RelayDrives, Take
  <1>6. CASE UNCHANGED vars
    BY <1>6 DEF vars
  <1> QED BY <1>1, <1>2, <1>3, <1>4, <1>5, <1>6 DEF Next, Controller

-----------------------------------------------------------------------------
(* Type correctness                                                          *)

UiTypeOK == TypeOK /\ LcdInv

\* The initial state is well typed.
LEMMA UiInitType == Init => UiTypeOK
  <1> SUFFICES ASSUME Init PROVE UiTypeOK
    OBVIOUS
  <1>1. LcdInv
    BY LcdInitInv DEF Init
  <1>2. TypeOK
    BY <1>1, NoNotificationAssumption DEF Init, TypeOK, LcdInv, Actuators
  <1> QED BY <1>1, <1>2 DEF UiTypeOK

\* Every step keeps the variables well typed.
LEMMA UiNextType == UiTypeOK /\ [Next]_vars => UiTypeOK'
  <1> SUFFICES ASSUME UiTypeOK, [Next]_vars PROVE UiTypeOK'
    OBVIOUS
  <1>0. TypeOK /\ LcdInv'
    BY UiStepsLcd, LcdNextInv DEF UiTypeOK
  <1> SUFFICES TypeOK'
    BY <1>0 DEF UiTypeOK
  <1>l. LcdTypeOK'
    BY <1>0 DEF LcdInv
  <1>d. ASSUME NEW r \in Readings
        PROVE  {r.temperature, r.humidity, r.ratio} \subseteq Nat
    BY ReadingsAssumption
  <1> USE <1>l DEF TypeOK, ctrlVars, ledVars, buzzerVars, relayVars
  <1>1. ASSUME NEW r \in Readings, Publish(r) PROVE TypeOK'
    BY <1>0, <1>1 DEF Publish
  <1>2. CASE UiGetData
    BY <1>0, <1>2 DEF UiGetData
  <1>3. CASE NotifyLed \/ NotifyNeo \/ NotifyBuzzer \/ NotifyRelay
    <2>1. PICK a \in Actuators, value \in Nat : Notify(a, value)
      BY <1>0, <1>3, <1>d DEF NotifyLed, NotifyNeo, NotifyBuzzer, NotifyRelay, Actuators
    <2>2. {mailbox', sent'} \subseteq [Actuators -> Nat \cup {NoNotification}]
      BY <1>0, <2>1 DEF Notify
    <2>3. ctrl_pc' \in {"neo", "buzzer", "relay", "lcd"} /\ ctrl_pc # "get"
      BY <1>3 DEF NotifyLed, NotifyNeo, NotifyBuzzer, NotifyRelay
    <2> QED BY <1>0, <2>1, <2>2, <2>3 DEF Notify
  <1>4. CASE SendToLcd
    BY <1>0, <1>4 DEF SendToLcd
  <1>5. ASSUME NEW a \in Actuators, Take(a)
        PROVE  mailbox[a] \in Nat /\ mailbox' \in [Actuators -> Nat \cup {NoNotification}]
    BY <1>0, <1>5 DEF Take
  <1>6. CASE LedTakes
    <2>1. led_res' \in {LED_CYCLE_NORMAL, LED_CYCLE_WARNING, LED_CYCLE_CRITICAL}
      BY <1>0, <1>6 DEF LedTakes, BlinkCycle
    <2> QED BY <1>0, <1>5, <1>6, <2>1 DEF LedTakes, Take, Actuators
  <1>7. CASE NeoTakes
    <2>1. mailbox["neo"] \in Nat
      BY <1>5, <1>7 DEF NeoTakes, Actuators
    <2> QED BY <1>0, <1>5, <1>7, <2>1, OutputTypes DEF NeoTakes, Take, Actuators
  <1>8. CASE BuzzerTakes
    BY <1>0, <1>5, <1>8 DEF BuzzerTakes, Take, Actuators
  <1>9. CASE BuzzerDrives
    BY <1>0, <1>9, OutputTypes DEF BuzzerDrives
  <1>10. CASE RelayTakes
    BY <1>0, <1>5, <1>10 DEF RelayTakes, Take, Actuators
  <1>11. CASE RelayDrives
    BY <1>0, <1>11, OutputTypes DEF RelayDrives
  <1>12. CASE UNCHANGED uiVars
    BY <1>0, <1>12 DEF uiVars
  <1>13. CASE UNCHANGED vars
    BY <1>0, <1>13 DEF vars
  <1> QED
    BY <1>0, <1>1, <1>2, <1>3, <1>4, <1>6, <1>7, <1>8, <1>9, <1>10, <1>11,
       <1>12, <1>13
    DEF Next, Controller, BuzzerThread, RelayThread

\* Type correctness of the controller, its threads and the LCD path.
THEOREM UiTypeCorrect == Spec => []TypeOK
  <1>1. UiTypeOK => TypeOK
    BY DEF UiTypeOK
  <1> QED BY UiInitType, UiNextType, <1>1, PTL DEF Spec

\* The whole implements the LCD path specified on its own.
THEOREM UiImplementsLcd == Spec => LcdSpec
  <1>1. Init => LcdInit
    BY DEF Init
  <1>2. UiTypeOK => TypeOK
    BY DEF UiTypeOK
  <1> QED BY <1>1, <1>2, UiInitType, UiNextType, UiStepsLcd, PTL DEF Spec, LcdSpec

\* So it inherits what is proved of it: the LCD never shows parts of two records.
THEOREM UiRecordsStayWhole == Spec => []WholeRecords
  BY UiImplementsLcd, RecordsStayWhole, PTL

-----------------------------------------------------------------------------
(* The notifications                                                         *)

UiInv == TypeOK /\ LastNotificationWins /\ SameRatioSent

\* The initial state satisfies the invariant.
LEMMA UiInitInv == Init => UiInv
  <1>1. Init => TypeOK
    BY UiInitType DEF UiTypeOK
  <1> QED BY <1>1 DEF UiInv, Init, LastNotificationWins, SameRatioSent, Actuators

\* A step that leaves the notifications and their threads alone keeps them right.
LEMMA UntouchedKeepsNotifications ==
  ASSUME LastNotificationWins, SameRatioSent,
         UNCHANGED <<mailbox, sent, ledVars, buzzerVars, relayVars>>,
         \/ UNCHANGED ctrlVars
         \/ ctrl_pc # "relay" /\ ctrl_pc' # "relay"
  PROVE  LastNotificationWins' /\ SameRatioSent'
  BY DEF LastNotificationWins, SameRatioSent, Idle, ledVars, buzzerVars, relayVars, ctrlVars

\* Notifying a thread leaves the value in its mailbox.
LEMMA NotifyKeepsLast ==
  ASSUME TypeOK, LastNotificationWins,
         NEW a \in Actuators, NEW value \in Nat, Notify(a, value)
  PROVE  LastNotificationWins'
  <1> USE DEF Notify, ledVars, buzzerVars, relayVars
  <1>1. /\ mailbox'[a] = value /\ sent'[a] = value
        /\ \A b \in Actuators \ {a} : mailbox'[b] = mailbox[b] /\ sent'[b] = sent[b]
    BY DEF TypeOK
  <1>2. mailbox'[a] # NoNotification
    BY <1>1, NoNotificationAssumption
  <1> QED BY <1>1, <1>2 DEF LastNotificationWins, Idle, Actuators

\* A thread that takes its notification takes what was sent last, and the
\* mailboxes and histories of the others are as before.
LEMMA TakeTakesLast ==
  ASSUME TypeOK, LastNotificationWins, NEW a \in Actuators, Take(a)
  PROVE  /\ mailbox[a] = sent[a] /\ sent[a] \in Nat
         /\ mailbox'[a] = NoNotification
         /\ \A b \in Actuators \ {a} : mailbox'[b] = mailbox[b]
         /\ UNCHANGED <<reading, ctrlVars, sent, lcdVars>>
  BY DEF Take, TypeOK, LastNotificationWins

\* Every step keeps the invariant.
LEMMA UiNextInv == UiInv /\ TypeOK' /\ [Next]_vars => UiInv'
  <1> SUFFICES ASSUME UiInv, TypeOK', [Next]_vars
               PROVE  LastNotificationWins' /\ SameRatioSent'
    BY DEF UiInv
  <1>0. TypeOK /\ LastNotificationWins /\ SameRatioSent
    BY DEF UiInv
  <1>d. ASSUME NEW r \in Readings
        PROVE  {r.temperature, r.humidity, r.ratio} \subseteq Nat
    BY ReadingsAssumption
  <1>1. ASSUME NEW r \in Readings, Publish(r)
        PROVE  LastNotificationWins' /\ SameRatioSent'
    BY <1>0, <1>1, UntouchedKeepsNotifications DEF Publish
  <1>2. CASE UiGetData
    BY <1>0, <1>2, UntouchedKeepsNotifications DEF UiGetData
  <1>3. CASE SendToLcd
    BY <1>0, <1>3, UntouchedKeepsNotifications DEF SendToLcd
  <1>4. CASE NotifyLed \/ NotifyNeo \/ NotifyBuzzer \/ NotifyRelay
    <2>1. data.temperature \in Nat /\ data.humidity \in Nat /\ data.ratio \in Nat
      <3>1. data \in Readings
        BY <1>0, <1>4 DEF NotifyLed, NotifyNeo, NotifyBuzzer, NotifyRelay, TypeOK
      <3> QED BY <3>1, <1>d
    <2>2. PICK a \in Actuators, value \in Nat : Notify(a, value)
      BY <1>4, <2>1 DEF NotifyLed, NotifyNeo, NotifyBuzzer, NotifyRelay, Actuators
    <2>3. LastNotificationWins'
      BY <1>0, <2>2, NotifyKeepsLast
    <2>4. SameRatioSent'
      <3> USE <1>0, <2>1, NoNotificationAssumption
          DEF Notify, SameRatioSent, buzzerVars, relayVars, TypeOK, Actuators
      <3>1. CASE NotifyLed
        BY <3>1 DEF NotifyLed
      <3>2. CASE NotifyNeo
        BY <3>2 DEF NotifyNeo
      <3>3. CASE NotifyBuzzer
        BY <3>3 DEF NotifyBuzzer
      <3>4. CASE NotifyRelay
        BY <3>4 DEF NotifyRelay
      <3> QED BY <1>4, <3>1, <3>2, <3>3, <3>4
    <2> QED BY <2>3, <2>4
  <1> USE DEF ctrlVars, ledVars, buzzerVars, relayVars
  <1>5. CASE LedTakes
    <2>1. /\ mailbox["led"] = sent["led"] /\ mailbox'["led"] = NoNotification
          /\ \A b \in Actuators \ {"led"} : mailbox'[b] = mailbox[b]
          /\ sent' = sent /\ UNCHANGED ctrlVars
      BY <1>0, <1>5, TakeTakesLast DEF LedTakes, Actuators
    <2>2. led_res' = BlinkCycle(sent["led"], led_res')
      BY <1>5, <2>1, BlinkIdempotent DEF LedTakes
    <2>3. UNCHANGED <<neo, buzzerVars, relayVars>>
      BY <1>5 DEF LedTakes
    <2> QED BY <1>0, <2>1, <2>2, <2>3
            DEF LastNotificationWins, SameRatioSent, Idle, Actuators
  <1>6. CASE NeoTakes
    <2>1. /\ mailbox["neo"] = sent["neo"] /\ mailbox'["neo"] = NoNotification
          /\ \A b \in Actuators \ {"neo"} : mailbox'[b] = mailbox[b]
          /\ sent' = sent /\ UNCHANGED ctrlVars
      BY <1>0, <1>6, TakeTakesLast DEF NeoTakes, Actuators
    <2>2. neo' = NeoOutput(sent["neo"]) /\ UNCHANGED <<led_res, buzzerVars, relayVars>>
      BY <1>6, <2>1 DEF NeoTakes
    <2> QED BY <1>0, <2>1, <2>2 DEF LastNotificationWins, SameRatioSent, Idle, Actuators
  <1>7. CASE BuzzerTakes
    <2>1. /\ mailbox["buzzer"] = sent["buzzer"] /\ mailbox'["buzzer"] = NoNotification
          /\ \A b \in Actuators \ {"buzzer"} : mailbox'[b] = mailbox[b]
          /\ sent' = sent /\ UNCHANGED ctrlVars
      BY <1>0, <1>7, TakeTakesLast DEF BuzzerTakes, Actuators
    <2>2. /\ buzzer_data' = sent["buzzer"] /\ buzzer_pc' = "drive"
          /\ UNCHANGED <<buzzer, ledVars, relayVars>>
      BY <1>7, <2>1 DEF BuzzerTakes
    <2> QED BY <1>0, <2>1, <2>2 DEF LastNotificationWins, SameRatioSent, Idle, Actuators
  <1>8. CASE BuzzerDrives
    <2>1. sent["buzzer"] # NoNotification
      <3>1. buzzer_data \in Nat /\ buzzer_pc = "drive"
        BY <1>0, <1>8 DEF BuzzerDrives, TypeOK
      <3> QED BY <1>0, <3>1, NoNotificationAssumption
              DEF LastNotificationWins, Actuators
    <2> QED BY <1>0, <1>8, <2>1
            DEF BuzzerDrives, LastNotificationWins, SameRatioSent, Idle, Actuators
  <1>9. CASE RelayTakes
    <2>1. /\ mailbox["relay"] = sent["relay"] /\ mailbox'["relay"] = NoNotification
          /\ \A b \in Actuators \ {"relay"} : mailbox'[b] = mailbox[b]
          /\ sent' = sent /\ UNCHANGED ctrlVars
      BY <1>0, <1>9, TakeTakesLast DEF RelayTakes, Actuators
    <2>2. /\ relay_data' = sent["relay"] /\ relay_pc' = "drive"
          /\ UNCHANGED <<relay, ledVars, buzzerVars>>
      BY <1>9, <2>1 DEF RelayTakes
    <2> QED BY <1>0, <2>1, <2>2 DEF LastNotificationWins, SameRatioSent, Idle, Actuators
  <1>10. CASE RelayDrives
    <2>1. sent["relay"] # NoNotification
      <3>1. relay_data \in Nat /\ relay_pc = "drive"
        BY <1>0, <1>10 DEF RelayDrives, TypeOK
      <3> QED BY <1>0, <3>1, NoNotificationAssumption
              DEF LastNotificationWins, Actuators
    <2> QED BY <1>0, <1>10, <2>1
            DEF RelayDrives, LastNotificationWins, SameRatioSent, Idle, Actuators
  <1>11. CASE UNCHANGED uiVars
    BY <1>0, <1>11, UntouchedKeepsNotifications DEF uiVars
  <1>12. CASE UNCHANGED vars
    BY <1>0, <1>12, UntouchedKeepsNotifications DEF vars
  <1> QED
    BY <1>1, <1>2, <1>3, <1>4, <1>5, <1>6, <1>7, <1>8, <1>9, <1>10, <1>11, <1>12
    DEF Next, Controller, BuzzerThread, RelayThread

\* The invariant holds in every reachable state.
LEMMA UiInductive == Spec => []UiInv
  <1>1. UiTypeOK => TypeOK
    BY DEF UiTypeOK
  <1> QED BY <1>1, UiInitType, UiNextType, UiInitInv, UiNextInv, PTL DEF Spec

\* Overwriting a notification loses no alarm: the last value sent to a thread is
\* in its mailbox, in its hands, or what its output shows.
THEOREM LastWins == Spec => []LastNotificationWins
  <1>1. UiInv => LastNotificationWins
    BY DEF UiInv
  <1> QED BY UiInductive, <1>1, PTL

\* Buzzer and relay never settle on different views of the gas.
THEOREM AlarmsAlwaysAgree == Spec => []AlarmsAgree
  <1>1. UiInv => AlarmsAgree
    <2> SUFFICES ASSUME UiInv, Idle("buzzer"), Idle("relay"), ctrl_pc # "relay"
                 PROVE  relay = "HIGH" <=> buzzer = 2000
      BY DEF AlarmsAgree
    <2>1. sent["buzzer"] = sent["relay"]
      BY DEF UiInv, SameRatioSent
    <2>2. CASE sent["buzzer"] = NoNotification
      BY <2>1, <2>2 DEF UiInv, SameRatioSent
    <2>3. CASE sent["buzzer"] # NoNotification
      <3>1. sent["buzzer"] \in Nat
        BY <2>3 DEF UiInv, TypeOK, Actuators
      <3>2. buzzer = Tone(sent["buzzer"])
        BY <2>3 DEF UiInv, LastNotificationWins, Actuators
      <3>3. relay = RelayLevel(sent["relay"])
        BY <2>1, <2>3 DEF UiInv, LastNotificationWins, Actuators
      <3> QED BY <2>1, <3>1, <3>2, <3>3, SameThreshold
    <2> QED BY <2>2, <2>3
  <1> QED BY UiInductive, <1>1, PTL
=============================================================================
