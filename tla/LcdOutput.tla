------------------------------ MODULE LcdOutput ------------------------------
(* The LCD from the stream buffer to the glass: LcdStream, whose LCD thread   *)
(* prints through the driver and panel of LcdPanel, the set-up in ui_init,    *)
(* and resets of the microcontroller at any moment.                           *)
EXTENDS LcdStream, LcdPanel

CONSTANTS
    Glyphs,        \* what the LCD shows of a record: a character for each cell
    MaxRestarts    \* bound: resets of the microcontroller

ASSUME GlyphsAssumption == Glyphs \in [Readings -> [Cells -> 0 .. 255]]
ASSUME MaxRestartsAssumption == MaxRestarts \in Nat

VARIABLES
    restarts       \* history: how many resets there were

outputVars == <<lcdVars, panelVars, restarts>>

\* The characters of the two lines.  Which byte of the record a character shows
\* does not matter as long as all are shown.
Position(a) == IF a < 64 THEN a ELSE Columns + a - 64
TextOf(data) == [a \in Cells |-> Glyphs[data[(Position(a) % RecordSize) + 1].of][a]]

\* "Initialising..." stands in the first line; the second is left clear.
Greeting == [a \in Cells |-> IF a < 64 THEN 48 + a ELSE 32]

SetUp == BeginDisplay \o <<Backlight, ClearDisplay>> \o PrintLine(Greeting, 0)
Lines(data) == PrintLine(TextOf(data), 0) \o PrintLine(TextOf(data), 1)

OutputInit == LcdInit /\ PanelInit(SetUp) /\ restarts = 0

-----------------------------------------------------------------------------
\* The driver's next transfer arrives, or fails.
Transfer == (ExpanderWrite \/ ExpanderWriteFails) /\ UNCHANGED <<lcdVars, restarts>>

\* ui_init starts the tasks when the set-up has been sent, long before the sensor
\* task has calibrated; they go on while the LCD thread prints.
SetUpDone == lcd_pc = "print" \/ AllMade
SendRecord(r) == SetUpDone /\ LcdSend(r) /\ UNCHANGED <<panelVars, restarts>>
Receive == SetUpDone /\ LcdReceive /\ UNCHANGED <<panelVars, restarts>>
TakeMutex == LcdTakeMutex /\ PanelSend(Lines(recvData)) /\ UNCHANGED restarts
Printed == AllMade /\ LcdPrint /\ UNCHANGED <<panelVars, restarts>>
SensorUsesBus == SetUpDone /\ (SensorTakeMutex \/ SensorGiveMutex) /\ UNCHANGED <<panelVars, restarts>>

\* A reset: the program starts again, expander and panel are as they were.
Restart ==
    /\ restarts < MaxRestarts
    /\ restarts' = restarts + 1
    /\ stream' = << >>
    /\ lcd_pc' = "receive"
    /\ recvData' = Bytes(NoReading)
    /\ lastShownData' = Bytes(NoReading)
    /\ i2c' = "free"
    /\ PanelRestart(SetUp)

OutputNext ==
    \/ Transfer
    \/ \E r \in Readings : SendRecord(r)
    \/ Receive \/ TakeMutex \/ Printed
    \/ SensorUsesBus
    \/ Restart

\* The controller never stops sending.  The LCD thread outranks the sensor task,
\* so a mutex that comes free again and again is its in the end; that the sensor
\* task gives it back is not assumed.  A transfer ends, one way or the other.
OutputFairness ==
    /\ WF_outputVars(Transfer)
    /\ WF_outputVars(\E r \in Readings : SendRecord(r))
    /\ WF_outputVars(Receive)
    /\ WF_outputVars(Printed)
    /\ SF_outputVars(TakeMutex)

OutputSpec == OutputInit /\ [][OutputNext]_outputVars
FairOutputSpec == OutputSpec /\ OutputFairness

-----------------------------------------------------------------------------
\* What the panel should show: what was printed last.
Printing == lcd_pc = "print"
LastText == IF lastShownData = Bytes(NoReading) THEN Greeting ELSE TextOf(lastShownData)

\* Whatever a reset interrupted, a transfer in the middle of a byte included, the
\* set-up leaves the panel showing the greeting; from then on it shows the record
\* printed last, unless a transfer was lost since.
ShowsRecord == AllMade /\ ~Printing /\ ~damaged => Shows(LastText)

\* A record is printed over the one before without clearing: at every moment each
\* character is that of the old or of the new record, and none is left behind
\* when the mutex is given back.
NoFlicker ==
    Printing /\ ~damaged =>
        /\ panel.on /\ panel.twoLines /\ ~panel.scrolled
        /\ \A a \in Cells : panel.cells[a] \in {LastText[a], TextOf(recvData)[a]}
        /\ AllMade => Shows(TextOf(recvData))

\* When from some point on every record sent is r, the sensor task keeps giving the
\* I2C mutex back and no transfer was lost since the last reset, the panel ends up
\* showing r and nothing else, whatever old records the buffer held.
OnlySent(r) ==
    <>[][Len(stream') > Len(stream) => stream'[Len(stream')].of = r]_lcdVars
PanelFollows ==
    \A r \in Readings :
        OnlySent(r) /\ []<>(i2c # "sensor") /\ <>[]~damaged
            => <>[](Shows(TextOf(Bytes(r))))
=============================================================================
