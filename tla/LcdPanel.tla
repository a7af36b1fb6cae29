------------------------------- MODULE LcdPanel -------------------------------
(* The LCD driver (LiquidCrystal_I2C.cpp) and the panel at the other end of    *)
(* the I2C bus: an expander that holds eight outputs, and an HD44780 that      *)
(* latches four of them whenever E falls.  The driver has no way back: it      *)
(* ignores the result of every I2C transfer, and the panel is not reset with   *)
(* the microcontroller.                                                        *)
EXTENDS Integers, Sequences

CONSTANTS
    Columns,       \* visible characters in a line
    MaxLost        \* bound: I2C transfers that are lost, over all

ASSUME ColumnsAssumption == Columns \in 1 .. 16
ASSUME MaxLostAssumption == MaxLost \in Nat

VARIABLES
    calls,         \* the calls of send() and expanderWrite() that are to be made
    done,          \* how many of them have been made
    place,         \* how many transfers of the next one have been made
    pins,          \* what the expander puts out
    panel,         \* the HD44780
    damaged,       \* history: a transfer was lost since begin()
    lost           \* history: how many were lost

panelVars == <<calls, done, place, pins, panel, damaged, lost>>

-----------------------------------------------------------------------------
(* The driver                                                                 *)

Byte(rs, n, en) == [rs |-> rs, nibble |-> n, en |-> en]

\* send: for the upper and for the lower half write4bits, that is the nibble, then
\* the pulse on E.
Command(value) == [rs |-> FALSE, value |-> value, pulses |-> TRUE]
Write(char) == [rs |-> TRUE, value |-> char, pulses |-> TRUE]
Send(c) == [k \in 1 .. 6 |->
    Byte(c.rs, IF k <= 3 THEN c.value \div 16 ELSE c.value % 16, k \in {2, 5})]

\* expanderWrite with all outputs low but the backlight's.
Backlight == [rs |-> FALSE, value |-> 0, pulses |-> FALSE]
Transfers(c) == IF c.pulses THEN Send(c) ELSE <<Byte(c.rs, c.value, FALSE)>>

RowOffsetOfColumns ==    \* variant: the second line follows the first
    [row \in 0 .. 1 |-> Columns * row]
RowOffset == [row \in 0 .. 1 |-> 64 * row]

ClearDisplay == Command(1)
Home == Command(2)
SetCursor(col, row) == Command(128 + col + RowOffset[row])

FourBitModeAtOnce ==    \* variant: as after power-up
    <<Command(16 * 3 + 2)>>

\* Three times "8 bits" and once "4 bits", of which two each are as one call of
\* send: it brings a panel that waits for either half of a byte to the beginning
\* of one.
FourBitMode == <<Command(16 * 3 + 3), Command(16 * 3 + 2)>>

BeginLeavesOff ==    \* variant: the display is not turned on
    <<Backlight>> \o FourBitMode
        \o <<Command(32 + 8), ClearDisplay, Command(4 + 2), Home>>

\* begin(): outputs low, 4 bits, two lines, display on, clear, entry mode, home.
BeginDisplay ==
    <<Backlight>> \o FourBitMode
        \o <<Command(32 + 8), Command(8 + 4), ClearDisplay, Command(4 + 2), Home>>

\* The visible cells, by their address; the lines of the text t, in one go.
Cells == (0 .. Columns - 1) \cup (64 .. 64 + Columns - 1)
PrintLine(t, row) ==
    <<SetCursor(0, row)>> \o [k \in 1 .. Columns |-> Write(t[k - 1 + 64 * row])]

-----------------------------------------------------------------------------
(* The HD44780.  What it does with a byte is told by its highest bit.         *)

Blank == [a \in Cells |-> 32]
Bit(v, weight) == (v \div weight) % 2 = 1

PowerUp == [bits |-> 8, high |-> -1, address |-> 0, cgram |-> FALSE, cells |-> Blank,
            twoLines |-> FALSE, on |-> FALSE, increment |-> TRUE, scroll |-> FALSE,
            scrolled |-> FALSE]

Moved(p, forward) == (p.address + (IF forward THEN 1 ELSE 127)) % 128

WriteChar(p, v) ==
    [p EXCEPT !.cells = [a \in Cells |-> IF a = p.address /\ ~p.cgram THEN v ELSE @[a]],
              !.address = Moved(p, p.increment),
              !.scrolled = @ \/ p.scroll]

Execute(p, v) ==
    CASE v >= 128 -> [p EXCEPT !.address = v - 128, !.cgram = FALSE]
      [] v \in 64 .. 127 -> [p EXCEPT !.address = v - 64, !.cgram = TRUE]
      [] v \in 32 .. 63 -> [p EXCEPT !.bits = IF Bit(v, 16) THEN 8 ELSE 4, !.twoLines = Bit(v, 8)]
      [] v \in 16 .. 31 -> IF Bit(v, 8) THEN [p EXCEPT !.scrolled = TRUE]
                                        ELSE [p EXCEPT !.address = Moved(p, Bit(v, 4))]
      [] v \in 8 .. 15 -> [p EXCEPT !.on = Bit(v, 4)]
      [] v \in 4 .. 7 -> [p EXCEPT !.increment = Bit(v, 2), !.scroll = Bit(v, 1)]
      [] v \in 2 .. 3 -> [p EXCEPT !.address = 0, !.cgram = FALSE, !.scrolled = FALSE]
      [] v = 1 -> [p EXCEPT !.cells = Blank, !.address = 0, !.cgram = FALSE,
                            !.scrolled = FALSE, !.increment = TRUE]
      [] OTHER -> p

\* E falls: in 8-bit mode a whole byte, the unconnected half of it pulled up; in
\* 4-bit mode the upper or the lower half.
Latch(p, rs, n) ==
    LET do(q, v) == IF rs THEN WriteChar(q, v) ELSE Execute(q, v)
    IN  IF p.bits = 8 THEN do(p, 16 * n + 15)
        ELSE IF p.high = -1 THEN [p EXCEPT !.high = n]
        ELSE do([p EXCEPT !.high = -1], 16 * p.high + n)

Shows(text) ==
    /\ panel.on /\ panel.twoLines /\ ~panel.scrolled
    /\ panel.cells = text

-----------------------------------------------------------------------------
PanelInit(c) ==
    /\ calls = c /\ done = 0 /\ place = 0
    /\ pins = Byte(TRUE, 15, TRUE)    \* the expander powers up with all outputs high
    /\ panel = PowerUp
    /\ damaged = FALSE
    /\ lost = 0

\* The next transfer.
AllMade == done = Len(calls)
Call == calls[done + 1]
NextTransfer ==
    /\ ~AllMade
    /\ IF place + 1 = Len(Transfers(Call)) THEN done' = done + 1 /\ place' = 0
                                           ELSE done' = done /\ place' = place + 1
    /\ UNCHANGED calls

\* expanderWrite.  When E falls together with a change of the other outputs, the
\* panel latches the old ones or the new ones.
ExpanderWrite ==
    /\ NextTransfer
    /\ pins' = Transfers(Call)[place + 1]
    /\ panel' \in IF pins.en /\ ~pins'.en
                  THEN {Latch(panel, b.rs, b.nibble) : b \in {pins, pins'}}
                  ELSE {panel}
    /\ UNCHANGED <<damaged, lost>>

\* A transfer that fails: endTransmission's result is ignored.
ExpanderWriteFails ==
    /\ NextTransfer
    /\ lost < MaxLost
    /\ damaged' = TRUE
    /\ lost' = lost + 1
    /\ UNCHANGED <<pins, panel>>

\* The driver is given calls to make when it has made those it had.
PanelSend(c) ==
    /\ AllMade
    /\ calls' = c /\ done' = 0 /\ place' = 0
    /\ UNCHANGED <<pins, panel, damaged, lost>>

\* The microcontroller starts again with the calls c; expander and panel do not.
PanelRestart(c) ==
    /\ calls' = c /\ done' = 0 /\ place' = 0
    /\ damaged' = FALSE
    /\ UNCHANGED <<pins, panel, lost>>

=============================================================================
