----------------------------- MODULE MCLcdOutput -----------------------------
(* Two records, with characters that tell record and cell.                     *)
EXTENDS LcdOutput

MCReadings == {1, 2}
MCGlyphs == [r \in MCReadings |-> [a \in Cells |-> 48 + 16 * r + Position(a)]]
=============================================================================
