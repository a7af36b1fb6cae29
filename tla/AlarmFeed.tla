------------------------------ MODULE AlarmFeed ------------------------------
(* What the shared record of the gas monitor promises to those who read it, *)
(* without its tasks: a single cell holds one measurement and a gas level.   *)
(* The cell may be written with the newest measurement (by the acquisition)  *)
(* or re-written with an earlier one (by the classifier, whose update is not *)
(* atomic), and the level it carries is never invented: it is the level of   *)
(* the measurement in the cell or of one made before it, or 0 until a        *)
(* measurement has been classified.  SensorQueue implements this.            *)
EXTENDS Naturals, Sequences

VARIABLES levels,   \* levels[i]: the gas levels the model can give measurement i
          cell      \* the record the readers see; seq 0 is "no record yet"

vars == <<levels, cell>>

Level == 0 .. 2                  \* 0 normal, 1 warning, 2 critical
Empty == [seq |-> 0, score |-> 0]

\* The score of record r is 0 or the level of a measurement up to r's.
Earned(r) == r.score = 0 \/ \E i \in 1 .. r.seq : r.score \in levels[i]

Init == levels = << >> /\ cell = Empty

\* A measurement is made.  L is empty when the model cannot classify it.
Measure == /\ \E L \in SUBSET Level : levels' = Append(levels, L)
           /\ UNCHANGED cell

\* The newest measurement replaces an older one.
Publish == /\ cell.seq < Len(levels)
           /\ \E s \in Level : cell' = [seq |-> Len(levels), score |-> s]
           /\ Earned(cell')
           /\ UNCHANGED levels

\* A level is attached to the measurement in the cell or to an earlier one,
\* which it then brings back.
WriteBack == /\ \E n \in 1 .. cell.seq, s \in Level :
                    cell' = [seq |-> n, score |-> s]
             /\ \E i \in 1 .. cell'.seq : cell'.score \in levels[i]
             /\ UNCHANGED levels

Next == Measure \/ Publish \/ WriteBack

Spec == Init /\ [][Next]_vars
=============================================================================
