---------------------------- MODULE MCSensorQueue ----------------------------
(* SensorQueue on a small instance: one output per class, and a measurement  *)
(* whose inference fails.                                                    *)
EXTENDS SensorQueue

Out(n, w, c) == [normal |-> n, warning |-> w, critical |-> c]

MCOutputs == {Out(1, 0, 0), Out(0, 1, 0), Out(0, 0, 1)}
=============================================================================
