----------------------------- MODULE MCUiDispatch -----------------------------
(* UiDispatch on two records, on both sides of the gas thresholds.   *)
EXTENDS UiDispatch

Rec(t, h, g) == [temperature |-> t, humidity |-> h, ratio |-> g]

MCReadings == {Rec(34, 69, 19), Rec(50, 85, 20)}

\* Records that differ in the gas ratio only, for liveness.
MCGasReadings == {Rec(25, 50, 0), Rec(25, 50, 20)}
==============================================================================
