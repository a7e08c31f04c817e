----------------------------- MODULE MCSensorsStack -----------------------------
(* Model-checking instance of SensorsStack: stock modules that fail at every   *)
(* stage of loading, and every list of up to three of four stock sensors.        *)
EXTENDS SensorsStack, SequencesExt

CONSTANTS accel, wakeAccel, wideAccel, phantom

StockSensor(h, isAccel, isWake, isDirect) ==
  [handle |-> h, accelerometer |-> isAccel, wake |-> isWake, direct |-> isDirect]

StockSensors ==
  {StockSensor(accel, TRUE, FALSE, TRUE), StockSensor(wakeAccel, TRUE, TRUE, FALSE),
   StockSensor(wideAccel, TRUE, FALSE, FALSE), StockSensor(phantom, FALSE, FALSE, FALSE)}

Stock ==
  [load : {"ok", "missing", "no symbol", "bad contract"}, opens : BOOLEAN,
   version : 2 .. 4, list : SeqOf(StockSensors, 3)]

AllHandles == {accel, wakeAccel, wideAccel, phantom}
Wide == {wideAccel}
=============================================================================
