------------------------------ MODULE BoardSensors ------------------------------
(***************************************************************************)
(* sensors/sensors.c: the board's legacy sensors module.  It loads the     *)
(* stock module once, opens its device, and shows one accelerometer of the *)
(* stock list, copied because the stock array need not outlive the call.   *)
(***************************************************************************)
EXTENDS Naturals, Sequences

CONSTANT StockModules  \* what may lie at STOCK_SENSORS_PATH

\* The list of a stock module is an array of as many entries as it says.
ASSUME StockAssumption ==
  \A m \in StockModules : Len(m.list) \in Nat /\ DOMAIN m.list = 1 .. Len(m.list)

VARIABLES
  stock,    \* the stock library: load, opens, version, list
  backend,  \* backend_error, "unset" until backend_once has run
  listed,   \* sensor_list_once has run
  visible   \* visible_sensor, as a sequence of length visible_sensor_count

filterVars == <<stock, backend, listed, visible>>

FilterInit ==
  /\ stock \in StockModules
  /\ backend = "unset" /\ listed = FALSE /\ visible = << >>
-----------------------------------------------------------------------------
load_backend ==
  CASE stock.load = "missing" -> "ENODEV"
    [] stock.load \in {"no symbol", "bad contract"} -> "EINVAL"
    [] OTHER -> "ok"

get_backend == IF backend = "unset" THEN load_backend ELSE backend

\* open_sensors reaches the stock open only with a backend.
open_sensors == get_backend = "ok" /\ stock.opens

\* Mutant: the first accelerometer is kept, as before wake-up entries counted.
Preferred_First(best, s) == s.accelerometer /\ best = << >>

\* s replaces the accelerometer chosen so far.
Preferred(best, s) ==
  s.accelerometer /\ (best = << >> \/ (best[1].wake /\ ~s.wake))

\* The loop of initialize_sensor_list: what it holds after i entries.
Chosen[i \in 0 .. Len(stock.list)] ==
  IF i = 0 THEN << >>
  ELSE IF Preferred(Chosen[i - 1], stock.list[i]) THEN <<stock.list[i]>> ELSE Chosen[i - 1]

initialize_sensor_list == IF get_backend # "ok" THEN << >> ELSE Chosen[Len(stock.list)]

get_sensors_list == IF listed THEN visible ELSE initialize_sensor_list
=============================================================================
