------------------------------ MODULE SensorsStack ------------------------------
(***************************************************************************)
(* The sensors service from the framework's calls down to the stock        *)
(* module: HalProxy's control plane over the one SensorsSubHal of this     *)
(* board, over the filter of BoardSensors.  The service has one Binder     *)
(* thread, so framework calls do not overlap; the adapter's poll thread    *)
(* runs between any two steps of them.                                     *)
(***************************************************************************)
EXTENDS SensorsSubHal, BoardSensors

CONSTANT WideHandles  \* handles whose first byte, the sub-HAL index, is not 0

VARIABLES
  service,        \* "starting", "running" or "exited"
  proxySensors,   \* HalProxy::mSensors
  directSubHal,   \* mDirectChannelSubHal is set
  proxyMode,      \* HalProxy::mCurrentOperationMode
  threadsRun,     \* mThreadsRun
  proxyPc,        \* HalProxy::initialize: "idle", "disable", "subhal"
  toDisable       \* what disableAllSensors still has to visit

proxyVars == <<service, proxySensors, directSubHal, proxyMode, threadsRun, proxyPc, toDisable>>
stackVars == <<vars, filterVars, proxyVars>>

StackTypeOK ==
  /\ TypeOK
  /\ service \in {"starting", "running", "exited"}
  /\ proxySensors \subseteq sensors /\ toDisable \subseteq proxySensors
  /\ directSubHal \in BOOLEAN /\ threadsRun \in BOOLEAN /\ proxyMode \in Modes
  /\ proxyPc \in {"idle", "disable", "subhal"}

StackInit ==
  /\ Init /\ FilterInit
  /\ service = "starting" /\ proxySensors = {} /\ directSubHal = FALSE
  /\ proxyMode = "NORMAL" /\ threadsRun = FALSE /\ proxyPc = "idle" /\ toDisable = {}

Idle == service = "running" /\ proxyPc = "idle"
-----------------------------------------------------------------------------
\* The adapter's constructor after hw_get_module: the contract of API 1.3.
Opened == open_sensors /\ stock.version >= 3

\* subHalIndexIsClear
subHalIndexIsClear(h) == h \notin WideHandles

\* With one sub-HAL the only valid index is 0.
isSubHalIndexValid(h) == subHalIndexIsClear(h)

\* What the proxy takes over of the adapter's list.
initializeSensorList(list) ==
  /\ proxySensors' = {list[i].handle : i \in {j \in DOMAIN list : subHalIndexIsClear(list[j].handle)}}
  /\ directSubHal' = \E i \in DOMAIN list : subHalIndexIsClear(list[i].handle) /\ list[i].direct

(***************************************************************************)
(* main: the adapter is built on the board module, and the proxy on the    *)
(* adapter unless it is not ready; the registration may fail.  The stock   *)
(* list is not read again.                                                 *)
(***************************************************************************)
Start ==
  /\ service = "starting"
  /\ backend' = get_backend
  /\ IF Opened THEN listed' = TRUE /\ visible' = get_sensors_list
               ELSE UNCHANGED <<listed, visible>>
  /\ IF visible' # << >>
     THEN /\ Construct({visible'[i].handle : i \in DOMAIN visible'}, stock.version >= 4)
          /\ initializeSensorList(visible')
          /\ service' \in {"running", "exited"}
     ELSE service' = "exited" /\ UNCHANGED <<vars, proxySensors, directSubHal>>
  /\ stock' = [stock EXCEPT !.list = << >>]
  /\ UNCHANGED <<proxyMode, threadsRun, proxyPc, toDisable>>
-----------------------------------------------------------------------------
(***************************************************************************)
(* The framework's calls; a refused or failed one changes nothing.         *)
(***************************************************************************)
activate(h, enabled) ==
  /\ Idle /\ isSubHalIndexValid(h)
  /\ IF enabled THEN Enable(h) ELSE Disable(h)
  /\ UNCHANGED <<filterVars, proxyVars>>

\* The adapter returns OK at once for the mode it is in.
ProxySetOperationMode(m) ==
  /\ Idle
  /\ setOperationMode(m) \/ (m = mode /\ UNCHANGED vars)
  /\ proxyMode' = m
  /\ UNCHANGED <<filterVars, service, proxySensors, directSubHal, threadsRun, proxyPc, toDisable>>

DirectChannel(c) ==
  /\ Idle /\ directSubHal
  /\ registerDirectChannel(c) \/ unregisterDirectChannel(c)
  /\ UNCHANGED <<filterVars, proxyVars>>
-----------------------------------------------------------------------------
(***************************************************************************)
(* HalProxy::initialize                                                    *)
(***************************************************************************)
stopThreads ==
  /\ Idle /\ epoch < MAX_EPOCH
  /\ threadsRun' = FALSE /\ proxyPc' = "disable" /\ toDisable' = proxySensors
  /\ UNCHANGED <<vars, filterVars, service, proxySensors, directSubHal, proxyMode>>

\* The result of each activate is ignored.
disableAllSensors(h) ==
  /\ proxyPc = "disable" /\ h \in toDisable
  /\ (isSubHalIndexValid(h) /\ Disable(h)) \/ UNCHANGED vars
  /\ toDisable' = toDisable \ {h}
  /\ UNCHANGED <<filterVars, service, proxySensors, directSubHal, proxyMode, threadsRun, proxyPc>>

\* The framework's queues may be unusable: BAD_VALUE, with the threads stopped
\* and the adapter still holding its callback.
CheckQueues ==
  /\ proxyPc = "disable" /\ toDisable = {}
  /\ proxyPc' \in {"idle", "subhal"}
  /\ UNCHANGED <<vars, filterVars, service, proxySensors, directSubHal, proxyMode, threadsRun,
                 toDisable>>

\* Mutant: the threads are started whatever the sub-HAL says.
SubHalInitialized_Ignored == TRUE

SubHalInitialized == callback' # 0

InitializeSubHal ==
  /\ proxyPc = "subhal" /\ initialize
  /\ IF SubHalInitialized THEN proxyMode' = "NORMAL" /\ threadsRun' = TRUE
                          ELSE UNCHANGED <<proxyMode, threadsRun>>
  /\ proxyPc' = "idle"
  /\ UNCHANGED <<filterVars, service, proxySensors, directSubHal, toDisable>>
-----------------------------------------------------------------------------
PollThread == (ReadEpoch \/ PollReturns \/ Deliver) /\ UNCHANGED <<filterVars, proxyVars>>

TimePasses == Tick /\ UNCHANGED <<filterVars, proxyVars>>

StackNext ==
  \/ Start \/ stopThreads \/ CheckQueues \/ InitializeSubHal
  \/ \E h \in Handles : disableAllSensors(h) \/ \E on \in BOOLEAN : activate(h, on)
  \/ \E m \in Modes : ProxySetOperationMode(m)
  \/ \E c \in Channels : DirectChannel(c)
  \/ PollThread \/ TimePasses

StackSpec == StackInit /\ [][StackNext]_stackVars
-----------------------------------------------------------------------------
(***************************************************************************)
(* Properties                                                              *)
(***************************************************************************)
\* The proxy delivers only in step with the adapter: while its threads run,
\* the adapter's callback is that of the newest session and both record the
\* same operation mode, on which injectSensorData decides, whatever part of
\* an earlier initialize or of a mode change failed.
LayersAgree == threadsRun => callback = epoch /\ proxyMode = mode

\* What the adapter posts is in the proxy's own list, which processEvents and
\* countNumWakeupEvents index with at(): a stock sensor that the proxy refused
\* for its handle, or that the filter hid, never gets that far.
PostedAreListed == \A e \in delivered : e.handle \in proxySensors

\* The service starts with exactly one sensor: an accelerometer of the stock
\* list, not a wake-up one if the list has another, and the first of its kind.
ChoiceIsRight ==
  [][service' = "running" /\ service = "starting" =>
       \E i \in DOMAIN stock.list :
         LET s == stock.list[i]
             better(t) == t.accelerometer /\ (~t.wake \/ s.wake)
         IN  /\ sensors' = {s.handle} /\ s.accelerometer
             /\ \A j \in 1 .. i - 1 : ~better(stock.list[j])
             /\ s.wake => \A j \in DOMAIN stock.list :
                            stock.list[j].accelerometer => stock.list[j].wake]_stackVars
=============================================================================
