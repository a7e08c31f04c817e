-------------------------- MODULE SensorsStackProofs ---------------------------
(***************************************************************************)
(* Proofs about the sensors service: the adapter's invariant holds under   *)
(* the proxy's calls, whatever the stock module and the framework do, and  *)
(* the proxy keeps in step with the adapter; and of any stock list the     *)
(* right sensor is shown.                                                  *)
(***************************************************************************)
EXTENDS SensorsStack, WellFoundedInduction, TLAPS

(***************************************************************************)
(* The adapter, for any sensors and channels and any number of sessions,   *)
(* every device call failing or not                                        *)
(***************************************************************************)
\* The clock and the times on record, as far as the argument needs them.
TimesOK ==
  /\ epoch \in Nat /\ time \in Nat /\ sessionStart \in 0 .. time
  /\ \A h \in Active : activeSince[h] \in Nat
  /\ polled \subseteq Events

\* The inductive invariant.  NothingForgotten alone is not inductive with a
\* failing initialize unless each record is the device's own, sensor by sensor,
\* which it is; a session's activations need the callback to be withdrawn first.
IInv == TimesOK /\ ActivationsOfThisSession /\ NothingForgotten

LEMMA InitIInv == Init => IInv
  BY DEF Init, IInv, TimesOK, ActivationsOfThisSession, NothingForgotten, Active

\* Everything the invariant speaks of but polled and delivered.
LEMMA Frame ==
  ASSUME IInv, polled' \subseteq Events,
         UNCHANGED <<epoch, callback, activeSince, directChannels, mode, time, sessionStart,
                     devVars>>
  PROVE  IInv'
  BY DEF IInv, TimesOK, ActivationsOfThisSession, NothingForgotten, Active, Events, devVars

\* The constructor, whatever list it is given.
LEMMA ConstructKeeps ==
  ASSUME IInv, NEW list, NEW has14, Construct(list, has14)
  PROVE  IInv'
<1>1. polled' \subseteq Events
  BY DEF Construct, pollVars, IInv, TimesOK
<1> QED
  BY <1>1, Frame DEF Construct

LEMMA InitializeKeeps ==
  ASSUME IInv, initialize
  PROVE  IInv'
<1> USE DEF IInv, TimesOK, Active
<1>1. PICK failed \in SUBSET Active, channels \in SUBSET directChannels,
           modeOk \in {TRUE, mode = "NORMAL"} :
        /\ AfterDisable(failed)
        /\ devActive' = devActive \ (Active \ failed)
        /\ directChannels' = directChannels \cap channels
        /\ devChannels' = devChannels \ (directChannels \ channels)
        /\ mode' = IF modeOk THEN "NORMAL" ELSE mode
        /\ devMode' = IF modeOk THEN "NORMAL" ELSE devMode
        /\ IF InitializeOk(failed, channels, modeOk)
           THEN callback' = epoch' /\ sessionStart' = time
           ELSE callback' = 0 /\ UNCHANGED sessionStart
  BY Zenon DEF initialize
<1>2. /\ DOMAIN activeSince' = DOMAIN activeSince \cap failed
      /\ \A h \in DOMAIN activeSince' : activeSince'[h] = activeSince[h]
  BY <1>1 DEF AfterDisable, Remaining
<1>3. epoch' = epoch + 1 /\ time' = time /\ polled' = polled
  BY DEF initialize
<1>4. TimesOK'
  <2>1. sessionStart' \in 0 .. time'
    BY <1>1, <1>3
  <2>2. \A h \in DOMAIN activeSince' : activeSince'[h] \in Nat
    BY <1>2
  <2>3. polled' \subseteq Events'
    BY <1>3 DEF Events
  <2> QED
    BY <1>3, <2>1, <2>2, <2>3
<1>5. ActivationsOfThisSession'
  <2>1. callback' # 0 => failed = {}
    BY <1>1 DEF InitializeOk
  <2> QED
    BY <1>2, <2>1 DEF ActivationsOfThisSession
<1>6. NothingForgotten'
  BY <1>1, <1>2 DEF NothingForgotten
<1> QED
  BY <1>4, <1>5, <1>6

LEMMA EnableKeeps ==
  ASSUME IInv, NEW h \in Handles, Enable(h)
  PROVE  IInv'
<1> USE DEF IInv, TimesOK, Active
<1>1. /\ DOMAIN activeSince' = DOMAIN activeSince \cup {h}
      /\ \A g \in DOMAIN activeSince' :
           activeSince'[g] = IF g \in DOMAIN activeSince THEN activeSince[g] ELSE time
  BY DEF Enable
<1>2. UNCHANGED <<epoch, callback, time, sessionStart, polled>> /\ callback # 0
  BY DEF Enable, pollVars
<1>3. TimesOK'
  BY <1>1, <1>2 DEF Events
<1>4. ActivationsOfThisSession'
  BY <1>1, <1>2 DEF ActivationsOfThisSession
<1>5. NothingForgotten'
  BY <1>1 DEF NothingForgotten, Enable
<1> QED
  BY <1>3, <1>4, <1>5

LEMMA DisableKeeps ==
  ASSUME IInv, NEW h \in Handles, Disable(h)
  PROVE  IInv'
<1> USE DEF IInv, TimesOK, Active
<1>1. /\ DOMAIN activeSince' = DOMAIN activeSince \ {h}
      /\ \A g \in DOMAIN activeSince' : activeSince'[g] = activeSince[g]
  BY DEF Disable, Remaining
<1>2. UNCHANGED <<epoch, callback, time, sessionStart, polled>>
  BY DEF Disable, pollVars
<1>3. TimesOK'
  BY <1>1, <1>2 DEF Events
<1>4. ActivationsOfThisSession'
  BY <1>1, <1>2 DEF ActivationsOfThisSession
<1>5. NothingForgotten'
  BY <1>1 DEF NothingForgotten, Disable
<1> QED
  BY <1>3, <1>4, <1>5

\* setOperationMode and the direct channels touch no sensor and no time.
LEMMA ControlKeeps ==
  ASSUME IInv,
         \/ \E m \in Modes : setOperationMode(m)
         \/ \E c \in Channels : registerDirectChannel(c) \/ unregisterDirectChannel(c)
  PROVE  IInv'
<1>1. UNCHANGED <<epoch, callback, activeSince, time, sessionStart, polled, devActive>>
  BY DEF setOperationMode, registerDirectChannel, unregisterDirectChannel, pollVars
<1>2. directChannels' = devChannels' /\ mode' = devMode'
  BY DEF setOperationMode, registerDirectChannel, unregisterDirectChannel, IInv, NothingForgotten
<1> QED
  BY <1>1, <1>2 DEF IInv, TimesOK, ActivationsOfThisSession, NothingForgotten, Active, Events

LEMMA PollKeeps ==
  ASSUME IInv, ReadEpoch \/ PollReturns \/ Deliver
  PROVE  IInv'
<1>1. polled' \subseteq Events
  BY DEF ReadEpoch, PollReturns, Deliver, IInv, TimesOK
<1> QED
  BY <1>1, Frame DEF ReadEpoch, PollReturns, Deliver

LEMMA TickKeeps ==
  ASSUME IInv, Tick
  PROVE  IInv'
<1>1. /\ time' = time + 1
      /\ UNCHANGED <<epoch, callback, activeSince, directChannels, mode, sessionStart, polled,
                     devActive, devChannels, devMode>>
  BY DEF Tick, pollVars, devVars
<1> QED
  BY <1>1 DEF IInv, TimesOK, ActivationsOfThisSession, NothingForgotten, Active, Events

\* What Deliver posts was taken after the activation of its sensor, and that
\* belongs to the session of the callback.
LEMMA PostedInSession ==
  ASSUME IInv, Deliver, NEW e \in delivered', ~e.meta
  PROVE  e.time >= sessionStart
<1>1. /\ callback # 0 /\ e \in polled /\ e.handle \in Active
      /\ e.time >= activeSince[e.handle]
  BY DEF Deliver, Accepted, belongsToSession
<1>2. e.time \in Nat /\ activeSince[e.handle] \in Nat /\ sessionStart \in Nat
  BY <1>1, ConstantsAssumption DEF IInv, TimesOK, Events
<1>3. activeSince[e.handle] >= sessionStart
  BY <1>1 DEF IInv, ActivationsOfThisSession
<1> QED
  BY <1>1, <1>2, <1>3, SMTT(30)

LEMMA NextKeeps == IInv /\ [Next]_vars => IInv'
<1> SUFFICES ASSUME IInv, [Next]_vars PROVE IInv'
  OBVIOUS
<1>1. CASE UNCHANGED vars
  BY <1>1, Frame DEF vars, pollVars, IInv, TimesOK
<1>2. CASE Next
  BY <1>2, ConstructKeeps, InitializeKeeps, EnableKeeps, DisableKeeps, ControlKeeps, PollKeeps,
     TickKeeps, SMTT(30) DEF Next
<1> QED
  BY <1>1, <1>2

\* Nothing the device was told to run is forgotten, and no activation outlives
\* its session, through any sequence of failing device calls in initialize.
THEOREM DeviceOnRecord == Spec => [](NothingForgotten /\ ActivationsOfThisSession)
<1>1. IInv => NothingForgotten /\ ActivationsOfThisSession
  BY DEF IInv
<1> QED
  BY <1>1, InitIInv, NextKeeps, PTL DEF Spec
-----------------------------------------------------------------------------
(***************************************************************************)
(* The service                                                             *)
(***************************************************************************)
\* The proxy's threads are stopped through all of HalProxy::initialize, which
\* is what lets the adapter's initialize fail half-way.
StackIInv == IInv /\ LayersAgree /\ (proxyPc # "idle" => ~threadsRun)

\* One step of the service leaves the adapter alone or is one of its own
\* steps; the list it is built with is the only thing the two disagree on.
LEMMA AdapterStep ==
  ASSUME StackNext
  PROVE  \/ UNCHANGED vars
         \/ Next
         \/ \E list, has14 : Construct(list, has14)
<1>1. CASE Start
  BY <1>1 DEF Start
<1>2. CASE stopThreads \/ CheckQueues \/ InitializeSubHal
  BY <1>2 DEF stopThreads, CheckQueues, InitializeSubHal, Next
<1>3. ASSUME NEW h \in Handles, disableAllSensors(h) \/ \E on \in BOOLEAN : activate(h, on)
      PROVE  Next \/ UNCHANGED vars
  BY <1>3 DEF disableAllSensors, activate, Next
<1>4. ASSUME NEW m \in Modes, ProxySetOperationMode(m)
      PROVE  Next \/ UNCHANGED vars
  BY <1>4 DEF ProxySetOperationMode, Next
<1>5. ASSUME NEW c \in Channels, DirectChannel(c)
      PROVE  Next
  BY <1>5 DEF DirectChannel, Next
<1>6. CASE PollThread \/ TimePasses
  BY <1>6 DEF PollThread, TimePasses, Next
<1> QED
  BY <1>1, <1>2, <1>3, <1>4, <1>5, <1>6, SMTT(30) DEF StackNext

LEMMA AdapterKeeps == IInv /\ [StackNext]_stackVars => IInv'
<1> SUFFICES ASSUME IInv, [StackNext]_stackVars PROVE IInv'
  OBVIOUS
<1>1. \/ UNCHANGED vars \/ Next \/ \E list, has14 : Construct(list, has14)
  BY AdapterStep DEF stackVars
<1> QED
  BY <1>1, NextKeeps, ConstructKeeps

\* A sub-HAL that initialises has the callback of the new session and its mode
\* back to NORMAL, as the proxy then has.
LEMMA InitializeAgrees ==
  ASSUME IInv, initialize, callback' # 0
  PROVE  callback' = epoch' /\ mode' = "NORMAL"
  BY DEF initialize, InitializeOk

LEMMA StepAgrees == StackIInv /\ [StackNext]_stackVars => StackIInv'
<1> SUFFICES ASSUME StackIInv, [StackNext]_stackVars PROVE StackIInv'
  OBVIOUS
<1> DEFINE Agree == LayersAgree /\ (proxyPc # "idle" => ~threadsRun)
<1>0. IInv' /\ IInv
  BY AdapterKeeps DEF StackIInv
<1> SUFFICES Agree'
  BY <1>0 DEF StackIInv
<1>a. Agree
  BY DEF StackIInv
<1>b. ASSUME UNCHANGED <<epoch, callback, mode, threadsRun, proxyMode, proxyPc>>
      PROVE  Agree'
  BY <1>a, <1>b DEF LayersAgree
<1>1. CASE UNCHANGED stackVars
  BY <1>1, <1>b DEF stackVars, vars, proxyVars
<1>2. CASE Start
  <2>1. UNCHANGED <<epoch, callback, mode>>
    BY <1>2 DEF Start, Construct, vars
  <2> QED
    BY <1>2, <2>1, <1>b DEF Start
<1>3. CASE stopThreads
  BY <1>3 DEF stopThreads, LayersAgree
<1>4. CASE CheckQueues
  BY <1>4, <1>a DEF CheckQueues, LayersAgree, vars
<1>5. CASE InitializeSubHal
  <2>1. ~threadsRun
    BY <1>5, <1>a DEF InitializeSubHal
  <2>2. threadsRun' => callback' = epoch' /\ mode' = "NORMAL" /\ proxyMode' = "NORMAL"
    BY <1>0, <1>5, <2>1, InitializeAgrees, Zenon DEF InitializeSubHal, SubHalInitialized
  <2> QED
    BY <1>5, <2>2 DEF InitializeSubHal, LayersAgree
<1>6. ASSUME NEW h \in Handles, disableAllSensors(h) \/ \E on \in BOOLEAN : activate(h, on)
      PROVE  Agree'
  <2>1. UNCHANGED <<epoch, callback, mode, threadsRun, proxyMode, proxyPc>>
    BY <1>6 DEF disableAllSensors, activate, Enable, Disable, vars, proxyVars
  <2> QED
    BY <2>1, <1>b, SMTT(30)
<1>7. ASSUME NEW m \in Modes, ProxySetOperationMode(m)
      PROVE  Agree'
  <2>1. /\ mode' = proxyMode'
        /\ UNCHANGED <<epoch, callback, threadsRun, proxyPc>>
    BY <1>7, SMTT(30) DEF ProxySetOperationMode, setOperationMode, vars
  <2> QED
    BY <1>a, <2>1 DEF LayersAgree
<1>8. ASSUME NEW c \in Channels, DirectChannel(c)
      PROVE  Agree'
  <2>1. UNCHANGED <<epoch, callback, mode, threadsRun, proxyMode, proxyPc>>
    BY <1>8 DEF DirectChannel, registerDirectChannel, unregisterDirectChannel, proxyVars
  <2> QED
    BY <2>1, <1>b
<1>9. CASE PollThread \/ TimePasses
  <2>1. UNCHANGED <<epoch, callback, mode, threadsRun, proxyMode, proxyPc>>
    BY <1>9 DEF PollThread, TimePasses, ReadEpoch, PollReturns, Deliver, Tick, proxyVars
  <2> QED
    BY <2>1, <1>b, SMTT(30)
<1> QED
  BY <1>1, <1>2, <1>3, <1>4, <1>5, <1>6, <1>7, <1>8, <1>9, SMTT(30) DEF StackNext

LEMMA InitAgrees == StackInit => StackIInv
  BY InitIInv DEF StackInit, StackIInv, LayersAgree

\* While the proxy's threads run, the adapter's callback is that of the newest
\* session and both layers record one operation mode, for any stock module and
\* any failures of initialize and of setOperationMode.
THEOREM ServiceInStep == StackSpec => []LayersAgree
<1>1. StackIInv => LayersAgree
  BY DEF StackIInv
<1> QED
  BY <1>1, InitAgrees, StepAgrees, PTL DEF StackSpec

\* Under the proxy's calls too, nothing the device runs is forgotten.
THEOREM ServiceForgetsNothing == StackSpec => []NothingForgotten
<1>1. StackIInv => NothingForgotten
  BY DEF StackIInv, IInv
<1> QED
  BY <1>1, InitAgrees, StepAgrees, PTL DEF StackSpec

\* No sample from before the current session is posted to it.
THEOREM ServiceStartsAfresh == StackSpec => NoSampleFromBefore
<1>1. ASSUME IInv, [StackNext]_stackVars
      PROVE  [\A e \in delivered' \ delivered : ~e.meta => e.time >= sessionStart]_vars
  <2>1. \/ UNCHANGED vars \/ Next \/ \E list, has14 : Construct(list, has14)
    BY <1>1, AdapterStep DEF stackVars
  <2>2. CASE Deliver
    BY <1>1, <2>2, PostedInSession
  <2>3. ASSUME Next \/ (\E list, has14 : Construct(list, has14)), ~Deliver
        PROVE  delivered' = delivered \/ delivered' = {}
    BY <2>3, Zenon DEF Next, Construct, initialize, Enable, Disable, setOperationMode,
       registerDirectChannel, unregisterDirectChannel, ReadEpoch, PollReturns, Tick, pollVars
  <2> QED
    BY <2>1, <2>2, <2>3
<1>2. StackIInv => IInv
  BY DEF StackIInv
<1> QED
  BY <1>1, <1>2, InitAgrees, StepAgrees, PTL DEF StackSpec, NoSampleFromBefore
-----------------------------------------------------------------------------
\* What the proxy lists is what it lets the framework activate, so that nothing
\* else is ever active in the adapter.
ListInv ==
  /\ proxySensors = {h \in sensors : subHalIndexIsClear(h)}
  /\ Active \subseteq proxySensors
  /\ PostedAreListed

LEMMA ListFrame ==
  ASSUME ListInv, UNCHANGED <<sensors, proxySensors>>,
         Active' \subseteq Active, delivered' \subseteq delivered
  PROVE  ListInv'
  BY DEF ListInv, PostedAreListed, Active

LEMMA StepLists == ListInv /\ [StackNext]_stackVars => ListInv'
<1> SUFFICES ASSUME ListInv, [StackNext]_stackVars PROVE ListInv'
  OBVIOUS
<1>1. CASE UNCHANGED <<vars, proxyVars>>
  BY <1>1, ListFrame DEF vars, boardVars, pollVars, proxyVars, Active
<1>2. CASE Start
  <2>1. CASE visible' # << >>
    <3>1. /\ sensors = {}
          /\ sensors' = {visible'[i].handle : i \in DOMAIN visible'}
          /\ proxySensors' = {visible'[i].handle :
                                i \in {j \in DOMAIN visible' : subHalIndexIsClear(visible'[j].handle)}}
          /\ UNCHANGED <<activeSince, delivered>>
      BY <1>2, <2>1 DEF Start, Construct, initializeSensorList, isReady, pollVars
    <3>2. Active' = {} /\ delivered' = {}
      BY <3>1, SMTT(30) DEF ListInv, PostedAreListed, Active
    <3> QED
      BY <3>1, <3>2 DEF ListInv, PostedAreListed
  <2>2. CASE visible' = << >>
    BY <1>2, <2>2, ListFrame DEF Start, vars, boardVars, pollVars, Active
  <2> QED
    BY <2>1, <2>2
<1>3. CASE stopThreads \/ CheckQueues
  BY <1>3, ListFrame DEF stopThreads, CheckQueues, vars, boardVars, pollVars, Active
<1>4. CASE InitializeSubHal
  BY <1>4, ListFrame DEF InitializeSubHal, initialize, AfterDisable, Remaining, Active, boardVars
<1>5. ASSUME NEW h, Disable(h), UNCHANGED proxySensors
      PROVE  ListInv'
  BY <1>5, ListFrame DEF Disable, Remaining, Active, boardVars, pollVars
<1>6. ASSUME NEW h, Enable(h), isSubHalIndexValid(h), UNCHANGED proxySensors
      PROVE  ListInv'
  <2>1. /\ h \in sensors /\ subHalIndexIsClear(h) /\ Active' = Active \cup {h}
        /\ UNCHANGED <<sensors, delivered>>
    BY <1>6 DEF Enable, Known, isSubHalIndexValid, Active, boardVars, pollVars
  <2> QED
    BY <1>6, <2>1 DEF ListInv, PostedAreListed
<1>7. ASSUME NEW h \in Handles, disableAllSensors(h) \/ \E on \in BOOLEAN : activate(h, on)
      PROVE  ListInv'
  <2>1. UNCHANGED proxySensors
    BY <1>7 DEF disableAllSensors, activate, proxyVars
  <2>2. CASE UNCHANGED vars
    BY <2>1, <2>2, ListFrame, SMTT(30) DEF vars, boardVars, pollVars, Active
  <2> QED
    BY <1>5, <1>6, <1>7, <2>1, <2>2, SMTT(30) DEF disableAllSensors, activate
<1>8. ASSUME NEW m \in Modes, ProxySetOperationMode(m)
      PROVE  ListInv'
  BY <1>8, ListFrame, SMTT(30) DEF ProxySetOperationMode, setOperationMode, vars, boardVars, pollVars, Active
<1>9. ASSUME NEW c \in Channels, DirectChannel(c)
      PROVE  ListInv'
  BY <1>9, ListFrame DEF DirectChannel, registerDirectChannel, unregisterDirectChannel, proxyVars,
                         boardVars, pollVars, Active
<1>10. CASE PollThread
  <2>1. /\ UNCHANGED <<sensors, activeSince, proxySensors>>
        /\ delivered' \subseteq delivered \/ \A e \in delivered' : e.handle \in Active
    BY <1>10 DEF PollThread, ReadEpoch, PollReturns, Deliver, Accepted, boardVars, proxyVars
  <2> QED
    BY <2>1 DEF ListInv, PostedAreListed, Active
<1>11. CASE TimePasses
  BY <1>11, ListFrame DEF TimePasses, Tick, boardVars, pollVars, proxyVars, Active
<1> QED
  BY <1>1, <1>2, <1>3, <1>4, <1>7, <1>8, <1>9, <1>10, <1>11, SMTT(30) DEF StackNext, stackVars

\* Every event the adapter posts is of a sensor in the proxy's own list,
\* whatever the stock module reports and the framework asks for: the at() of
\* processEvents never throws.
THEOREM PostedAlwaysListed == StackSpec => []PostedAreListed
<1>1. StackInit => ListInv
  BY DEF StackInit, Init, ListInv, PostedAreListed, Active
<1>2. ListInv => PostedAreListed
  BY DEF ListInv
<1> QED
  BY <1>1, <1>2, StepLists, PTL DEF StackSpec
-----------------------------------------------------------------------------
(***************************************************************************)
(* The sensor the board module shows: the loop over the stock list, by     *)
(* induction on the entries it has seen.                                   *)
(***************************************************************************)
LEMMA LeastNatural ==
  ASSUME NEW T \in SUBSET Nat, T # {}
  PROVE  \E m \in T : \A k \in T : m <= k
<1> DEFINE R == {p \in Nat \X Nat : p[1] < p[2]}
<1>1. IsWellFoundedOn(R, Nat)
  BY NatLessThanWellFounded DEF OpToRel
<1> HIDE DEF R
<1>2. PICK m \in T : \A k \in T : ~ (<<k, m>> \in R)
  BY <1>1, WFMin, Zenon
<1>3. m \in Nat /\ \A k \in T : k \in Nat
  OBVIOUS
<1>4. \A k \in T : ~(k < m)
  BY <1>2, <1>3, Zenon DEF R
<1>5. \A k \in T : m <= k
  BY <1>3, <1>4
<1> QED
  BY <1>5

\* The loop's equation has a solution, so that Chosen is one.
LEMMA ChosenDef ==
  ASSUME Len(stock.list) \in Nat
  PROVE  /\ Chosen[0] = << >>
         /\ \A i \in 1 .. Len(stock.list) :
              Chosen[i] = IF Preferred(Chosen[i - 1], stock.list[i]) THEN <<stock.list[i]>>
                                                                   ELSE Chosen[i - 1]
<1> DEFINE After(best, i) == IF Preferred(best, stock.list[i]) THEN <<stock.list[i]>> ELSE best
           Solves(g, n) == g = [i \in 0 .. n |-> IF i = 0 THEN << >> ELSE After(g[i - 1], i)]
           T == {n \in Nat : ~ \E g : Solves(g, n)}
           N == Len(stock.list)
<1>1. T = {}
  <2> SUFFICES ASSUME T # {} PROVE FALSE
    OBVIOUS
  <2>1. PICK m \in T : \A k \in T : m <= k
    BY LeastNatural, Zenon
  <2>2. m # 0
    <3> DEFINE g == [i \in 0 .. 0 |-> << >>]
    <3>1. Solves(g, 0)
      <4>1. \A i \in 0 .. 0 : i = 0
        OBVIOUS
      <4> HIDE DEF After
      <4> QED
        BY <4>1
    <3> QED
      BY <3>1, Zenon
  <2>3. m - 1 \in Nat /\ m - 1 \notin T
    <3>1. m \in Nat
      OBVIOUS
    <3> HIDE DEF T
    <3> QED
      BY <2>1, <2>2, <3>1
  <2>4. PICK g : Solves(g, m - 1)
    BY <2>3
  <2> DEFINE h == [i \in 0 .. m |-> IF i = m THEN After(g[m - 1], m) ELSE g[i]]
  <2>5. Solves(h, m)
    <3> HIDE DEF After
    <3>1. \A i \in 0 .. m : i # m => i \in 0 .. m - 1
      BY <2>1, <2>3
    <3>2. \A i \in 0 .. m - 1 : g[i] = IF i = 0 THEN << >> ELSE After(g[i - 1], i)
      BY <2>4
    <3>3. \A i \in 0 .. m : i # 0 => i - 1 \in 0 .. m /\ i - 1 # m
      BY <2>1
    <3>4. \A i \in 0 .. m : h[i] = IF i = 0 THEN << >> ELSE After(h[i - 1], i)
      BY <2>2, <3>1, <3>2, <3>3
    <3>5. h = [i \in 0 .. m |-> h[i]]
      OBVIOUS
    <3> HIDE DEF h
    <3> QED
      BY <3>4, <3>5, Zenon
  <2> QED
    BY <2>1, <2>5, Zenon
<1>2. \E g : Solves(g, N)
  BY <1>1
<1>3. Chosen = CHOOSE g : Solves(g, N)
  BY DEF Chosen
<1>4. Solves(Chosen, N)
  <2> HIDE DEF Solves
  <2> QED
    BY <1>2, <1>3
<1>5. \A i \in 0 .. N : Chosen[i] = IF i = 0 THEN << >> ELSE After(Chosen[i - 1], i)
  <2> HIDE DEF After
  <2> QED
    BY <1>4, Zenon
<1>6. 0 \in 0 .. N /\ \A i \in 1 .. N : i \in 0 .. N /\ i # 0
  OBVIOUS
<1> QED
  BY <1>5, <1>6, Zenon

\* After i entries the loop holds none if they have no accelerometer, and else
\* the one ChoiceIsRight asks for among them.
Best(j, i) ==
  LET s == stock.list[j]
  IN  /\ s.accelerometer
      /\ \A k \in 1 .. j - 1 : ~(stock.list[k].accelerometer /\ (~stock.list[k].wake \/ s.wake))
      /\ s.wake => \A k \in 1 .. i : stock.list[k].accelerometer => stock.list[k].wake
Right(i) ==
  \/ Chosen[i] = << >> /\ \A k \in 1 .. i : ~stock.list[k].accelerometer
  \/ \E j \in 1 .. i : Chosen[i] = <<stock.list[j]>> /\ Best(j, i)

LEMMA LoopStep ==
  ASSUME Len(stock.list) \in Nat, NEW i \in 1 .. Len(stock.list), Right(i - 1)
  PROVE  Right(i)
<1> DEFINE s == stock.list[i]
<1>1. Chosen[i] = IF Preferred(Chosen[i - 1], s) THEN <<s>> ELSE Chosen[i - 1]
  BY ChosenDef
<1>2. i \in Nat /\ i \in 1 .. i /\ \A k \in 1 .. i : k = i \/ k \in 1 .. i - 1
  OBVIOUS
<1>3. CASE Chosen[i - 1] = << >> /\ \A k \in 1 .. i - 1 : ~stock.list[k].accelerometer
  <2>1. Preferred(Chosen[i - 1], s) <=> s.accelerometer
    BY <1>3 DEF Preferred
  <2>2. CASE s.accelerometer
    <3>1. Chosen[i] = <<stock.list[i]>>
      BY <1>1, <2>1, <2>2
    <3>2. Best(i, i)
      BY <1>2, <1>3, <2>2 DEF Best
    <3> QED
      BY <1>2, <3>1, <3>2 DEF Right
  <2>3. CASE ~s.accelerometer
    <3>1. Chosen[i] = << >>
      BY <1>1, <1>3, <2>1, <2>3
    <3> QED
      BY <1>2, <1>3, <2>3, <3>1 DEF Right
  <2> QED
    BY <2>2, <2>3
<1>4. ASSUME NEW j \in 1 .. i - 1, Chosen[i - 1] = <<stock.list[j]>>, Best(j, i - 1)
      PROVE  Right(i)
  <2>1. Preferred(Chosen[i - 1], s) <=> s.accelerometer /\ stock.list[j].wake /\ ~s.wake
    BY <1>4 DEF Preferred
  <2>2. CASE s.accelerometer /\ stock.list[j].wake /\ ~s.wake
    <3>1. Chosen[i] = <<stock.list[i]>>
      BY <1>1, <2>1, <2>2
    <3>2. Best(i, i)
      BY <1>2, <1>4, <2>2 DEF Best
    <3> QED
      BY <1>2, <3>1, <3>2 DEF Right
  <2>3. CASE ~(s.accelerometer /\ stock.list[j].wake /\ ~s.wake)
    <3>1. Chosen[i] = <<stock.list[j]>> /\ j \in 1 .. i
      BY <1>1, <1>4, <2>1, <2>3
    <3>2. Best(j, i)
      BY <1>2, <1>4, <2>3 DEF Best
    <3> QED
      BY <3>1, <3>2 DEF Right
  <2> QED
    BY <2>2, <2>3
<1> QED
  BY <1>3, <1>4 DEF Right

LEMMA LoopIsRight ==
  ASSUME Len(stock.list) \in Nat
  PROVE  Right(Len(stock.list))
<1> DEFINE N == Len(stock.list)
           T == {i \in 0 .. N : ~Right(i)}
<1>1. Right(0)
  BY ChosenDef DEF Right
<1>2. T = {}
  <2> SUFFICES ASSUME T # {} PROVE FALSE
    OBVIOUS
  <2>1. T \in SUBSET Nat
    OBVIOUS
  <2>2. PICK m \in T : \A k \in T : m <= k
    BY <2>1, LeastNatural, Zenon
  <2>3. m \in 0 .. N /\ ~Right(m)
    OBVIOUS
  <2>4. m \in 1 .. N
    <3>1. m # 0
      BY <1>1, <2>3, Zenon
    <3> QED
      BY <2>3, <3>1
  <2>5. m - 1 \in 0 .. N /\ m - 1 \notin T
    <3> HIDE DEF T
    <3> QED
      BY <2>2, <2>4
  <2>6. Right(m - 1)
    BY <2>5
  <2> QED
    BY <2>3, <2>4, <2>6, LoopStep
<1> QED
  BY <1>2

\* Until main has built the adapter nothing has been read of the stock module.
UnreadInv ==
  service = "starting" =>
    stock \in StockModules /\ backend = "unset" /\ ~listed /\ visible = << >>

LEMMA ServiceKept ==
  ASSUME [StackNext]_stackVars
  PROVE  Start \/ UNCHANGED <<filterVars, service>>
  BY DEF StackNext, stackVars, proxyVars, stopThreads, CheckQueues, InitializeSubHal,
         disableAllSensors, activate, ProxySetOperationMode, DirectChannel, PollThread, TimePasses

\* Whatever the length of the stock list and the order of its entries, the
\* service starts with the accelerometer the comment of initialize_sensor_list
\* promises: one that is not a wake-up sensor if there is one, the first of
\* its kind.
THEOREM RightAccelerometer == StackSpec => ChoiceIsRight
<1>1. StackInit => UnreadInv
  BY DEF StackInit, FilterInit, UnreadInv
<1>2. UnreadInv /\ [StackNext]_stackVars => UnreadInv'
  <2>1. Start => service' # "starting"
    BY DEF Start
  <2> QED
    BY <2>1, ServiceKept DEF UnreadInv, filterVars
<1>3. ASSUME UnreadInv, [StackNext]_stackVars, service' = "running", service = "starting"
      PROVE  \E i \in DOMAIN stock.list :
               LET s == stock.list[i]
                   better(t) == t.accelerometer /\ (~t.wake \/ s.wake)
               IN  /\ sensors' = {s.handle} /\ s.accelerometer
                   /\ \A j \in 1 .. i - 1 : ~better(stock.list[j])
                   /\ s.wake => \A j \in DOMAIN stock.list :
                                  stock.list[j].accelerometer => stock.list[j].wake
  <2> DEFINE N == Len(stock.list)
  <2>1. N \in Nat /\ DOMAIN stock.list = 1 .. N /\ ~listed /\ visible = << >>
    BY <1>3, StockAssumption DEF UnreadInv
  <2>2. Start /\ visible' # << >>
    <3>1. Start
      BY <1>3, ServiceKept
    <3> QED
      BY <1>3, <3>1 DEF Start
  <2>3. visible' = get_sensors_list
    BY <2>1, <2>2 DEF Start
  <2>4. visible' = Chosen[N]
    BY <2>1, <2>2, <2>3 DEF get_sensors_list, initialize_sensor_list
  <2>5. PICK i \in 1 .. N : Chosen[N] = <<stock.list[i]>> /\ Best(i, N)
    BY <2>1, <2>2, <2>4, LoopIsRight DEF Right
  <2>6. sensors' = {visible'[k].handle : k \in DOMAIN visible'}
    BY <2>2 DEF Start, Construct
  <2>7. sensors' = {stock.list[i].handle}
    <3>1. visible' = <<stock.list[i]>>
      BY <2>4, <2>5
    <3>2. DOMAIN visible' = {1} /\ visible'[1] = stock.list[i]
      BY <3>1
    <3> QED
      BY <2>6, <3>2
  <2> QED
    BY <2>1, <2>5, <2>7 DEF Best
<1> QED
  BY <1>1, <1>2, <1>3, PTL DEF StackSpec, ChoiceIsRight
=============================================================================
