----------------------------- MODULE SensorsSubHal -----------------------------
(***************************************************************************)
(* sensors-hal/SensorsSubHal: the adapter over the legacy sensors device.  *)
(* Its poll thread reads the session epoch, blocks in the device without   *)
(* the mutex, and filters what comes back against the session and the      *)
(* activations of the moment; the Binder calls and initialize, one step    *)
(* each under mMutex, happen in between.  A device call that fails leaves  *)
(* the device as it was.                                                   *)
(***************************************************************************)
EXTENDS Naturals, FiniteSets

CONSTANTS
  Handles,   \* sensors the device reports, those the board filter hides included
  Channels,  \* direct channels the device can give out
  MAX_TIME,  \* bound on elapsedRealtimeNano
  MAX_EPOCH  \* bound on the calls of initialize

ASSUME ConstantsAssumption ==
  MAX_TIME \in Nat /\ MAX_EPOCH \in Nat

Modes == {"NORMAL", "DATA_INJECTION"}

VARIABLES
  sensors,         \* mSensors; empty until the constructor has succeeded
  extended,        \* the device has the operations of API 1.4
  epoch,           \* mEpoch
  callback,        \* mCallback: the epoch that published it, or 0
  activeSince,     \* mActiveSince: handle -> time, for the handles in its domain
  directChannels,  \* mDirectChannels
  mode,            \* mCurrentOperationMode
  pollPc,          \* the poll thread: "none", "begin", "polling", "deliver"
  pollEpoch,       \* the epoch it has read
  polled,          \* the events of its buffer
  delivered,       \* what it posted last
  time,            \* elapsedRealtimeNano
  sessionStart,    \* when the current callback was published
  devActive, devChannels, devMode  \* the device itself

devVars == <<devActive, devChannels, devMode>>
pollVars == <<pollPc, pollEpoch, polled, delivered>>
boardVars == <<sensors, extended>>
vars == <<boardVars, epoch, callback, activeSince, directChannels, mode, pollVars, time,
          sessionStart, devVars>>

Events == [handle : Handles, time : 0 .. MAX_TIME, meta : BOOLEAN]
Active == DOMAIN activeSince

TypeOK ==
  /\ sensors \subseteq Handles /\ extended \in BOOLEAN
  /\ epoch \in 0 .. MAX_EPOCH /\ callback \in 0 .. epoch
  /\ Active \subseteq sensors /\ \A h \in Active : activeSince[h] \in 0 .. time
  /\ directChannels \subseteq Channels
  /\ mode \in Modes
  /\ pollPc \in {"none", "begin", "polling", "deliver"}
  /\ pollEpoch \in 0 .. epoch
  /\ polled \subseteq Events /\ delivered \subseteq Events
  /\ time \in 0 .. MAX_TIME /\ sessionStart \in 0 .. time
  /\ devActive \subseteq sensors /\ devChannels \subseteq Channels /\ devMode \in Modes

Init ==
  /\ sensors = {} /\ extended = FALSE
  /\ epoch = 0 /\ callback = 0
  /\ activeSince = [h \in {} |-> 0] /\ directChannels = {} /\ mode = "NORMAL"
  /\ pollPc = "none" /\ pollEpoch = 0 /\ polled = {} /\ delivered = {}
  /\ time = 0 /\ sessionStart = 0
  /\ devActive = {} /\ devChannels = {} /\ devMode = "NORMAL"

Remaining(f, S) == [h \in DOMAIN f \cap S |-> f[h]]

\* mInitStatus == OK
isReady == sensors # {}
-----------------------------------------------------------------------------
\* The constructor: a device that opened and a list with something in it.
Construct(list, has14) ==
  /\ ~isReady /\ list # {}
  /\ sensors' = list /\ extended' = has14
  /\ UNCHANGED <<epoch, callback, activeSince, directChannels, mode, pollVars, time,
                 sessionStart, devVars>>

\* Mutant: a sensor that could not be switched off is forgotten.
AfterDisable_Forgotten(failed) == activeSince' = Remaining(activeSince, {})

\* Failed deactivations are retained for retry.
AfterDisable(failed) == activeSince' = Remaining(activeSince, failed)

\* The result of initialize.
InitializeOk(failed, channels, modeOk) == failed = {} /\ channels = {} /\ modeOk

\* initialize: failed and channels name the device calls that fail.
initialize ==
  /\ isReady /\ epoch < MAX_EPOCH
  /\ epoch' = epoch + 1
  /\ \E failed \in SUBSET Active, channels \in SUBSET directChannels,
        modeOk \in {TRUE, mode = "NORMAL"} :
       /\ AfterDisable(failed)
       /\ devActive' = devActive \ (Active \ failed)
       /\ directChannels' = directChannels \cap channels
       /\ devChannels' = devChannels \ (directChannels \ channels)
       /\ mode' = IF modeOk THEN "NORMAL" ELSE mode
       /\ devMode' = IF modeOk THEN "NORMAL" ELSE devMode
       /\ IF InitializeOk(failed, channels, modeOk)
          THEN /\ callback' = epoch' /\ sessionStart' = time
               /\ pollPc' = IF pollPc = "none" THEN "begin" ELSE pollPc
          ELSE callback' = 0 /\ UNCHANGED <<sessionStart, pollPc>>
  /\ UNCHANGED <<boardVars, pollEpoch, polled, delivered, time>>

\* The handle is in mSensors.
Known(h) == h \in sensors

\* activate(handle, true); activating again keeps the first time.
Enable(h) ==
  /\ Known(h) /\ callback # 0
  /\ activeSince' = [g \in Active \cup {h} |-> IF g \in Active THEN activeSince[g] ELSE time]
  /\ devActive' = devActive \cup {h}
  /\ UNCHANGED <<boardVars, epoch, callback, directChannels, mode, pollVars, time, sessionStart,
                 devChannels, devMode>>

\* activate(handle, false)
Disable(h) ==
  /\ Known(h)
  /\ activeSince' = Remaining(activeSince, Active \ {h})
  /\ devActive' = devActive \ {h}
  /\ UNCHANGED <<boardVars, epoch, callback, directChannels, mode, pollVars, time, sessionStart,
                 devChannels, devMode>>

setOperationMode(m) ==
  /\ isReady /\ extended /\ m # mode
  /\ mode' = m /\ devMode' = m
  /\ UNCHANGED <<boardVars, epoch, callback, activeSince, directChannels, pollVars, time,
                 sessionStart, devActive, devChannels>>

registerDirectChannel(c) ==
  /\ isReady /\ extended /\ c \notin devChannels
  /\ directChannels' = directChannels \cup {c} /\ devChannels' = devChannels \cup {c}
  /\ UNCHANGED <<boardVars, epoch, callback, activeSince, mode, pollVars, time, sessionStart,
                 devActive, devMode>>

unregisterDirectChannel(c) ==
  /\ c \in directChannels
  /\ directChannels' = directChannels \ {c} /\ devChannels' = devChannels \ {c}
  /\ UNCHANGED <<boardVars, epoch, callback, activeSince, mode, pollVars, time, sessionStart,
                 devActive, devMode>>
-----------------------------------------------------------------------------
(***************************************************************************)
(* pollForEvents                                                           *)
(***************************************************************************)
ReadEpoch ==
  /\ pollPc = "begin" /\ pollPc' = "polling" /\ pollEpoch' = epoch
  /\ delivered' = {}
  /\ UNCHANGED <<boardVars, epoch, callback, activeSince, directChannels, mode, polled, time,
                 sessionStart, devVars>>

\* The device returns events of any age, or an error and the thread backs off.
PollReturns ==
  /\ pollPc = "polling"
  /\ \/ pollPc' = "begin" /\ UNCHANGED polled
     \/ /\ pollPc' = "deliver"
        /\ \E e \in Events : e.time <= time /\ polled' = {e}
  /\ UNCHANGED <<boardVars, epoch, callback, activeSince, directChannels, mode, pollEpoch, delivered,
                 time, sessionStart, devVars>>

\* Mutant: the time of activation is not compared.
belongsToSession_EpochOnly(e) == pollEpoch = epoch

belongsToSession(e) == pollEpoch = epoch /\ e.time >= activeSince[e.handle]

\* Mutant: the board list is not consulted.
Accepted_Unlisted(e) == e.meta \/ e.handle \notin Active \/ belongsToSession(e)

\* Flush metadata has no sample time.
Accepted(e) ==
  /\ Known(e.handle) /\ e.handle \in Active
  /\ e.meta \/ belongsToSession(e)

Deliver ==
  /\ pollPc = "deliver" /\ pollPc' = "begin" /\ polled' = {}
  /\ delivered' = IF callback = 0 \/ pollEpoch # epoch THEN {}
                                                     ELSE {e \in polled : Accepted(e)}
  /\ UNCHANGED <<boardVars, epoch, callback, activeSince, directChannels, mode, pollEpoch, time,
                 sessionStart, devVars>>

\* elapsedRealtimeNano advances.
Tick ==
  /\ time < MAX_TIME /\ time' = time + 1
  /\ UNCHANGED <<boardVars, epoch, callback, activeSince, directChannels, mode, pollVars,
                 sessionStart, devVars>>

Next ==
  \/ \E list \in SUBSET Handles, has14 \in BOOLEAN : Construct(list, has14)
  \/ initialize
  \/ \E h \in Handles : Enable(h) \/ Disable(h)
  \/ \E m \in Modes : setOperationMode(m)
  \/ \E c \in Channels : registerDirectChannel(c) \/ unregisterDirectChannel(c)
  \/ ReadEpoch \/ PollReturns \/ Deliver \/ Tick

Spec == Init /\ [][Next]_vars
-----------------------------------------------------------------------------
(***************************************************************************)
(* Properties                                                              *)
(***************************************************************************)
\* A sample taken before the framework's current session is never posted to
\* it, however long the poll call or the device held it back.
NoSampleFromBefore ==
  [][\A e \in delivered' \ delivered : ~e.meta => e.time >= sessionStart]_vars

\* While there is a callback, every activation is one of this session: those
\* of earlier sessions were switched off before it was published.
ActivationsOfThisSession ==
  callback # 0 => \A h \in Active : activeSince[h] >= sessionStart

\* Nothing the device was told to run is forgotten: what is on is on record
\* and will be switched off by the next initialize, after any failures.
NothingForgotten == devActive = Active /\ devChannels = directChannels /\ devMode = mode

=============================================================================
