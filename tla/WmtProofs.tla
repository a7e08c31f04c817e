------------------------------- MODULE WmtProofs -------------------------------
(***************************************************************************)
(* The safety properties of wmt-launcher.  First those of its threads      *)
(* (WmtLauncher), for every number of power attempts and of transactions:  *)
(* the inductive invariant IInv has one part per property, and the parts   *)
(* share only the types.  Then those of one command (WmtCommand), for any  *)
(* directory, any limits and any versions: HandlerInv says what a search   *)
(* has gathered at every point and where the handler is.                   *)
(***************************************************************************)
EXTENDS WmtLauncher, WmtCommand, FiniteSetTheorems, TLAPS

\* A command is for a transaction that was once open, and while it still is
\* there is nothing further to read.
CommandInv ==
  /\ kernel.unread => kernel.open # 0
  /\ kernel.open <= kernel.last /\ command <= kernel.last
  /\ pc \in {"reply", "publish"} => command # 0
  /\ pc = "reply" /\ kernel.open = command => ~kernel.unread

\* A worker keeps the log's value on record from its creation until a disable
\* that comes after its join.
LogInv ==
  /\ kernel.log \/ log.created => controls = "yes"
  /\ log.pc \in {"head", "ioctl"} => log.created
  /\ pc \in {"disableLog", "finalDisable", "withdraw", "exited"} => ~log.created

\* No worker exists before the loop, and none is left once it was joined.
ExitInv ==
  /\ pc \in {"open", "chip", "bind", "setup", "start"} =>
       power.pc = "none" /\ ~log.created /\ ~kernel.log
  /\ pc \in {"stopLog", "finalJoin", "finalDisable", "withdraw", "exited"} =>
       power.pc \in {"none", "done"}
  /\ pc \in {"withdraw", "exited"} /\ kernel.log => "disable" \in failed

PublishInv ==
  /\ pc = "publish" => command \in kernel.accepted
  /\ PublishedIsAccepted

\* How far initialize_driver has come, and that a ready driver has no loader.
LoaderInv ==
  /\ loader \in [pc : {"ended", "open", "chip", "set", "cleanup", "init", "publish"},
                 chip : {"", "6755", "0326"}]
  /\ driver \in [set : {"", "6755", "0326"}, cleanup : {"", "6755", "0326"},
                 init : {"", "6755", "0326"}]
  /\ loader.pc # "ended" => ~driverReady
  /\ loader.pc \in {"set", "cleanup", "init", "publish"} =>
       loader.chip = chipProperty /\ supported_chip(chipProperty)
  /\ loader.pc \in {"cleanup", "init", "publish"} => driver.set = chipProperty
  /\ loader.pc \in {"init", "publish"} => driver.cleanup = "6755"
  /\ loader.pc = "publish" => driver.init = "6755"
  /\ ReadyIsDriven

IInv == TypeOK /\ CommandInv /\ LogInv /\ ExitInv /\ PublishInv /\ LoaderInv
-----------------------------------------------------------------------------
LEMMA NoTransaction == 0 \in 0 .. MAX_TX
  BY ConstantsAssumption

LEMMA PowerTyped == ASSUME TypeOK, [Next]_vars PROVE power' \in PowerTask
<1> USE NoTransaction DEF TypeOK, PowerTask
<1>1. CASE UNCHANGED power
  BY <1>1
<1>2. CASE power' = [power EXCEPT !.stopping = TRUE] \/ power' = [power EXCEPT !.pc = "head"]
  BY <1>2, Zenon
<1>3. CASE power_on
  <2>1. CASE PowerAsks
    <3>1. kernel.last + 1 \in 0 .. MAX_TX
      BY <2>1, ConstantsAssumption DEF PowerAsks, CanAsk, Broker
    <3> QED
      BY <2>1, <3>1 DEF PowerAsks
  <2>2. CASE PowerHead
    <3>1. AttemptsLeft => power.attempt + 1 \in 0 .. MAX_ATTEMPTS
      BY ConstantsAssumption DEF AttemptsLeft
    <3>2. CASE power' = PowerDone
      BY <3>2, Zenon DEF PowerDone
    <3>3. CASE AttemptsLeft /\ power' = [power EXCEPT !.pc = "ioctl", !.attempt = @ + 1]
      BY <3>1, <3>3, Zenon
    <3> QED
      BY <2>2, <3>2, <3>3 DEF PowerHead
  <2>3. CASE PowerReturns
    BY <2>3, ZenonT(30) DEF PowerReturns, PowerDone
  <2>4. CASE PowerCleanup
    BY <2>4, Zenon DEF PowerCleanup, PowerDone
  <2> QED
    BY <1>3, <2>1, <2>2, <2>3, <2>4, Zenon DEF power_on
<1> QED
  BY <1>1, <1>2, <1>3, Zenon
     DEF Next, main, vars, Startup, open_driver, check_chip, BindSession, Advertise, StartPower,
         Out, command_loop, LoopHead, ControlLog, ControlStop, ControlDump, ReadCommand, Reply,
         Publish, WayOut, set_firmware_log, KernelAsks, TransactionExpires, request_stop,
         SetProperty, LoaderStep

LEMMA LogTyped == ASSUME TypeOK, [Next]_vars PROVE log' \in LogTask
<1> USE DEF TypeOK, LogTask
<1>1. CASE UNCHANGED log
  BY <1>1
<1>2. \A l \in {"none", "head"}, b \in BOOLEAN :
        [pc |-> l, created |-> b, stopping |-> FALSE, finished |-> FALSE] \in LogTask
  OBVIOUS
<1>3. CASE log' = [log EXCEPT !.created = FALSE]
  BY <1>3, Zenon
<1>4. CASE log' = [log EXCEPT !.stopping = @ \/ log.created]
  <2>1. (log.stopping \/ log.created) \in BOOLEAN
    OBVIOUS
  <2> QED
    BY <1>4, <2>1
<1>5. CASE set_firmware_log
  BY <1>5, ZenonT(30) DEF set_firmware_log, LogHead, LogPass
<1> QED
  BY <1>1, <1>2, <1>3, <1>4, <1>5, Zenon
     DEF Next, main, vars, Startup, command_loop, LoopHead, ControlLog, JoinLog, FinalStop,
         ControlStop, ControlDump, ReadCommand, Reply, Publish, WayOut, Unbind, JoinPower,
         FinalDisable, Withdraw, power_on, KernelAsks, TransactionExpires, request_stop,
         SetProperty, LoaderStep

LEMMA BrokerTyped == ASSUME TypeOK, CommandInv, [Next]_vars PROVE kernel' \in Broker
<1> USE NoTransaction DEF TypeOK, Broker
<1>1. CASE UNCHANGED kernel
  BY <1>1
<1>2. CASE CanAsk /\ kernel' = Asked
  <2>1. kernel.last + 1 \in 0 .. MAX_TX
    BY <1>2, ConstantsAssumption DEF CanAsk
  <2> QED
    BY <1>2, <2>1, Zenon DEF Asked
<1>3. CASE kernel' = [kernel EXCEPT !.open = 0, !.unread = FALSE] \/ kernel' = Unbound
  BY <1>3, Zenon DEF Unbound
<1>4. CASE \/ kernel' = [kernel EXCEPT !.log = FALSE] \/ kernel' = [kernel EXCEPT !.log = TRUE]
           \/ kernel' = [kernel EXCEPT !.bound = TRUE]
           \/ kernel' = [kernel EXCEPT !.unread = FALSE]
  BY <1>4, Zenon
<1>5. CASE Reply
  <2>1. command \in 1 .. MAX_TX
    BY <1>5, ConstantsAssumption DEF Reply, CommandInv
  <2>2. kernel.accepted \cup {command} \in SUBSET (1 .. MAX_TX)
    BY <2>1
  <2>3. CASE kernel' = [kernel EXCEPT !.open = 0, !.accepted = @ \cup {command}]
    BY <2>2, <2>3, Zenon
  <2>4. CASE kernel' = [kernel EXCEPT !.open = 0]
    BY <2>4, SMTT(30)
  <2> QED
    BY <1>1, <1>5, <2>3, <2>4 DEF Reply
<1> QED
  BY <1>1, <1>2, <1>3, <1>4, <1>5, Zenon
     DEF Next, main, vars, TransactionExpires, set_firmware_log, LogHead, LogPass, BindSession,
         ReadCommand, Unbind, Startup, open_driver, check_chip, Advertise, StartPower,
         command_loop, LoopHead, ControlLog, ControlStop, DisableLog, ControlDump, Publish,
         WayOut, JoinPower, FinalStop, FinalDisable, Withdraw, power_on, PowerHead, PowerAsks,
         PowerReturns, PowerCleanup, KernelAsks, request_stop, SetProperty, LoaderStep

LEMMA ScalarsTyped ==
  ASSUME TypeOK, CommandInv, [Next]_vars
  PROVE  /\ pc' \in Labels /\ stop' \in BOOLEAN /\ advertised' \in BOOLEAN
         /\ command' \in 0 .. MAX_TX /\ published' \subseteq 1 .. MAX_TX
         /\ controls' \in LogValues /\ want' \in LogValues /\ fwlog' \in LogValues
         /\ newDump' \in BOOLEAN /\ failed' \subseteq {"unbind", "disable"}
<1> USE ConstantsAssumption
        DEF TypeOK, Next, main, vars, Startup, command_loop, WayOut, power_on,
            set_firmware_log, KernelAsks, TransactionExpires, request_stop, SetProperty,
            LoaderStep
<1>1. stop' \in BOOLEAN /\ fwlog' \in LogValues
  BY Zenon
<1>2. advertised' \in BOOLEAN
  BY Zenon DEF open_driver, check_chip, BindSession, Advertise, StartPower, Unbind, JoinPower,
         FinalStop, FinalDisable, Withdraw
<1>3. command' \in 0 .. MAX_TX
  BY Zenon DEF LoopHead, ControlLog, ControlStop, ControlDump, ReadCommand, Reply, Publish, Broker
<1>4. published' \subseteq 1 .. MAX_TX
  <2>1. CASE Publish
    <3>1. published' = published \cup {command} /\ command # 0
      BY <2>1, Zenon DEF Publish, CommandInv
    <3>2. published \subseteq 1 .. MAX_TX /\ command \in 0 .. MAX_TX /\ MAX_TX \in Nat
      BY Zenon
    <3> HIDE DEF TypeOK, Next
    <3> QED
      BY <3>1, <3>2, SMTT(30)
  <2> QED
    BY <2>1, ZenonT(30) DEF LoopHead, ControlLog, ControlStop, ControlDump, ReadCommand, Reply
<1>5. want' \in LogValues
  BY Zenon DEF LoopHead, ControlLog, ControlStop, ControlDump, ReadCommand, Reply, Publish
<1>6. controls' \in LogValues
  BY ZenonT(30) DEF LoopHead, ControlLog, ControlStop, DisableLog, ControlDump, ReadCommand, Reply,
         Publish, LogValues
<1>7. newDump' \in BOOLEAN
  BY Zenon DEF ControlDump
<1>8. failed' \subseteq {"unbind", "disable"}
  <2>1. failed' \in {failed, failed \cup {"unbind"}, failed \cup {"disable"}}
    BY ZenonT(30) DEF Unbind, JoinPower, FinalStop, FinalDisable, DisableLog, Withdraw
  <2> HIDE DEF Next
  <2> QED
    BY <2>1
<1>9. pc' \in Labels
  <2> USE DEF Labels
  <2>1. CASE Startup
    BY <2>1, Zenon DEF Startup, open_driver, check_chip, BindSession, Advertise, StartPower, Out
  <2>2. CASE command_loop
    BY <2>2, ZenonT(30)
       DEF command_loop, LoopHead, ControlLog, ControlStop, ControlDump, ReadCommand, Reply,
           Publish, Out, AfterHead, JoinLog, DisableLog, AfterReply
  <2>3. CASE WayOut
    BY <2>3, Zenon DEF WayOut, Unbind, JoinPower, FinalStop, FinalDisable, JoinLog, DisableLog, Withdraw
  <2>4. CASE UNCHANGED pc
    BY <2>4
  <2>5. Startup \/ command_loop \/ WayOut \/ UNCHANGED pc
    <3> HIDE DEF TypeOK, Labels, Startup, command_loop, WayOut
    <3> QED
      BY Zenon
  <2> HIDE DEF Next, Startup, command_loop, WayOut
  <2> QED
    BY <2>1, <2>2, <2>3, <2>4, <2>5, Zenon
<1> QED
  BY <1>1, <1>2, <1>3, <1>4, <1>5, <1>6, <1>7, <1>8, <1>9

LEMMA TypeStep == TypeOK /\ CommandInv /\ [Next]_vars => TypeOK'
  BY PowerTyped, LogTyped, BrokerTyped, ScalarsTyped DEF TypeOK


LEMMA AskKeeps ==
  ASSUME TypeOK, CommandInv, kernel' = Asked, UNCHANGED <<pc, command>>
  PROVE  CommandInv'
<1>1. kernel.last \in Nat /\ command \in Nat
  BY ConstantsAssumption DEF TypeOK, Broker
<1>2. kernel'.last = kernel.last + 1 /\ kernel'.open = kernel.last + 1
  BY SMTT(30) DEF Asked, TypeOK, Broker
<1> QED
  BY <1>1, <1>2 DEF CommandInv

LEMMA CommandStep == ASSUME TypeOK, CommandInv, [Next]_vars PROVE CommandInv'
<1>1. kernel.last \in Nat /\ kernel.open \in Nat /\ command \in Nat
  BY ConstantsAssumption DEF TypeOK, Broker
<1> USE DEF CommandInv, TypeOK, Broker
<1>2. CASE UNCHANGED <<pc, command, kernel>>
  BY <1>2
<1>3. CASE Startup
  BY <1>3 DEF Startup, open_driver, check_chip, BindSession, Advertise, StartPower, Out
<1>4. CASE LoopHead \/ ControlLog \/ ControlStop \/ ControlDump \/ Publish
  BY <1>4, Zenon DEF LoopHead, AfterHead, Out, ControlLog, ControlStop, JoinLog, DisableLog,
              ControlDump, Publish
<1>5. CASE ReadCommand
  BY <1>1, <1>5 DEF ReadCommand, Out
<1>6. CASE Reply
  <2>1. PICK outcome \in {"list", "status", "refused"} :
          /\ outcome # "refused" => kernel.open = command
          /\ \/ Out /\ UNCHANGED kernel
             \/ /\ pc' = AfterReply(outcome)
                /\ kernel' = CASE outcome = "list" ->
                                    [kernel EXCEPT !.open = 0, !.accepted = @ \cup {command}]
                               [] outcome = "status" -> [kernel EXCEPT !.open = 0]
                               [] outcome = "refused" -> kernel
    BY <1>6 DEF Reply
  <2>2. command # 0 /\ UNCHANGED command /\ (outcome # "refused" => ~kernel.unread)
    BY <1>6, <2>1 DEF Reply
  <2>3. pc' # "reply" /\ (kernel'.open = 0 \/ kernel'.open = kernel.open)
        /\ kernel'.last = kernel.last /\ kernel'.unread = kernel.unread
    BY <1>6, <2>1, Zenon DEF Out, AfterReply
  <2>4. kernel'.open = kernel.open \/ ~kernel.unread
    BY <2>1, <2>2
  <2> QED
    BY <1>1, <2>2, <2>3, <2>4
<1>7. CASE WayOut
  <2>1. /\ pc' \notin {"reply", "publish"} /\ UNCHANGED command
        /\ \/ kernel' = Unbound
           \/ UNCHANGED kernel
           \/ kernel' = [kernel EXCEPT !.log = FALSE]
    BY <1>7 DEF WayOut, Unbind, JoinPower, FinalStop, FinalDisable, JoinLog, DisableLog, Withdraw
  <2>2. CASE kernel' = Unbound
    <3>1. kernel'.open = 0 /\ kernel'.last = kernel.last /\ kernel'.unread = FALSE
      BY <2>2 DEF Unbound
    <3> QED
      BY <1>1, <2>1, <3>1
  <2> QED
    BY <2>1, <2>2
<1>8. CASE power_on
  BY <1>2, <1>8, AskKeeps DEF power_on, PowerHead, PowerAsks, PowerReturns, PowerCleanup
<1>9. CASE KernelAsks
  BY <1>9, AskKeeps DEF KernelAsks
<1>10. CASE TransactionExpires
  BY <1>1, <1>10 DEF TransactionExpires
<1>11. CASE set_firmware_log
  BY <1>11 DEF set_firmware_log, LogHead, LogPass
<1> QED
  BY <1>2, <1>3, <1>4, <1>5, <1>6, <1>7, <1>8, <1>9, <1>10, <1>11, Zenon
     DEF Next, main, vars, command_loop, request_stop, SetProperty, LoaderStep

LEMMA LogStep == ASSUME TypeOK, LogInv, ExitInv, [Next]_vars PROVE LogInv'
<1> USE DEF TypeOK, PowerTask, LogTask, Broker, LogInv, ExitInv
<1>1. CASE UNCHANGED vars \/ request_stop \/ SetProperty \/ LoaderStep
  BY <1>1 DEF vars, request_stop, SetProperty, LoaderStep
<1>2. CASE Startup
  BY <1>2 DEF Startup, open_driver, check_chip, BindSession, Advertise, StartPower, Out
<1>3. CASE command_loop
  <2>1. CASE LoopHead
    BY <1>3, <2>1 DEF command_loop, LoopHead, AfterHead, Out
  <2>2. CASE ControlLog
    BY <1>3, <2>2 DEF command_loop, ControlLog
  <2>3. CASE ControlStop
    BY <1>3, <2>3 DEF command_loop, ControlStop, JoinLog, DisableLog, Joinable
  <2>4. CASE ControlDump \/ Publish
    BY <1>3, <2>4, Zenon DEF command_loop, ControlDump, Publish
  <2>5. CASE ReadCommand
    BY <1>3, <2>5 DEF command_loop, ReadCommand, Out
  <2>6. CASE Reply
    BY <1>3, <2>6, Zenon DEF command_loop, Reply, AfterReply, Out
  <2> QED
    BY <1>3, <2>1, <2>2, <2>3, <2>4, <2>5, <2>6 DEF command_loop
<1>4. CASE WayOut
  BY <1>4, ZenonT(30) DEF WayOut, Unbind, Unbound, JoinPower, FinalStop, NeedsDisable, FinalDisable,
              JoinLog, Joinable, DisableLog, Withdraw
<1>5. CASE power_on
  BY <1>5, Zenon DEF power_on, PowerHead, PowerAsks, PowerReturns, PowerCleanup, PowerDone, Asked
<1>6. CASE set_firmware_log
  BY <1>6, ZenonT(30) DEF set_firmware_log, LogHead, LogPass
<1>7. CASE KernelAsks \/ TransactionExpires
  BY <1>7, Zenon DEF KernelAsks, TransactionExpires, Asked
<1> QED
  BY <1>1, <1>2, <1>3, <1>4, <1>5, <1>6, <1>7, SMTT(30) DEF Next, main

LEMMA ExitStep == ASSUME TypeOK, LogInv, ExitInv, [Next]_vars PROVE ExitInv'
<1> USE DEF TypeOK, PowerTask, LogTask, Broker, LogInv, ExitInv
<1>1. CASE UNCHANGED vars \/ request_stop \/ SetProperty \/ LoaderStep
  BY <1>1 DEF vars, request_stop, SetProperty, LoaderStep
<1>2. CASE Startup
  BY <1>2 DEF Startup, open_driver, check_chip, BindSession, Advertise, StartPower, Out
<1>3. CASE command_loop
  <2>1. CASE LoopHead
    BY <1>3, <2>1 DEF command_loop, LoopHead, AfterHead, Out
  <2>2. CASE ControlLog
    BY <1>3, <2>2 DEF command_loop, ControlLog
  <2>3. CASE ControlStop
    BY <1>3, <2>3 DEF command_loop, ControlStop, JoinLog, DisableLog, Joinable
  <2>4. CASE ControlDump \/ Publish
    BY <1>3, <2>4, Zenon DEF command_loop, ControlDump, Publish
  <2>5. CASE ReadCommand
    BY <1>3, <2>5 DEF command_loop, ReadCommand, Out
  <2>6. CASE Reply
    BY <1>3, <2>6 DEF command_loop, Reply, AfterReply, Out
  <2> QED
    BY <1>3, <2>1, <2>2, <2>3, <2>4, <2>5, <2>6 DEF command_loop
<1>4. CASE WayOut
  BY <1>4 DEF WayOut, Unbind, Unbound, JoinPower, FinalStop, NeedsDisable, FinalDisable,
              JoinLog, Joinable, DisableLog, Withdraw
<1>5. CASE power_on
  BY <1>5 DEF power_on, PowerHead, PowerAsks, PowerReturns, PowerCleanup, PowerDone, Asked
<1>6. CASE set_firmware_log
  BY <1>6 DEF set_firmware_log, LogHead, LogPass
<1>7. CASE KernelAsks \/ TransactionExpires
  BY <1>7, Zenon DEF KernelAsks, TransactionExpires, Asked
<1> QED
  BY <1>1, <1>2, <1>3, <1>4, <1>5, <1>6, <1>7, SMTT(30) DEF Next, main

LEMMA PublishStep == ASSUME TypeOK, PublishInv, [Next]_vars PROVE PublishInv'
<1> USE DEF TypeOK, Broker, PublishInv, PublishedIsAccepted
<1>1. CASE UNCHANGED vars \/ request_stop \/ SetProperty \/ LoaderStep
  BY <1>1, Zenon DEF vars, request_stop, SetProperty, LoaderStep
<1>2. CASE Startup
  BY <1>2 DEF Startup, open_driver, check_chip, BindSession, Advertise, StartPower, Out
<1>3. CASE command_loop
  <2>1. CASE LoopHead
    BY <1>3, <2>1 DEF command_loop, LoopHead, AfterHead, Out
  <2>2. CASE ControlLog
    BY <1>3, <2>2 DEF command_loop, ControlLog
  <2>3. CASE ControlStop
    BY <1>3, <2>3 DEF command_loop, ControlStop, JoinLog, DisableLog, Joinable
  <2>4. CASE ControlDump \/ Publish
    BY <1>3, <2>4, Zenon DEF command_loop, ControlDump, Publish
  <2>5. CASE ReadCommand
    BY <1>3, <2>5 DEF command_loop, ReadCommand, Out
  <2>6. CASE Reply
    BY <1>3, <2>6, ZenonT(30) DEF command_loop, Reply, AfterReply, Out
  <2> QED
    BY <1>3, <2>1, <2>2, <2>3, <2>4, <2>5, <2>6 DEF command_loop
<1>4. CASE WayOut
  BY <1>4, Zenon DEF WayOut, Unbind, Unbound, JoinPower, FinalStop, NeedsDisable, FinalDisable,
              JoinLog, Joinable, DisableLog, Withdraw
<1>5. CASE power_on
  BY <1>5, Zenon DEF power_on, PowerHead, PowerAsks, PowerReturns, PowerCleanup, PowerDone, Asked
<1>6. CASE set_firmware_log
  BY <1>6 DEF set_firmware_log, LogHead, LogPass
<1>7. CASE KernelAsks \/ TransactionExpires
  BY <1>7, Zenon DEF KernelAsks, TransactionExpires, Asked
<1> QED
  BY <1>1, <1>2, <1>3, <1>4, <1>5, <1>6, <1>7 DEF Next, main

\* The way through initialize_driver.
LEMMA LoaderAdvances == ASSUME LoaderInv, initialize_driver, UNCHANGED pc PROVE LoaderInv'
<1> USE DEF LoaderInv, ReadyIsDriven, supported_chip
<1>1. CASE EndLoader /\ UNCHANGED <<chipProperty, driverReady, driver>>
  BY <1>1, Zenon DEF EndLoader, At
<1>2. ASSUME loader.pc = "set", driver' = [driver EXCEPT !.set = loader.chip],
             At("cleanup", loader.chip), UNCHANGED <<chipProperty, driverReady>>
      PROVE  LoaderInv'
  BY <1>2, Zenon DEF At
<1>3. ASSUME loader.pc = "cleanup", driver' = [driver EXCEPT !.cleanup = "6755"],
             At("init", loader.chip), UNCHANGED <<chipProperty, driverReady>>
      PROVE  LoaderInv'
  BY <1>3, Zenon DEF At
<1>4. ASSUME loader.pc = "init", driver' = [driver EXCEPT !.init = "6755"],
             At("publish", loader.chip), UNCHANGED <<chipProperty, driverReady>>
      PROVE  LoaderInv'
  BY <1>4, Zenon DEF At
<1>5. /\ loader.pc = "set" => Argument(loader.pc) = loader.chip
      /\ loader.pc \in {"cleanup", "init"} => Argument(loader.pc) = "6755"
  BY Zenon DEF Argument
<1> QED
  BY <1>1, <1>2, <1>3, <1>4, <1>5, Zenon DEF initialize_driver, After, AfterFailure, EndLoader

LEMMA LoaderKeeps == ASSUME LoaderInv, [Next]_vars PROVE LoaderInv'
<1>1. CASE UNCHANGED loaderVars /\ ~open_driver
  <2>1. pc' \notin {"open", "exited"} => pc \notin {"open", "exited"}
    BY <1>1, Zenon DEF Next, main, vars, Startup, check_chip, BindSession, Advertise, StartPower,
                command_loop, LoopHead, ControlLog, ControlStop, JoinLog, DisableLog,
                ControlDump, ReadCommand, Reply, Publish, WayOut, Unbind, JoinPower, FinalStop,
                FinalDisable, Withdraw, power_on, set_firmware_log, KernelAsks,
                TransactionExpires, request_stop, SetProperty, LoaderStep
  <2> QED
    BY <1>1, <2>1, ZenonT(30) DEF LoaderInv, ReadyIsDriven, loaderVars, supported_chip
<1>2. CASE UNCHANGED loaderVars /\ open_driver
  BY <1>2, ZenonT(30) DEF open_driver, LoaderInv, ReadyIsDriven, loaderVars, supported_chip
<1>3. CASE LoaderStep
  <2>1. CASE initialize_driver
    BY <1>3, <2>1, LoaderAdvances DEF LoaderStep
  <2> USE DEF LoaderInv, ReadyIsDriven, supported_chip, At
  <2>2. CASE IdentifyChip
    <3>1. UNCHANGED <<pc, driverReady, driver>> /\ ~driverReady
      BY <1>3, <2>2, Zenon DEF LoaderStep, IdentifyChip
    <3>2. CASE EndLoader /\ UNCHANGED chipProperty
      BY <3>1, <3>2, Zenon DEF EndLoader
    <3>3. ASSUME NEW c, c \in {"6755", "0326"}, At("set", c), chipProperty' = c
          PROVE  LoaderInv'
      BY <3>1, <3>3, Zenon
    <3> QED
      BY <2>2, <3>2, <3>3, Zenon DEF IdentifyChip, cached_chip_id
  <2>3. CASE LoaderStarts
    BY <1>3, <2>3, Zenon DEF LoaderStep, LoaderStarts
  <2>4. CASE open_detector
    <3>1. UNCHANGED <<pc, chipProperty, driverReady, driver>> /\ ~driverReady
      BY <1>3, <2>4, Zenon DEF LoaderStep, open_detector
    <3>2. CASE At("chip", "")
      BY <3>1, <3>2, Zenon
    <3>3. CASE EndLoader
      BY <3>1, <3>3, Zenon DEF EndLoader
    <3> QED
      BY <2>4, <3>2, <3>3, Zenon DEF open_detector
  <2>6. CASE LoaderKilled
    BY <1>3, <2>6, Zenon DEF LoaderStep, LoaderKilled, EndLoader
  <2>5. CASE PublishReady
    BY <1>3, <2>5, Zenon DEF LoaderStep, PublishReady, EndLoader
  <2> QED
    BY <1>3, <2>1, <2>2, <2>3, <2>4, <2>5, <2>6, Zenon DEF LoaderStep, Loader
<1> QED
  BY <1>1, <1>2, <1>3
     DEF Next, main, vars, Startup, command_loop, WayOut, power_on, set_firmware_log,
         KernelAsks, TransactionExpires, request_stop, SetProperty
-----------------------------------------------------------------------------
LEMMA InitHolds == Init => IInv
<1> SUFFICES ASSUME Init PROVE IInv
  OBVIOUS
<1>1. 0 \in 0 .. MAX_ATTEMPTS /\ 0 \in 0 .. MAX_TX /\ 0 <= 0
  BY ConstantsAssumption
<1> USE DEF Init
<1>2. power \in PowerTask
  BY <1>1, Zenon DEF PowerTask
<1>3. log \in LogTask
  BY Zenon DEF LogTask
<1>4. kernel \in Broker
  BY <1>1, Zenon DEF Broker
<1>5. TypeOK
  BY <1>1, <1>2, <1>3, <1>4, Zenon DEF TypeOK, Labels, LogValues
<1>6. CommandInv /\ LogInv /\ ExitInv
  BY <1>1, Zenon DEF CommandInv, LogInv, ExitInv
<1>7. PublishInv
  BY Zenon DEF PublishInv, PublishedIsAccepted
<1>8. LoaderInv
  BY Zenon DEF LoaderInit, LoaderInv, ReadyIsDriven
<1> QED
  BY <1>5, <1>6, <1>7, <1>8, Zenon DEF IInv

LEMMA StepHolds == IInv /\ [Next]_vars => IInv'
  BY TypeStep, CommandStep, LogStep, ExitStep, PublishStep, LoaderKeeps DEF IInv

LEMMA Inductive == Spec => []IInv
  BY InitHolds, StepHolds, PTL DEF Spec

\* The types of the launcher's state, with the bounds on its counters.
THEOREM LauncherTyped == Spec => []TypeOK
<1>1. IInv => TypeOK
  BY DEF IInv
<1> QED
  BY <1>1, Inductive, PTL

\* Whatever the log worker and the properties do, the firmware log is on only
\* while main has it on record: check_optional_controls and stop_firmware_log
\* join the worker before they disable, and forget it only after.
THEOREM LogAlwaysKnown == Spec => []LogIsKnown
<1>1. IInv => LogIsKnown
  BY DEF IInv, LogInv, LogIsKnown
<1> QED
  BY <1>1, Inductive, PTL

\* Every way out of main joins the workers it started, and leaves the firmware
\* log off unless the ioctl that disables it failed.
THEOREM ExitAlwaysQuiet == Spec => []ExitedIsQuiet
<1>1. IInv => ExitedIsQuiet
  BY DEF IInv, TypeOK, LogTask, LogInv, ExitInv, ExitedIsQuiet
<1> QED
  BY <1>1, Inductive, PTL

\* handle_command publishes a version only after the broker took its list.
THEOREM OnlyAcceptedPublished == Spec => []PublishedIsAccepted
<1>1. IInv => PublishedIsAccepted
  BY DEF IInv, PublishInv
<1> QED
  BY <1>1, Inductive, PTL

\* Readiness means a supported chip on record and a driver set up for it by the
\* three requests in turn, however often the loader failed or was killed.
THEOREM ReadyAlwaysDriven == Spec => []ReadyIsDriven
<1>1. IInv => ReadyIsDriven
  BY Zenon DEF IInv, LoaderInv
<1> QED
  BY <1>1, Inductive, PTL
-----------------------------------------------------------------------------
(***************************************************************************)
(* One command: what the invariant of the handler says                     *)
(***************************************************************************)
\* The entries read so far that have a header.
Taken == {n \in DOMAIN dir \ unread : dir[n].kind = "header"}

Files(which) == Useless \cup (IF which = "patch" THEN Patches ELSE Roms)

DirInv ==
  /\ search \in {"none", "patch", "rom"}
  /\ search = "none" => NotSearched
  /\ search # "none" =>
       /\ DOMAIN dir \subseteq NAMES /\ dir \in [DOMAIN dir -> Files(search)]
       /\ unread \subseteq DOMAIN dir

\* While there is no error, what has been gathered is what the entries read
\* say, and none of them is at odds with another.
SeenInv ==
  /\ \A n \in DOMAIN dir \ unread : dir[n].kind # "unreadable"
  /\ seen = [i \in {dir[n].index : n \in Taken} |-> seen[i]]
  /\ \A n \in Taken : seen[dir[n].index] = n
PatchInv ==
  /\ count # 0 => Taken # {}
  /\ \A n \in Taken : PatchValid(dir[n]) /\ dir[n].count = count
RomInv ==
  \A n \in Taken : dir[n].count # 0 /\ dir[n].index < WMT_ROM_TYPES /\ dir[n].version # "bad"
VersionInv ==
  /\ version \in [Roles -> VERSIONS \cup {"none"}]
  /\ \A n \in Taken : dir[n].version \in VERSIONS => version[dir[n].role] = dir[n].version
  /\ \A r \in Roles : version[r] # "none" =>
       \E n \in Taken : dir[n].role = r /\ dir[n].version = version[r]
GatherInv ==
  SeenInv /\ VersionInv /\ (IF search = "patch" THEN PatchInv ELSE RomInv)

\* How a search ends.
EndInv ==
  /\ ~done => error = "ok" /\ output = Untouched
  /\ done /\ error = "ok" => Good /\ output = Reference
  /\ error # "ok" => output = Untouched /\ (Good => error = "EIO")

SearchInv == DirInv /\ (search # "none" /\ error = "ok" => GatherInv) /\ EndInv

\* Where the handler is.
PhaseInv ==
  /\ frame \in Frames /\ phase \in {"decode", "chip", "search", "reply", "end"}
  /\ phase \in {"decode", "chip"} => search = "none" /\ result = "ok"
  /\ phase = "search" => search # "none" /\ ~done /\ result = "ok"
  /\ phase = "reply" => IF search = "none" THEN result # "ok" ELSE done /\ result = error
  /\ phase # "end" => reply = NoReply /\ properties = {}
  /\ phase \in {"chip", "search", "reply"} =>
       /\ decoded = [session |-> Session, transaction |-> frame.transaction, text |-> frame.text]
       /\ frame.transaction # 0
  /\ search # "none" => frame.text = IF search = "patch" THEN "srh_patch" ELSE "srh_rom_patch"

HandlerInv == SearchInv /\ PhaseInv /\ GoodNeverRefused /\ AnswerMatches
-----------------------------------------------------------------------------
(***************************************************************************)
(* What the checks of a file say                                           *)
(***************************************************************************)
LEMMA FileFacts ==
  ASSUME NEW w \in {"patch", "rom"}, NEW f \in Files(w)
  PROVE  /\ f.kind \in {"unreadable", "other", "header"}
         /\ f.kind = "header" =>
              /\ f.index \in Nat /\ f.count \in Nat
              /\ f.version \in VERSIONS => f.role \in Roles
              /\ w = "patch" => f.version \notin VERSIONS
<1>1. CASE f \in Useless
  BY <1>1 DEF Useless
<1>2. CASE w = "patch" /\ f \in Patches
  BY <1>2, FirmwareAssumption DEF Patches
<1>3. CASE w = "rom" /\ f \in Roms
  <2>1. PICK r \in Roles \cup {"none"} :
          f \in [kind : {"header"}, count : 0 .. 1, index : 0 .. WMT_ROM_TYPES,
                 role : {r}, version : RomVersion(r)]
    BY <1>3, Zenon DEF Roms
  <2>2. r = "none" => f.version = "none"
    BY <2>1 DEF RomVersion
  <2>3. f.index \in Nat /\ f.count \in Nat /\ f.kind = "header" /\ f.role = r
    BY <2>1, FirmwareAssumption
  <2> QED
    BY <1>3, <2>2, <2>3, FirmwareAssumption
<1> QED
  BY <1>1, <1>2, <1>3 DEF Files

LEMMA PatchErrorFacts ==
  ASSUME NEW f
  PROVE  PatchError(f) = "ok" <=> /\ PatchValid(f) /\ count \in {0, f.count}
                                /\ f.index \notin DOMAIN seen
  BY DEF PatchError

LEMMA RomErrorFacts ==
  ASSUME NEW f
  PROVE  RomError(f) = "ok" <=>
           /\ f.count # 0 /\ ~(f.index >= WMT_ROM_TYPES) /\ f.index \notin DOMAIN seen
           /\ f.version # "bad"
           /\ f.version \in VERSIONS => version[f.role] \in {"none", f.version}
  BY DEF RomError

LEMMA FileErrorFacts ==
  ASSUME search \in {"patch", "rom"}, NEW f, f.kind \in {"unreadable", "other", "header"}
  PROVE  /\ f.kind = "unreadable" => FileError(f) # "ok"
         /\ f.kind = "other" => FileError(f) = "ok"
         /\ f.kind = "header" =>
              FileError(f) = (IF search = "patch" THEN PatchError(f) ELSE RomError(f))
  BY DEF FileError

\* A set with at most one element, counted.
LEMMA AtMostOne ==
  ASSUME NEW S, IsFiniteSet(S)
  PROVE  Cardinality(S) <= 1 <=> \A x, y \in S : x = y
<1>1. Cardinality(S) \in Nat
  BY FS_CardinalityType
<1>2. ASSUME Cardinality(S) <= 1 PROVE \A x, y \in S : x = y
  <2>1. Cardinality(S) = 0 \/ Cardinality(S) = 1
    BY <1>1, <1>2
  <2>2. S = {} \/ \E x : S = {x}
    BY <2>1, FS_EmptySet, FS_Singleton, Zenon
  <2> QED
    BY <2>2, Zenon
<1>3. ASSUME \A x, y \in S : x = y PROVE Cardinality(S) <= 1
  <2>1. CASE S = {}
    BY <2>1, FS_EmptySet
  <2>2. CASE S # {}
    <3>1. PICK x \in S : TRUE
      BY <2>2
    <3>2. S = {x}
      BY <1>3, <3>1, Zenon
    <3> QED
      BY <3>2, FS_Singleton
  <2> QED
    BY <2>1, <2>2
<1> QED
  BY <1>2, <1>3

LEMMA MatchingFinite ==
  ASSUME DirInv, search # "none"
  PROVE  IsFiniteSet(Matching)
<1>1. Matching \in SUBSET NAMES
  BY DEF DirInv, Matching
<1> QED
  BY <1>1, FirmwareAssumption, FS_Subset

LEMMA VersionsFinite ==
  ASSUME DirInv, search # "none", NEW r
  PROVE  IsFiniteSet(Versions(r))
<1> DEFINE M == {m \in Matching : dir[m].role = r}
           W == {dir[n].version : n \in M}
           g == [n \in M |-> dir[n].version]
<1>1. IsFiniteSet(M)
  BY MatchingFinite, FS_Subset
<1>2. g \in Surjection(M, W)
  BY DEF Surjection
<1>3. IsFiniteSet(W)
  BY <1>1, <1>2, FS_Surjection
<1>4. Versions(r) \in SUBSET W
  BY DEF Versions
<1> QED
  BY <1>3, <1>4, FS_Subset
-----------------------------------------------------------------------------
(***************************************************************************)
(* The search: an entry with an error is in no good directory, and what    *)
(* has been gathered at the end is the reference.                          *)
(***************************************************************************)
LEMMA EntryFacts ==
  ASSUME DirInv, search # "none"
  PROVE  /\ search \in {"patch", "rom"}
         /\ \A n \in DOMAIN dir : dir[n] \in Files(search)
         /\ \A n \in DOMAIN dir : dir[n].kind \in {"unreadable", "other", "header"}
         /\ \A n \in Matching :
              /\ dir[n].index \in Nat /\ dir[n].count \in Nat
              /\ dir[n].version \in VERSIONS => dir[n].role \in Roles
              /\ search = "patch" => dir[n].version \notin VERSIONS
         /\ Taken \subseteq Matching /\ Matching \subseteq DOMAIN dir
<1>1. search \in {"patch", "rom"} /\ \A n \in DOMAIN dir : dir[n] \in Files(search)
  BY DEF DirInv
<1>2. Taken \subseteq Matching /\ Matching \subseteq DOMAIN dir
  BY DEF Taken, Matching
<1>3. \A n \in Matching : n \in DOMAIN dir /\ dir[n].kind = "header"
  BY DEF Matching
<1> QED
  BY <1>1, <1>2, <1>3, FileFacts

LEMMA ErrorIsNotGood ==
  ASSUME DirInv, search # "none", GatherInv, NEW name \in unread, FileError(dir[name]) # "ok"
  PROVE  ~Good
<1> DEFINE f == dir[name]
<1>1. name \in DOMAIN dir /\ name \notin Taken
  BY DEF DirInv, Taken
<1>2. CASE f.kind = "unreadable"
  BY <1>1, <1>2 DEF Good, GoodPatches, GoodRom, NoUnreadable
<1>3. CASE f.kind = "header"
  <2>1. name \in Matching /\ f.index \in Nat /\ f.count \in Nat
    BY <1>1, <1>3, EntryFacts DEF Matching
  <2>2. DOMAIN seen = {dir[n].index : n \in Taken}
    BY DEF GatherInv, SeenInv
  <2>3. f.index \in DOMAIN seen => ~OneEach
    <3>1. SUFFICES ASSUME f.index \in DOMAIN seen PROVE ~OneEach
      OBVIOUS
    <3>2. PICK n \in Taken : dir[n].index = f.index
      BY <2>2, <3>1
    <3>3. n \in Matching /\ n # name
      BY <1>1, <3>2, EntryFacts
    <3> QED
      BY <2>1, <3>2, <3>3 DEF OneEach
  <2>4. CASE search = "patch"
    <3>1. ~(PatchValid(f) /\ count \in {0, f.count} /\ f.index \notin DOMAIN seen)
      BY <1>3, <2>4, FileErrorFacts, PatchErrorFacts
    <3>2. SUFFICES ASSUME GoodPatches PROVE FALSE
      BY <2>4 DEF Good
    <3>3. PICK total \in 1 .. WMT_MAX_PATCHES :
            /\ \A n \in Matching : dir[n].count = total
            /\ {dir[n].index : n \in Matching} = 1 .. total
      BY <3>2 DEF GoodPatches
    <3>4. f.count = total /\ f.index \in 1 .. total
      BY <2>1, <3>3
    <3>5. PatchValid(f)
      BY <3>3, <3>4 DEF PatchValid
    <3>6. count \in {0, f.count}
      <4>1. \A n \in Taken : dir[n].count = count
        BY <2>4 DEF GatherInv, PatchInv
      <4>2. count # 0 => Taken # {}
        BY <2>4 DEF GatherInv, PatchInv
      <4>3. \A n \in Taken : dir[n].count = total
        BY <3>3, EntryFacts
      <4> QED
        BY <3>4, <4>1, <4>2, <4>3
    <3> QED
      BY <2>3, <3>1, <3>2, <3>5, <3>6 DEF GoodPatches
  <2>5. CASE search = "rom"
    <3>1. ~(/\ f.count # 0 /\ ~(f.index >= WMT_ROM_TYPES) /\ f.index \notin DOMAIN seen
            /\ f.version # "bad"
            /\ f.version \in VERSIONS => version[f.role] \in {"none", f.version})
      BY <1>3, <2>5, FileErrorFacts, RomErrorFacts
    <3>2. SUFFICES ASSUME GoodRom PROVE FALSE
      BY <2>5 DEF Good
    <3>3. f.count # 0 /\ ~(f.index >= WMT_ROM_TYPES) /\ f.version # "bad"
      <4>1. f.count # 0 /\ f.index < WMT_ROM_TYPES /\ f.version # "bad"
        BY <2>1, <3>2 DEF GoodRom
      <4> QED
        BY <2>1, <4>1, FirmwareAssumption
    <3>4. ASSUME f.version \in VERSIONS PROVE version[f.role] \in {"none", f.version}
      <4>1. f.role \in Roles
        BY <2>1, <3>4, EntryFacts
      <4>2. SUFFICES ASSUME version[f.role] # "none" PROVE version[f.role] = f.version
        OBVIOUS
      <4>3. PICK n \in Taken : dir[n].role = f.role /\ dir[n].version = version[f.role]
        BY <4>1, <4>2 DEF GatherInv, VersionInv
      <4>4. version[f.role] \in VERSIONS
        BY <4>1, <4>2 DEF GatherInv, VersionInv
      <4>5. f.version \in Versions(f.role) /\ version[f.role] \in Versions(f.role)
        BY <2>1, <3>4, <4>3, <4>4, EntryFacts, Zenon DEF Versions
      <4>6. Cardinality(Versions(f.role)) <= 1
        BY <3>2, <4>1 DEF GoodRom
      <4> QED
        BY <4>5, <4>6, VersionsFinite, AtMostOne
    <3> QED
      BY <2>3, <3>1, <3>2, <3>3, <3>4 DEF GoodRom
  <2> QED
    BY <2>4, <2>5, EntryFacts
<1> QED
  BY <1>1, <1>2, <1>3, EntryFacts, FileErrorFacts

\* At the end of the directory everything has been read.
LEMMA AllTaken ==
  ASSUME DirInv, search # "none", GatherInv, unread = {}
  PROVE  /\ Taken = Matching /\ NoUnreadable /\ OneEach
         /\ DOMAIN seen = {dir[n].index : n \in Matching}
         /\ \A n \in Matching : seen[dir[n].index] = n
<1>1. Taken = Matching
  BY DEF Taken, Matching
<1>2. NoUnreadable
  BY DEF GatherInv, SeenInv, NoUnreadable
<1>3. /\ DOMAIN seen = {dir[n].index : n \in Matching}
      /\ \A n \in Matching : seen[dir[n].index] = n
  BY <1>1 DEF GatherInv, SeenInv
<1>4. OneEach
  BY <1>3 DEF OneEach
<1> QED
  BY <1>1, <1>2, <1>3, <1>4

LEMMA IncompleteIsNotGood ==
  ASSUME DirInv, search = "patch", GatherInv, unread = {}, CompleteError # "ok"
  PROVE  ~Good
<1>1. count = 0 \/ DOMAIN seen # 1 .. count
  BY DEF CompleteError
<1>2. SUFFICES ASSUME GoodPatches PROVE FALSE
  BY DEF Good
<1>3. PICK total \in 1 .. WMT_MAX_PATCHES :
        /\ \A n \in Matching : dir[n].count = total
        /\ {dir[n].index : n \in Matching} = 1 .. total
  BY <1>2 DEF GoodPatches
<1>4. 1 \in 1 .. total /\ total # 0
  BY <1>3, FirmwareAssumption
<1>5. PICK n \in Matching : dir[n].index = 1
  BY <1>3, <1>4
<1>6. dir[n].count = count
  BY <1>5, AllTaken DEF GatherInv, PatchInv
<1> QED
  BY <1>1, <1>3, <1>4, <1>5, <1>6, AllTaken

LEMMA CompleteIsGood ==
  ASSUME DirInv, search # "none", GatherInv, unread = {}, search = "patch" => CompleteError = "ok"
  PROVE  Good
<1>1. Taken = Matching /\ NoUnreadable /\ OneEach
  BY AllTaken
<1>2. CASE search = "patch"
  <2>1. count # 0 /\ DOMAIN seen = 1 .. count
    BY <1>2 DEF CompleteError
  <2>2. \A n \in Matching : PatchValid(dir[n]) /\ dir[n].count = count
    BY <1>1, <1>2 DEF GatherInv, PatchInv
  <2>3. Matching # {}
    BY <1>1, <1>2, <2>1 DEF GatherInv, PatchInv
  <2>4. count \in 1 .. WMT_MAX_PATCHES
    BY <2>2, <2>3 DEF PatchValid
  <2>5. {dir[n].index : n \in Matching} = 1 .. count
    BY <2>1, AllTaken
  <2>6. GoodPatches
    BY <1>1, <2>2, <2>4, <2>5, SMTT(30) DEF GoodPatches
  <2> QED
    BY <1>2, <2>6 DEF Good
<1>3. CASE search = "rom"
  <2>1. \A n \in Matching : /\ dir[n].count # 0 /\ dir[n].index < WMT_ROM_TYPES
                            /\ dir[n].version # "bad"
    BY <1>1, <1>3 DEF GatherInv, RomInv
  <2>2. ASSUME NEW r \in Roles PROVE Cardinality(Versions(r)) <= 1
    <3>1. \A v \in Versions(r) : v = version[r]
      BY <1>1 DEF Versions, GatherInv, VersionInv
    <3> QED
      BY <3>1, VersionsFinite, AtMostOne
  <2> QED
    BY <1>1, <1>3, <2>1, <2>2 DEF Good, GoodRom
<1> QED
  BY <1>2, <1>3, EntryFacts

LEMMA GatheredIsReference ==
  ASSUME DirInv, search # "none", GatherInv, unread = {}
  PROVE  [records |-> seen, version |-> version] = Reference
<1> DEFINE I == {dir[n].index : n \in Matching}
           Chosen(i) == CHOOSE n \in Matching : dir[n].index = i
<1>1. seen = [i \in I |-> Chosen(i)]
  <2>1. seen = [i \in I |-> seen[i]]
    BY AllTaken DEF GatherInv, SeenInv
  <2>2. ASSUME NEW i \in I
        PROVE  seen[i] = Chosen(i)
    <3>1. \E n \in Matching : dir[n].index = i
      OBVIOUS
    <3>2. \A n \in Matching : dir[n].index = i => n = seen[i]
      BY AllTaken
    <3> QED
      BY <3>1, <3>2
  <2> HIDE DEF I, Chosen
  <2> QED
    BY <2>1, <2>2
<1>2. version = [r \in Roles |-> IF Versions(r) = {} THEN "none"
                                 ELSE CHOOSE v \in Versions(r) : TRUE]
  <2>1. version = [r \in Roles |-> version[r]]
    BY DEF GatherInv, VersionInv
  <2>2. ASSUME NEW r \in Roles
        PROVE  version[r] = IF Versions(r) = {} THEN "none"
                            ELSE CHOOSE v \in Versions(r) : TRUE
    <3>1. \A v \in Versions(r) : v = version[r]
      BY AllTaken DEF Versions, GatherInv, VersionInv
    <3>2. version[r] # "none" => version[r] \in Versions(r)
      <4>1. SUFFICES ASSUME version[r] # "none" PROVE version[r] \in Versions(r)
        OBVIOUS
      <4>2. version[r] \in VERSIONS
        BY <4>1 DEF GatherInv, VersionInv
      <4>3. PICK n \in Matching : dir[n].role = r /\ dir[n].version = version[r]
        BY <4>1, AllTaken DEF GatherInv, VersionInv
      <4> QED
        BY <4>2, <4>3 DEF Versions
    <3> QED
      BY <3>1, <3>2
  <2> QED
    BY <2>1, <2>2
<1> QED
  BY <1>1, <1>2 DEF Reference

LEMMA SkipKeeps ==
  ASSUME DirInv, search # "none", GatherInv, NEW name \in unread, UNCHANGED <<search, dir>>,
         unread' = unread \ {name}, dir[name].kind = "other", UNCHANGED <<count, seen, version>>
  PROVE  GatherInv'
<1>1. Taken' = Taken
  BY DEF Taken, DirInv
<1>2. \A n \in DOMAIN dir' \ unread' : dir'[n].kind # "unreadable"
  BY DEF GatherInv, SeenInv
<1>3. SeenInv'
  BY <1>1, <1>2 DEF GatherInv, SeenInv
<1>4. VersionInv'
  BY <1>1 DEF GatherInv, VersionInv
<1>5. IF search' = "patch" THEN PatchInv' ELSE RomInv'
  BY <1>1 DEF GatherInv, PatchInv, RomInv, PatchValid
<1> QED
  BY <1>3, <1>4, <1>5 DEF GatherInv

LEMMA TakeKeeps ==
  ASSUME DirInv, search # "none", GatherInv, NEW name \in unread, UNCHANGED <<search, dir>>,
         unread' = unread \ {name}, dir[name].kind = "header", FileError(dir[name]) = "ok",
         Take(name, dir[name])
  PROVE  GatherInv'
<1> DEFINE f == dir[name]
<1>1. name \in Matching /\ name \in DOMAIN dir /\ name \notin Taken /\ Taken' = Taken \cup {name}
  BY DEF DirInv, Taken, Matching
<1>2. /\ f.index \in Nat /\ f.count \in Nat /\ search \in {"patch", "rom"}
      /\ f.version \in VERSIONS => f.role \in Roles
      /\ search = "patch" => f.version \notin VERSIONS
  BY <1>1, EntryFacts
<1>3. search = "patch" => PatchValid(f) /\ count \in {0, f.count} /\ f.index \notin DOMAIN seen
  BY <1>2, FileErrorFacts, PatchErrorFacts, SMTT(30)
<1>4. search = "rom" =>
        /\ f.count # 0 /\ ~(f.index >= WMT_ROM_TYPES) /\ f.index \notin DOMAIN seen
        /\ f.version # "bad"
        /\ f.version \in VERSIONS => version[f.role] \in {"none", f.version}
  BY <1>2, FileErrorFacts, RomErrorFacts, SMTT(30)
<1>5. DOMAIN seen = {dir[n].index : n \in Taken} /\ f.index \notin DOMAIN seen
  BY <1>2, <1>3, <1>4 DEF GatherInv, SeenInv
<1>6. SeenInv'
  <2>1. \A n \in DOMAIN dir' \ unread' : dir'[n].kind # "unreadable"
    BY DEF GatherInv, SeenInv
  <2>2. {dir'[n].index : n \in Taken'} = DOMAIN seen \cup {f.index}
    BY <1>1, <1>5
  <2>3. seen' = [i \in DOMAIN seen \cup {f.index} |-> IF i = f.index THEN name ELSE seen[i]]
    BY DEF Take
  <2>4. seen' = [i \in {dir'[n].index : n \in Taken'} |-> seen'[i]]
    BY <2>2, <2>3, SMTT(30)
  <2>5. \A n \in Taken' : seen'[dir'[n].index] = n
    <3>1. \A n \in Taken : dir[n].index \in DOMAIN seen /\ seen[dir[n].index] = n
      BY <1>5 DEF GatherInv, SeenInv
    <3> QED
      BY <1>1, <1>5, <2>3, <3>1, SMTT(30)
  <2> QED
    BY <2>1, <2>4, <2>5 DEF SeenInv
<1>7. VersionInv'
  <2>1. CASE f.version \notin VERSIONS
    <3>1. version' = version
      BY <2>1 DEF Take
    <3> QED
      BY <1>1, <2>1, <3>1 DEF GatherInv, VersionInv
  <2>2. CASE f.version \in VERSIONS
    <3>1. version' = [version EXCEPT ![f.role] = f.version] /\ f.role \in Roles
      BY <1>2, <2>2 DEF Take
    <3>2. version \in [Roles -> VERSIONS \cup {"none"}]
      BY DEF GatherInv, VersionInv
    <3>3. version' \in [Roles -> VERSIONS \cup {"none"}]
      BY <2>2, <3>1, <3>2
    <3>4. ASSUME NEW n \in Taken', dir[n].version \in VERSIONS
          PROVE  version'[dir[n].role] = dir[n].version
      <4>1. CASE n = name
        BY <3>1, <3>2, <4>1, SMTT(30)
      <4>2. CASE n \in Taken
        <5>1. version[dir[n].role] = dir[n].version /\ dir[n].role \in Roles
          BY <3>4, <4>2, EntryFacts, SMTT(30) DEF GatherInv, VersionInv
        <5>2. version[dir[n].role] # "none"
          BY <3>4, <5>1, FirmwareAssumption, SMTT(30)
        <5>3. dir[n].role = f.role => dir[n].version = f.version
          BY <1>2, <1>4, <2>2, <5>1, <5>2, SMTT(30)
        <5> QED
          BY <3>1, <3>2, <5>1, <5>3, SMTT(30)
      <4> QED
        BY <1>1, <4>1, <4>2
    <3>5. ASSUME NEW r \in Roles, version'[r] # "none"
          PROVE  \E n \in Taken' : dir[n].role = r /\ dir[n].version = version'[r]
      <4>1. CASE r = f.role
        BY <1>1, <3>1, <3>2, <4>1, SMTT(30)
      <4>2. CASE r # f.role
        BY <1>1, <3>1, <3>2, <3>5, <4>2 DEF GatherInv, VersionInv
      <4> QED
        BY <4>1, <4>2
    <3> QED
      BY <3>3, <3>4, <3>5, SMTT(30) DEF VersionInv
  <2> QED
    BY <2>1, <2>2
<1>8. CASE search = "patch"
  <2>1. count' = f.count /\ PatchValid(f)
    BY <1>3, <1>8 DEF Take
  <2>2. \A n \in Taken : PatchValid(dir[n]) /\ dir[n].count = f.count
    <3>1. \A n \in Taken : PatchValid(dir[n]) /\ dir[n].count = count
      BY <1>8 DEF GatherInv, PatchInv
    <3>2. \A n \in Taken : count # 0
      BY <3>1, SMTT(30) DEF PatchValid
    <3> QED
      BY <1>3, <1>8, <3>1, <3>2
  <2>3. PatchInv'
    BY <1>1, <2>1, <2>2, SMTT(30) DEF PatchInv, PatchValid
  <2> QED
    BY <1>6, <1>7, <1>8, <2>3, SMTT(30) DEF GatherInv
<1>9. CASE search = "rom"
  <2>1. f.index < WMT_ROM_TYPES
    BY <1>2, <1>4, <1>9, FirmwareAssumption, SMTT(30)
  <2>2. RomInv'
    BY <1>1, <1>4, <1>9, <2>1 DEF GatherInv, RomInv
  <2> QED
    BY <1>6, <1>7, <1>9, <2>2, SMTT(30) DEF GatherInv
<1> QED
  BY <1>2, <1>8, <1>9

\* The reference depends on the directory alone.
LEMMA SameReference ==
  ASSUME UNCHANGED <<search, dir>>
  PROVE  (Good' <=> Good) /\ Reference' = Reference
<1>1. Matching' = Matching
  BY DEF Matching
<1>2. \A r : Versions(r)' = Versions(r)
  BY <1>1, SMTT(30) DEF Versions
<1>3. Good' <=> Good
  BY <1>1, <1>2 DEF Good, GoodPatches, GoodRom, NoUnreadable, OneEach
<1>4. Reference' = Reference
  <2> DEFINE M(d) == {n \in DOMAIN d : d[n].kind = "header"}
             V(d, r) == {d[n].version : n \in {m \in M(d) : d[m].role = r}} \cap VERSIONS
             Ref(d) == [records |-> [i \in {d[n].index : n \in M(d)} |->
                                       CHOOSE n \in M(d) : d[n].index = i],
                        version |-> [r \in Roles |-> IF V(d, r) = {} THEN "none"
                                                     ELSE CHOOSE v \in V(d, r) : TRUE]]
  <2>1. Reference = Ref(dir)
    BY ZenonT(30) DEF Reference, Matching, Versions
  <2>2. Reference' = Ref(dir')
    BY Zenon DEF Reference, Matching, Versions
  <2> HIDE DEF Ref
  <2> QED
    BY <2>1, <2>2
<1> QED
  BY <1>3, <1>4

LEMMA ReadKeeps == ASSUME SearchInv, ReadEntry PROVE SearchInv'
<1>1. PICK name \in unread :
        /\ unread' = unread \ {name}
        /\ error' = FileError(dir[name])
        /\ done' = (error' # "ok")
        /\ IF dir[name].kind = "header" /\ error' = "ok"
           THEN Take(name, dir[name])
           ELSE UNCHANGED <<count, seen, version>>
  BY DEF ReadEntry
<1>2. /\ search # "none" /\ ~done /\ error = "ok" /\ output = Untouched /\ DirInv /\ GatherInv
      /\ UNCHANGED <<search, dir>> /\ output' = output
  BY DEF ReadEntry, SearchInv, EndInv
<1>3. DirInv'
  <2>1. unread' \subseteq DOMAIN dir
    BY <1>1, <1>2, SMTT(30) DEF DirInv
  <2> QED
    BY <1>2, <2>1 DEF DirInv, Files, Patches, Roms, Useless
<1>4. search \in {"patch", "rom"} /\ dir[name].kind \in {"unreadable", "other", "header"}
  BY <1>1, <1>2, EntryFacts DEF DirInv
<1>5. CASE error' # "ok"
  <2>1. ~Good'
    BY <1>1, <1>2, <1>5, ErrorIsNotGood, SameReference
  <2>2. EndInv'
    BY <1>1, <1>2, <1>5, <2>1, Zenon DEF EndInv, Untouched, Empty
  <2> QED
    BY <1>3, <1>5, <2>2, SMTT(30) DEF SearchInv
<1>6. CASE error' = "ok"
  <2>1. GatherInv'
    <3>1. CASE dir[name].kind = "header"
      BY <1>1, <1>2, <1>6, <3>1, TakeKeeps, Zenon
    <3>2. CASE dir[name].kind = "other"
      BY <1>1, <1>2, <3>2, SkipKeeps
    <3>3. dir[name].kind # "unreadable"
      <4>1. FileError(dir[name]) = "ok"
        BY <1>1, <1>6
      <4> QED
        BY <1>4, <4>1, FileErrorFacts
    <3> QED
      BY <1>4, <3>1, <3>2, <3>3
  <2>2. EndInv'
    BY <1>1, <1>2, <1>6, Zenon DEF EndInv, Untouched, Empty
  <2> QED
    BY <1>3, <2>1, <2>2 DEF SearchInv
<1> QED
  BY <1>5, <1>6

LEMMA FinishKeeps == ASSUME SearchInv, Finish PROVE SearchInv'
<1>1. /\ search # "none" /\ ~done /\ error = "ok" /\ output = Untouched /\ unread = {}
      /\ DirInv /\ GatherInv
      /\ UNCHANGED <<search, dir, unread, count, seen, version>> /\ done'
      /\ error' = IF search = "patch" THEN CompleteError ELSE "ok"
      /\ output' = Returned(error')
  BY SMTT(30) DEF Finish, SearchInv, EndInv
<1>2. DirInv' /\ GatherInv'
  <2>1. DirInv'
    BY <1>1 DEF DirInv, Files, Patches, Roms, Useless
  <2>2. Taken' = Taken
    BY <1>1, SMTT(30) DEF Taken
  <2>3. SeenInv' /\ VersionInv'
    BY <1>1, <2>2 DEF GatherInv, SeenInv, VersionInv
  <2>4. IF search = "patch" THEN PatchInv' ELSE RomInv'
    BY <1>1, <2>2 DEF GatherInv, PatchInv, RomInv, PatchValid
  <2> QED
    BY <1>1, <2>1, <2>3, <2>4, SMTT(30) DEF GatherInv
<1>3. CASE error' = "ok"
  <2>1. search = "patch" => CompleteError = "ok"
    BY <1>1, <1>3
  <2>2. Good /\ [records |-> seen, version |-> version] = Reference
    BY <1>1, <2>1, CompleteIsGood, GatheredIsReference
  <2>3. output' = Reference
    BY <1>1, <1>3, <2>2 DEF Returned
  <2>4. EndInv'
    BY <1>1, <1>3, <2>2, <2>3, SameReference DEF EndInv
  <2> QED
    BY <1>2, <2>4 DEF SearchInv
<1>4. CASE error' # "ok"
  <2>1. output' = Untouched'
    BY <1>1, <1>4 DEF Returned, Untouched, Empty
  <2>2. ~Good
    BY <1>1, <1>4, IncompleteIsNotGood
  <2>3. EndInv'
    BY <1>1, <1>4, <2>1, <2>2, SameReference DEF EndInv
  <2> QED
    BY <1>2, <1>4, <2>3 DEF SearchInv
<1> QED
  BY <1>3, <1>4

LEMMA FailKeeps == ASSUME SearchInv, DirectoryFails PROVE SearchInv'
<1>1. /\ DirInv /\ output = Untouched /\ done' /\ error' = "EIO"
      /\ UNCHANGED <<search, dir, unread, count, seen, version, output>>
      /\ search # "none"
  BY SMTT(30) DEF DirectoryFails, SearchInv, EndInv
<1>2. DirInv'
  BY <1>1 DEF DirInv, Files, Patches, Roms, Useless
<1>3. EndInv'
  BY <1>1, Zenon DEF EndInv, Untouched, Empty
<1> QED
  BY <1>1, <1>2, <1>3, SMTT(30) DEF SearchInv

LEMMA OpenKeeps ==
  ASSUME SearchInv, search = "none", NEW w \in {"patch", "rom"}, OpenDirectory(w)
  PROVE  SearchInv'
<1>1. /\ search' = w /\ unread' = DOMAIN dir' /\ NotSearched /\ ~done' /\ error' = "ok"
      /\ output' = Untouched /\ seen' = Empty /\ count' = 0
      /\ version' = [r \in Roles |-> "none"]
  BY DEF OpenDirectory, SearchInv, DirInv, NotSearched
<1>2. PICK names \in SUBSET NAMES :
        dir' \in [names -> Useless \cup IF w = "patch" THEN Patches ELSE Roms]
  BY DEF OpenDirectory
<1>3. DirInv'
  BY <1>1, <1>2, SMTT(30) DEF DirInv, Files
<1>4. Taken' = {}
  BY <1>1 DEF Taken
<1>5. GatherInv'
  <2>1. SeenInv'
    BY <1>1, <1>4 DEF SeenInv, Empty
  <2>2. VersionInv'
    BY <1>1, <1>4, SMTT(30) DEF VersionInv
  <2>3. PatchInv' /\ RomInv'
    BY <1>1, <1>4 DEF PatchInv, RomInv
  <2> QED
    BY <2>1, <2>2, <2>3 DEF GatherInv
<1>6. EndInv'
  BY <1>1, Zenon DEF EndInv, Untouched, Empty
<1> QED
  BY <1>3, <1>5, <1>6 DEF SearchInv
-----------------------------------------------------------------------------
(***************************************************************************)
(* The reply: the k-th record is the k-th smallest index that is present,  *)
(* and the encoder accepts the list of a good directory.                   *)
(***************************************************************************)
LEMMA PlaceFacts ==
  ASSUME DOMAIN output.records \subseteq Nat, IsFiniteSet(DOMAIN output.records)
  PROVE  LET D == DOMAIN output.records
             N == Cardinality(D)
         IN /\ N \in Nat
            /\ \A k \in 1 .. N : IndexAt(k) \in D
            /\ \A j, k \in 1 .. N : j < k => IndexAt(j) < IndexAt(k)
<1> DEFINE D == DOMAIN output.records
           N == Cardinality(D)
           B(i) == {j \in D : j <= i}
           f == [i \in D |-> Place(i)]
<1>1. N \in Nat
  BY FS_CardinalityType, SMTT(30)
<1>2. ASSUME NEW i \in D
      PROVE  IsFiniteSet(B(i)) /\ Place(i) = Cardinality(B(i)) /\ Place(i) \in 1 .. N
  <2>1. B(i) \in SUBSET D /\ i \in B(i)
    OBVIOUS
  <2>2. IsFiniteSet(B(i)) /\ Cardinality(B(i)) <= N /\ Cardinality(B(i)) \in Nat
    BY <2>1, FS_Subset, FS_CardinalityType, Zenon
  <2>3. Cardinality(B(i)) # 0
    BY <2>1, <2>2, FS_EmptySet, SMTT(30)
  <2> QED
    BY <1>1, <2>2, <2>3 DEF Place
<1>3. ASSUME NEW i \in D, NEW j \in D, i < j
      PROVE  Place(i) < Place(j)
  <2>1. B(i) \in SUBSET B(j) /\ j \in B(j) /\ j \notin B(i)
    BY <1>3
  <2>2. Cardinality(B(i)) <= Cardinality(B(j)) /\ Cardinality(B(i)) # Cardinality(B(j))
    BY <1>2, <2>1, FS_Subset, Zenon
  <2> QED
    BY <1>2, <2>2
<1>4. \A i, j \in D : i # j => Place(i) # Place(j)
  <2>1. \A i, j \in D : i # j => i < j \/ j < i
    OBVIOUS
  <2>2. \A i \in D : Place(i) \in Nat
    <3> HIDE DEF N, B
    <3> QED
      BY <1>1, <1>2
  <2>3. \A i, j \in D : i < j => Place(i) < Place(j)
    BY <1>3
  <2> HIDE DEF D
  <2> QED
    BY <2>1, <2>2, <2>3
<1>5. f \in Injection(D, 1 .. N)
  BY <1>2, <1>4, Zenon DEF Injection, IsInjective
<1>6. IsFiniteSet(1 .. N) /\ Cardinality(1 .. N) = N
  BY <1>1, FS_Interval
<1>7. f \in Surjection(D, 1 .. N)
  BY <1>5, <1>6, FS_Injection, Zenon
<1>8. ASSUME NEW k \in 1 .. N
      PROVE  IndexAt(k) \in D /\ Place(IndexAt(k)) = k
  <2>1. \E i \in D : Place(i) = k
    BY <1>7, Zenon DEF Surjection
  <2> QED
    BY <2>1 DEF IndexAt
<1>9. ASSUME NEW j \in 1 .. N, NEW k \in 1 .. N, j < k
      PROVE  IndexAt(j) < IndexAt(k)
  <2>1. IndexAt(j) \in Nat /\ IndexAt(k) \in Nat
    BY <1>8
  <2>2. IndexAt(j) # IndexAt(k)
    BY <1>8, <1>9, SMTT(30)
  <2>3. ~(IndexAt(k) < IndexAt(j))
    BY <1>3, <1>8, <1>9
  <2> QED
    BY <2>1, <2>2, <2>3
<1> QED
  BY <1>1, <1>8, <1>9, SMTT(30)

\* The index of a header numbers the files of a good directory.
LEMMA IndexFacts ==
  ASSUME SearchInv, search # "none", done, error = "ok"
  PROVE  LET D == DOMAIN output.records
         IN /\ Good /\ D = {dir[n].index : n \in Matching} /\ D \subseteq Nat /\ IsFiniteSet(D)
            /\ Cardinality(D) = Cardinality(Matching)
            /\ \A i \in D : output.records[i] \in Matching /\ dir[output.records[i]].index = i
<1> DEFINE D == {dir[n].index : n \in Matching}
           g == [n \in Matching |-> dir[n].index]
<1>1. Good /\ output = Reference /\ DirInv
  BY DEF SearchInv, EndInv
<1>2. OneEach
  BY <1>1 DEF Good, GoodPatches, GoodRom
<1>3. DOMAIN output.records = D
  BY <1>1, Zenon DEF Reference
<1>4. D \subseteq Nat
  BY <1>1, EntryFacts
<1>5. g \in Bijection(Matching, D)
  BY <1>2, Zenon DEF OneEach, Bijection, Injection, Surjection, IsInjective
<1>6. IsFiniteSet(D) /\ Cardinality(D) = Cardinality(Matching)
  <2>1. ExistsBijection(Matching, D)
    BY <1>5 DEF ExistsBijection
  <2> QED
    BY <1>1, <2>1, MatchingFinite, FS_Bijection, SMTT(30)
<1>7. ASSUME NEW i \in D
      PROVE  output.records[i] \in Matching /\ dir[output.records[i]].index = i
  <2>1. output.records[i] = CHOOSE n \in Matching : dir[n].index = i
    BY <1>1 DEF Reference
  <2>2. \E n \in Matching : dir[n].index = i
    OBVIOUS
  <2> QED
    BY <2>1, <2>2, SMTT(30)
<1> QED
  BY <1>1, <1>3, <1>4, <1>6, <1>7, Zenon

LEMMA ListFacts ==
  ASSUME SearchInv, search # "none", done, error = "ok"
  PROVE  /\ Len(Records) = Cardinality(Matching)
         /\ \A k \in DOMAIN Records :
              /\ Records[k].name \in Matching
              /\ Records[k].index = dir[Records[k].name].index
              /\ \A j \in 1 .. k - 1 : Records[j].index < Records[k].index
         /\ wmt_reply_list(Records) = "ok"
<1> DEFINE D == DOMAIN output.records
           N == Cardinality(D)
<1>1. /\ Good /\ D = {dir[n].index : n \in Matching} /\ D \subseteq Nat /\ IsFiniteSet(D)
      /\ N = Cardinality(Matching)
      /\ \A i \in D : output.records[i] \in Matching /\ dir[output.records[i]].index = i
  BY IndexFacts, Zenon
<1>2. /\ N \in Nat
      /\ \A k \in 1 .. N : IndexAt(k) \in D
      /\ \A j, k \in 1 .. N : j < k => IndexAt(j) < IndexAt(k)
  BY <1>1, PlaceFacts, Zenon
<1>3. DOMAIN Records = 1 .. N
  BY DEF Records
<1>4. \A k \in 1 .. N :
        Records[k].index = IndexAt(k) /\ Records[k].name = output.records[IndexAt(k)]
  BY DEF Records, Record
<1>5. Len(Records) = N
  BY <1>2, SMTT(30) DEF Records
<1> HIDE DEF D, N
<1>6. \A k \in 1 .. N : Records[k].index \in D /\ Records[k].index \in Nat
  BY <1>1, <1>2, <1>4
<1>7. \A j, k \in 1 .. N : j < k => Records[j].index < Records[k].index
  BY <1>2, <1>4, SMTT(30)
<1>8. \A i, j \in 1 .. N : i # j => Records[i].index # Records[j].index
  <2>1. \A i, j \in 1 .. N : i # j => i < j \/ j < i
    BY <1>2
  <2> QED
    BY <1>6, <1>7, <2>1
<1>9. /\ search = "patch" => N # 0 /\ N <= WMT_CMD2_PATCH_MAX
      /\ search = "rom" => N <= WMT_CMD2_ROM_MAX /\ N <= WMT_CMD2_PATCH_MAX
      /\ \A i \in D : IndexOk(i, N)
  <2>1. CASE search = "patch"
    <3>1. PICK total \in 1 .. WMT_MAX_PATCHES : D = 1 .. total
      BY <1>1, <2>1, Zenon DEF Good, GoodPatches
    <3>2. N = total
      BY <3>1, FS_Interval, FirmwareAssumption DEF N
    <3> QED
      BY <2>1, <3>1, <3>2, FirmwareAssumption, LimitsAssumption DEF IndexOk
  <2>2. CASE search = "rom"
    <3>1. \A n \in Matching : dir[n].index < WMT_ROM_TYPES
      BY <1>1, <2>2 DEF Good, GoodRom
    <3>2. D \in SUBSET (0 .. WMT_ROM_TYPES - 1)
      BY <1>1, <3>1, FirmwareAssumption
    <3>3. /\ IsFiniteSet(0 .. WMT_ROM_TYPES - 1)
          /\ Cardinality(0 .. WMT_ROM_TYPES - 1) = WMT_ROM_TYPES
      BY FS_Interval, FirmwareAssumption
    <3>4. N <= WMT_ROM_TYPES
      BY <3>2, <3>3, FS_Subset, Zenon DEF N
    <3> QED
      BY <1>2, <2>2, <3>2, <3>4, FirmwareAssumption, LimitsAssumption, SMTT(30) DEF IndexOk
  <2> QED
    BY <2>1, <2>2, EntryFacts DEF SearchInv
<1>10. search = "patch" => Records # << >>
  BY <1>2, <1>3, <1>9
<1>11. wmt_reply_list(Records) = "ok"
  <2>1. \A i \in DOMAIN Records : IndexOk(Records[i].index, Len(Records))
    BY <1>3, <1>5, <1>6, <1>9, SMTT(30)
  <2>2. ~(Len(Records) > (IF search = "patch" THEN WMT_CMD2_PATCH_MAX ELSE WMT_CMD2_ROM_MAX))
    BY <1>2, <1>5, <1>9, LimitsAssumption, EntryFacts, SMTT(30) DEF SearchInv
  <2>3. ~(Len(Records) > WMT_CMD2_PATCH_MAX)
    BY <1>2, <1>5, <1>9, LimitsAssumption, EntryFacts DEF SearchInv
  <2>4. \A i, j \in DOMAIN Records : i # j => Records[i].index # Records[j].index
    BY <1>3, <1>8
  <2> QED
    BY <1>10, <2>1, <2>2, <2>3, <2>4, SMTT(30) DEF wmt_reply_list
<1>12. ASSUME NEW k \in 1 .. N, NEW j \in 1 .. k - 1
       PROVE  Records[j].index < Records[k].index
  BY <1>2, <1>7
<1>13. \A k \in 1 .. N :
         Records[k].name \in Matching /\ Records[k].index = dir[Records[k].name].index
  BY <1>1, <1>2, <1>4, ZenonT(30)
<1> QED
  BY <1>1, <1>3, <1>5, <1>11, <1>12, <1>13, Zenon
-----------------------------------------------------------------------------
(***************************************************************************)
(* The steps of the handler                                                *)
(***************************************************************************)
LEMMA SearchSame ==
  ASSUME SearchInv, UNCHANGED searchVars
  PROVE  SearchInv' /\ Matching' = Matching /\ (Good' <=> Good)
<1>1. UNCHANGED <<search, dir, unread, count, seen, version, error, done, output>>
  BY DEF searchVars
<1>2. DirInv'
  BY <1>1, ZenonT(30) DEF SearchInv, DirInv, NotSearched, Files, Patches, Roms, Useless, Empty, Untouched
<1>3. search # "none" /\ error = "ok" => GatherInv'
  BY <1>1 DEF SearchInv, GatherInv, SeenInv, VersionInv, PatchInv, RomInv, Taken, PatchValid
<1>4. EndInv'
  BY <1>1, SameReference, Zenon DEF SearchInv, EndInv, Untouched, Empty
<1> QED
  BY <1>1, <1>2, <1>3, <1>4, SameReference DEF SearchInv, Matching

\* While there is no reply, the properties of a reply say nothing.
LEMMA Silent ==
  ASSUME reply = NoReply, properties = {}
  PROVE  GoodNeverRefused /\ AnswerMatches
  BY Zenon DEF NoReply, GoodNeverRefused, AnswerMatches

LEMMA DecodeKeeps == ASSUME HandlerInv, Decode PROVE HandlerInv'
<1>1. SearchInv'
  BY SearchSame DEF HandlerInv, Decode
<1>2. /\ phase = "decode" /\ search = "none" /\ search' = "none" /\ result' = "ok"
      /\ reply' = NoReply /\ properties' = {} /\ frame' = frame /\ frame \in Frames
  BY Zenon DEF HandlerInv, Decode, PhaseInv, searchVars
<1>3. PhaseInv'
  <2>1. CASE wmt_command_decode = "ok"
    <3>1. frame.session = Session /\ frame.transaction # 0
      BY <2>1 DEF wmt_command_decode
    <3>2. phase' = "chip"
          /\ decoded' = [session |-> frame.session, transaction |-> frame.transaction,
                         text |-> frame.text]
      BY <2>1 DEF Decode
    <3> QED
      BY <1>2, <3>1, <3>2 DEF PhaseInv, Frames, NoReply, Session
  <2>2. CASE wmt_command_decode # "ok"
    <3>1. phase' = "end"
      BY <2>2, SMTT(30) DEF Decode
    <3> QED
      BY <1>2, <3>1 DEF PhaseInv, Frames
  <2> QED
    BY <2>1, <2>2, SMTT(30)
<1>4. GoodNeverRefused' /\ AnswerMatches'
  BY <1>2 DEF NoReply, GoodNeverRefused, AnswerMatches
<1> QED
  BY <1>1, <1>3, <1>4, SMTT(30) DEF HandlerInv

LEMMA QueryChipKeeps == ASSUME HandlerInv, QueryChip PROVE HandlerInv'
<1>1. /\ phase = "chip" /\ search = "none" /\ result = "ok" /\ reply' = NoReply
      /\ properties' = {} /\ frame' = frame /\ frame \in Frames /\ decoded' = decoded
      /\ decoded = [session |-> Session, transaction |-> frame.transaction, text |-> frame.text]
      /\ frame.transaction # 0 /\ SearchInv
  BY DEF HandlerInv, QueryChip, PhaseInv
<1>2. GoodNeverRefused' /\ AnswerMatches'
  BY <1>1, Zenon DEF NoReply, GoodNeverRefused, AnswerMatches
<1>3. ASSUME NEW e, e # "ok", Fails(e)
      PROVE  HandlerInv'
  <2>1. SearchInv' /\ search' = "none"
    BY <1>1, <1>3, SearchSame, SMTT(30) DEF Fails, searchVars
  <2>2. result' # "ok" /\ phase' = "reply"
    BY <1>3, SMTT(30) DEF Fails
  <2>3. PhaseInv'
    BY <1>1, <2>1, <2>2 DEF PhaseInv, Frames, NoReply, Session
  <2> QED
    BY <1>2, <2>1, <2>3, SMTT(30) DEF HandlerInv
<1>4. ASSUME NEW w \in {"patch", "rom"},
             w = IF decoded.text = "srh_patch" THEN "patch" ELSE "rom",
             decoded.text # "other", OpenDirectory(w), phase' = "search", UNCHANGED result
      PROVE  HandlerInv'
  <2>1. SearchInv'
    BY <1>1, <1>4, OpenKeeps, SMTT(30)
  <2>2. search' = w /\ ~done'
    BY <1>1, <1>4, SMTT(30) DEF OpenDirectory, SearchInv, DirInv, NotSearched
  <2>3. frame.text = IF w = "patch" THEN "srh_patch" ELSE "srh_rom_patch"
    BY <1>1, <1>4, SMTT(30) DEF Frames
  <2>4. PhaseInv'
    BY <1>1, <1>4, <2>2, <2>3, SMTT(30) DEF PhaseInv, Frames, NoReply, Session
  <2> QED
    BY <1>2, <2>1, <2>4, SMTT(30) DEF HandlerInv
<1>5. \/ \E e : e # "ok" /\ Fails(e)
      \/ \E w \in {"patch", "rom"} :
           /\ w = IF decoded.text = "srh_patch" THEN "patch" ELSE "rom"
           /\ decoded.text # "other" /\ OpenDirectory(w) /\ phase' = "search" /\ UNCHANGED result
  BY DEF QueryChip
<1> QED
  BY <1>3, <1>4, <1>5, SMTT(30)

LEMMA RunSearchKeeps == ASSUME HandlerInv, RunSearch PROVE HandlerInv'
<1>1. /\ phase = "search" /\ search # "none" /\ result = "ok" /\ reply' = NoReply
      /\ properties' = {} /\ frame' = frame /\ frame \in Frames /\ decoded' = decoded
      /\ decoded = [session |-> Session, transaction |-> frame.transaction, text |-> frame.text]
      /\ frame.transaction # 0 /\ SearchInv
      /\ frame.text = IF search = "patch" THEN "srh_patch" ELSE "srh_rom_patch"
  BY DEF HandlerInv, RunSearch, PhaseInv
<1>2. GoodNeverRefused' /\ AnswerMatches'
  BY <1>1, Zenon DEF NoReply, GoodNeverRefused, AnswerMatches
<1>3. SearchInv' /\ search' = search
  BY <1>1, ReadKeeps, FinishKeeps, FailKeeps, Zenon
     DEF RunSearch, Search, ReadEntry, Finish, DirectoryFails
<1>4. IF done' THEN phase' = "reply" /\ result' = error' ELSE UNCHANGED <<phase, result>>
  BY DEF RunSearch
<1>5. PhaseInv'
  BY <1>1, <1>3, <1>4, ZenonT(30) DEF PhaseInv, Frames, NoReply, Session
<1> QED
  BY <1>2, <1>3, <1>5, SMTT(30) DEF HandlerInv

LEMMA RespondKeeps == ASSUME HandlerInv, Respond PROVE HandlerInv'
<1>1. /\ phase = "reply" /\ phase' = "end" /\ UNCHANGED <<searchVars, frame, decoded>>
      /\ frame \in Frames /\ properties = {} /\ frame.transaction # 0
      /\ decoded = [session |-> Session, transaction |-> frame.transaction, text |-> frame.text]
      /\ search # "none" => frame.text = IF search = "patch" THEN "srh_patch" ELSE "srh_rom_patch"
      /\ IF search = "none" THEN result # "ok" ELSE done /\ result = error
      /\ SearchInv
  BY SMTT(30) DEF HandlerInv, Respond, PhaseInv
<1>2. SearchInv' /\ Matching' = Matching /\ (Good' <=> Good)
  BY <1>1, SearchSame, SMTT(30)
<1>3. UNCHANGED <<search, dir, unread>>
  BY <1>1, SMTT(30) DEF searchVars
<1>4. PhaseInv'
  BY <1>1, <1>3 DEF PhaseInv, Frames
<1>5. search \in {"none", "patch", "rom"}
  BY <1>1 DEF SearchInv, DirInv
<1>6. CASE result = "ok"
  <2>1. search # "none" /\ done /\ error = "ok"
    BY <1>1, <1>6, SMTT(30)
  <2>2. /\ Len(Records) = Cardinality(Matching)
        /\ \A k \in DOMAIN Records :
             /\ Records[k].name \in Matching
             /\ Records[k].index = dir[Records[k].name].index
             /\ \A j \in 1 .. k - 1 : Records[j].index < Records[k].index
        /\ wmt_reply_list(Records) = "ok"
    BY <1>1, <2>1, ListFacts, SMTT(30)
  <2>3. result' = "ok" /\ reply' = ListReply
    BY <1>6, <2>2, SMTT(30) DEF Respond
  <2>4. /\ reply'.kind = search /\ reply'.session = Session
        /\ reply'.transaction = frame.transaction
        /\ reply'.result = "ok" /\ reply'.records = Records
    BY <1>1, <2>3 DEF ListReply, Frame
  <2>5. GoodNeverRefused'
    BY <1>5, <2>1, <2>4 DEF GoodNeverRefused
  <2>6. AnswerMatches'
    <3> HIDE DEF Records
    <3> QED
      BY <1>1, <1>2, <1>3, <1>5, <2>1, <2>2, <2>4, ZenonT(30) DEF AnswerMatches
  <2> QED
    BY <1>2, <1>4, <2>5, <2>6, SMTT(30) DEF HandlerInv
<1>7. CASE result # "ok"
  <2>1. result' = result /\ reply' = wmt_reply_status(result) /\ properties' = {}
    BY <1>1, <1>7, SMTT(30) DEF Respond
  <2>2. /\ reply'.kind = "status" /\ reply'.session = Session
        /\ reply'.transaction = frame.transaction /\ reply'.result # "ok"
    BY <1>1, <1>7, <2>1, SMTT(30) DEF wmt_reply_status, Frame
  <2>3. search # "none" /\ Good => result = "EIO"
    BY <1>1, <1>7 DEF SearchInv, EndInv
  <2>4. GoodNeverRefused'
    BY <1>2, <1>3, <2>1, <2>3 DEF GoodNeverRefused
  <2>5. AnswerMatches'
    BY <1>1, <2>1, <2>2, Zenon DEF AnswerMatches
  <2> QED
    BY <1>2, <1>4, <2>4, <2>5 DEF HandlerInv
<1> QED
  BY <1>6, <1>7, SMTT(30)

LEMMA HandlerSame == ASSUME HandlerInv, UNCHANGED handlerVars PROVE HandlerInv'
<1>1. SearchInv' /\ Matching' = Matching /\ (Good' <=> Good)
  BY SearchSame DEF HandlerInv, handlerVars
<1>2. UNCHANGED <<search, dir, unread, error, done, frame, phase, decoded, result, reply, properties>>
  BY SMTT(30) DEF handlerVars, commandVars, searchVars
<1>3. PhaseInv'
  BY <1>2 DEF HandlerInv, PhaseInv, Frames, NoReply, Session
<1>4. GoodNeverRefused' /\ AnswerMatches'
  BY <1>1, <1>2, Zenon DEF HandlerInv, GoodNeverRefused, AnswerMatches, Session
<1> QED
  BY <1>1, <1>3, <1>4 DEF HandlerInv

LEMMA HandlerInit == CommandInit => HandlerInv
<1> SUFFICES ASSUME CommandInit PROVE HandlerInv
  OBVIOUS
<1>1. /\ NotSearched /\ frame \in Frames /\ phase = "decode" /\ result = "ok"
      /\ reply = NoReply /\ properties = {}
  BY DEF CommandInit
<1>2. search = "none" /\ ~done /\ error = "ok" /\ output = Untouched
  BY <1>1 DEF NotSearched
<1>3. SearchInv
  BY <1>1, <1>2, SMTT(30) DEF SearchInv, DirInv, EndInv
<1>4. PhaseInv
  BY <1>1, <1>2 DEF PhaseInv
<1> QED
  BY <1>1, <1>3, <1>4, Silent DEF HandlerInv

LEMMA HandlerStep == HandlerInv /\ [CommandNext]_handlerVars => HandlerInv'
  BY DecodeKeeps, QueryChipKeeps, RunSearchKeeps, RespondKeeps, HandlerSame, SMTT(30) DEF CommandNext

\* The handler's inductive invariant: what the search has gathered, where the
\* handler is, and the two properties of the reply.
THEOREM HandlerInvariant == CommandSpec => []HandlerInv
  BY HandlerInit, HandlerStep, PTL DEF CommandSpec

\* In whatever order readdir returns the entries of a directory, a search that
\* succeeds returns the reference set of a good one, and one that fails leaves
\* the caller's output alone: for any number of files, types and versions.
THEOREM SearchIsRight == CommandSpec => []OnlyGoodAccepted
<1>1. HandlerInv => OnlyGoodAccepted
  BY DEF HandlerInv, SearchInv, EndInv, OnlyGoodAccepted
<1> QED
  BY <1>1, HandlerInvariant, PTL

\* No limit of the encoder and no order of the entries refuses a good
\* directory: a status then means that a directory call failed, which it may
\* do at any entry.
THEOREM GoodIsAnswered == CommandSpec => []GoodNeverRefused
<1>1. HandlerInv => GoodNeverRefused
  BY DEF HandlerInv
<1> QED
  BY <1>1, HandlerInvariant, PTL

\* Every reply answers the transaction and the session of the frame that was
\* read, and a list carries exactly the files of the directory, in ascending
\* order of the index in their headers.
THEOREM AnswersMatch == CommandSpec => []AnswerMatches
<1>1. HandlerInv => AnswerMatches
  BY DEF HandlerInv
<1> QED
  BY <1>1, HandlerInvariant, PTL
=============================================================================
