----------------------------- MODULE WmtLauncher -----------------------------
(***************************************************************************)
(* wmt-launcher/main.c: the service that powers the connectivity chip.     *)
(* Its main thread answers the kernel's commands, a worker sits in the     *)
(* power ioctl that those answers complete, and a second worker keeps the  *)
(* firmware log enabled while a property asks for it.  It starts with the  *)
(* driver that the loader of WmtLoader has made ready.                     *)
(*                                                                         *)
(* The kernel's command broker is external, modelled from its use here: it *)
(* has at most one transaction open, which may expire at any time, refuses *)
(* a reply to any other, and closes it when the session is unbound.        *)
(***************************************************************************)
EXTENDS Naturals, WmtLoader

CONSTANTS
  MAX_ATTEMPTS,  \* power attempts (20 in the code)
  MAX_TX         \* bound on the broker's transactions

ASSUME ConstantsAssumption ==
  MAX_ATTEMPTS \in Nat \ {0} /\ MAX_TX \in Nat

VARIABLES
  pc,        \* main thread
  stop,      \* stop_requested
  advertised, \* LAUNCHER_READY is "yes"
  command,   \* transaction of the command being handled, 0 if none
  published, \* transactions whose version was published
  power,     \* struct power_task, its thread's pc and the transaction it awaits
  log,       \* struct log_task and its thread's pc
  controls,  \* struct optional_controls: the value of FWLOG_PROPERTY last applied
  want,      \* the value of it that stop_firmware_log acts on
  fwlog,     \* FWLOG_PROPERTY
  newDump,   \* DUMP_PROPERTY differs from the value last applied
  kernel,    \* broker session and transactions, and the firmware log
  failed     \* ghost: the ioctls of the way out that failed

vars == <<pc, stop, advertised, command, published, power, log, controls, want, fwlog,
          newDump, kernel, failed, loaderVars>>

LogValues == {"", "no", "yes"}

Labels ==
  {"open", "chip", "bind", "setup", "start", "loop", "controls", "joinLog", "disableLog",
   "dump", "poll", "reply", "publish", "out", "joinPower", "stopLog", "finalJoin",
   "finalDisable", "withdraw", "exited"}

PowerTask ==
  [pc : {"none", "head", "ioctl", "cleanup", "done"}, attempt : 0 .. MAX_ATTEMPTS,
   result : {"cancelled", "ok", "error"}, tx : 0 .. MAX_TX, stopping : BOOLEAN,
   finished : BOOLEAN]

LogTask == [pc : {"none", "head", "ioctl", "done"}, created : BOOLEAN, stopping : BOOLEAN,
            finished : BOOLEAN]

Broker == [bound : BOOLEAN, last : 0 .. MAX_TX, open : 0 .. MAX_TX, unread : BOOLEAN,
           accepted : SUBSET (1 .. MAX_TX), log : BOOLEAN]

TypeOK ==
  /\ pc \in Labels /\ stop \in BOOLEAN /\ advertised \in BOOLEAN
  /\ command \in 0 .. MAX_TX /\ published \subseteq 1 .. MAX_TX
  /\ power \in PowerTask /\ log \in LogTask /\ kernel \in Broker
  /\ controls \in LogValues /\ want \in LogValues /\ fwlog \in LogValues
  /\ newDump \in BOOLEAN /\ failed \subseteq {"unbind", "disable"}

Init ==
  /\ LoaderInit
  /\ pc = "open" /\ stop = FALSE /\ advertised = FALSE /\ command = 0 /\ published = {}
  /\ power = [pc |-> "none", attempt |-> 0, result |-> "cancelled", tx |-> 0,
              stopping |-> FALSE, finished |-> FALSE]
  /\ log = [pc |-> "none", created |-> FALSE, stopping |-> FALSE, finished |-> FALSE]
  /\ controls = "" /\ want = "" /\ fwlog \in LogValues /\ newDump \in BOOLEAN
  /\ kernel = [bound |-> FALSE, last |-> 0, open |-> 0, unread |-> FALSE,
               accepted |-> {}, log |-> FALSE]
  /\ failed = {}
-----------------------------------------------------------------------------
(***************************************************************************)
(* The kernel                                                              *)
(***************************************************************************)
CanAsk == kernel.bound /\ kernel.open = 0 /\ kernel.last < MAX_TX
Asked == [kernel EXCEPT !.last = @ + 1, !.open = kernel.last + 1, !.unread = TRUE]

\* Another user of the chip, a reset for one, asks for its patches.
KernelAsks ==
  /\ CanAsk /\ kernel' = Asked
  /\ UNCHANGED <<pc, stop, advertised, command, published, power, log, controls, want,
                 fwlog, newDump, failed, loaderVars>>

TransactionExpires ==
  /\ kernel.open # 0 /\ kernel' = [kernel EXCEPT !.open = 0, !.unread = FALSE]
  /\ UNCHANGED <<pc, stop, advertised, command, published, power, log, controls, want,
                 fwlog, newDump, failed, loaderVars>>
-----------------------------------------------------------------------------
(***************************************************************************)
(* The power worker: power_on                                              *)
(***************************************************************************)
AttemptsLeft == power.attempt < MAX_ATTEMPTS

PowerDone == [power EXCEPT !.pc = "done", !.finished = TRUE]

PowerHead ==
  /\ power.pc = "head"
  /\ power' = IF AttemptsLeft /\ ~power.stopping
              THEN [power EXCEPT !.pc = "ioctl", !.attempt = @ + 1]
              ELSE PowerDone
  /\ UNCHANGED kernel

\* Inside the ioctl: the chip needs its patches, perhaps several sets.
PowerAsks ==
  /\ power.pc = "ioctl" /\ power.tx \in kernel.accepted \cup {0}
  /\ CanAsk /\ kernel' = Asked
  /\ power' = [power EXCEPT !.tx = kernel.last + 1]

\* The ioctl returns when the transaction it waits for, if it asked at all, is
\* no longer open.  It fails if that was not answered with a list, or for the
\* hardware's reasons.
PowerReturns ==
  /\ power.pc = "ioctl" /\ (power.tx # 0 => power.tx # kernel.open)
  /\ \/ /\ power.tx \in kernel.accepted \cup {0}
        /\ power' = [PowerDone EXCEPT !.result = "ok", !.tx = 0]
     \/ power' = [power EXCEPT !.pc = "cleanup", !.result = "error", !.tx = 0]
  /\ UNCHANGED kernel

\* Stopping is checked again before the chip is powered down for a retry.
PowerCleanup ==
  /\ power.pc = "cleanup"
  /\ power' = IF power.stopping THEN PowerDone ELSE [power EXCEPT !.pc = "head"]
  /\ UNCHANGED kernel

power_on ==
  /\ PowerHead \/ PowerAsks \/ PowerReturns \/ PowerCleanup
  /\ UNCHANGED <<pc, stop, advertised, command, published, log, controls, want, fwlog,
                 newDump, failed, loaderVars>>
-----------------------------------------------------------------------------
(***************************************************************************)
(* The firmware-log worker: set_firmware_log                               *)
(***************************************************************************)
LogHead ==
  /\ log.pc = "head"
  /\ log' = IF log.stopping THEN [log EXCEPT !.pc = "done", !.finished = TRUE]
                            ELSE [log EXCEPT !.pc = "ioctl"]
  /\ UNCHANGED kernel

\* One pass; one that fails may have enabled the log all the same.
LogPass ==
  /\ log.pc = "ioctl"
  /\ \/ /\ kernel' = [kernel EXCEPT !.log = TRUE]
        /\ log' = [log EXCEPT !.pc = "head"]
     \/ /\ kernel' \in {kernel, [kernel EXCEPT !.log = TRUE]}
        /\ log' = [log EXCEPT !.pc = "done", !.finished = TRUE]

set_firmware_log ==
  /\ LogHead \/ LogPass
  /\ UNCHANGED <<pc, stop, advertised, command, published, power, controls, want, fwlog,
                 newDump, failed, loaderVars>>
-----------------------------------------------------------------------------
(***************************************************************************)
(* main: startup                                                           *)
(***************************************************************************)
Out == pc' = "out" /\ power' = [power EXCEPT !.stopping = TRUE]

\* The loop ends with the node or a permanent error once the driver is ready,
\* and with a stop before that.
open_driver ==
  /\ pc = "open"
  /\ \/ driverReady /\ pc' \in {"chip", "exited"}
     \/ stop /\ pc' = "exited"
  /\ UNCHANGED <<advertised, power, kernel>>

cached_chip == supported_chip(chipProperty)

\* Without a cached chip the kernel is asked until it answers, or a stop.
check_chip ==
  /\ pc = "chip"
  /\ (~cached_chip /\ Out) \/ (pc' = "bind" /\ UNCHANGED power)
  /\ UNCHANGED <<advertised, kernel>>

\* A session whose limits are not the expected ones is bound all the same.
BindSession ==
  /\ pc = "bind"
  /\ \/ Out /\ UNCHANGED kernel
     \/ /\ kernel' = [kernel EXCEPT !.bound = TRUE]
        /\ Out \/ (pc' = "setup" /\ UNCHANGED power)
  /\ UNCHANGED advertised

\* HIF, kill flag and the readiness property.
Advertise ==
  /\ pc = "setup"
  /\ \/ Out /\ UNCHANGED advertised
     \/ pc' = "start" /\ advertised' = TRUE /\ UNCHANGED power
  /\ UNCHANGED kernel

StartPower ==
  /\ pc = "start"
  /\ Out \/ (pc' = "loop" /\ power' = [power EXCEPT !.pc = "head"])
  /\ UNCHANGED <<advertised, kernel>>

Startup ==
  /\ open_driver \/ check_chip \/ BindSession \/ Advertise \/ StartPower
  /\ UNCHANGED <<stop, command, published, log, controls, want, fwlog, newDump, failed,
                 loaderVars>>
-----------------------------------------------------------------------------
(***************************************************************************)
(* main: command_loop                                                      *)
(***************************************************************************)
\* Mutant: commands are read only once the chip has power.
AfterHead_PowerFirst == IF power.finished THEN "controls" ELSE "loop"

\* The optional controls wait for the power worker, the commands do not.
AfterHead == IF power.finished THEN "controls" ELSE "poll"

\* Mutant: only a failed power-on ends the loop.
LoopEnds_PowerOnly == power.finished /\ power.result # "ok"

LoopEnds == stop \/ (power.finished /\ power.result # "ok")

LoopHead ==
  /\ pc = "loop"
  /\ IF LoopEnds
     THEN Out
     ELSE pc' = AfterHead /\ UNCHANGED power
  /\ UNCHANGED <<command, published, log, controls, want, kernel>>

\* check_optional_controls, the log: a finished worker is reaped and replaced,
\* and the start of one may fail; any other value that is new stops it.
ControlLog ==
  /\ pc = "controls"
  /\ \/ /\ fwlog = "yes" /\ log.created /\ ~log.finished
        /\ pc' = "dump" /\ UNCHANGED <<log, controls, want>>
     \/ /\ fwlog = "yes" /\ (log.created => log.finished)
        /\ pc' = "dump" /\ UNCHANGED want
        /\ \/ /\ log' = [pc |-> "head", created |-> TRUE, stopping |-> FALSE,
                         finished |-> FALSE]
              /\ controls' = "yes"
           \/ /\ log' = [pc |-> "none", created |-> FALSE, stopping |-> FALSE,
                         finished |-> FALSE]
              /\ UNCHANGED controls
     \/ /\ fwlog # "yes" /\ fwlog = controls
        /\ pc' = "dump" /\ UNCHANGED <<log, controls, want>>
     \/ /\ fwlog # "yes" /\ fwlog # controls
        /\ pc' = "joinLog" /\ want' = fwlog
        /\ log' = [log EXCEPT !.stopping = @ \/ log.created] /\ UNCHANGED controls
  /\ UNCHANGED <<command, published, power, kernel>>

\* Mutant: the log is disabled without waiting for its worker.
Joinable_AtOnce == TRUE

Joinable == log.created => log.pc = "done"

\* stop_firmware_log: the join, then the disable.
JoinLog(from, to) ==
  /\ pc = from /\ pc' = to
  /\ Joinable /\ log' = [log EXCEPT !.created = FALSE]

DisableLog(from, to, onSuccess, onFailure) ==
  /\ pc = from /\ pc' = to
  /\ \/ kernel' = [kernel EXCEPT !.log = FALSE] /\ onSuccess
     \/ UNCHANGED kernel /\ onFailure

\* In the loop a disable that fails leaves the old value, and is tried again.
ControlStop ==
  /\ \/ JoinLog("joinLog", "disableLog") /\ UNCHANGED <<controls, kernel>>
     \/ /\ DisableLog("disableLog", "dump",
                      controls' = want, UNCHANGED controls)
        /\ UNCHANGED log
  /\ UNCHANGED <<command, published, power, want>>

\* The rest of check_optional_controls: a failed dump value stays pending.
ControlDump ==
  /\ pc = "dump" /\ pc' = "poll"
  /\ newDump' \in {newDump, FALSE}
  /\ UNCHANGED <<command, published, power, log, controls, want, kernel>>

\* poll, read and wmt_command_decode: nothing, a command, or a fatal error.
ReadCommand ==
  /\ pc = "poll"
  /\ \/ /\ kernel.unread /\ pc' = "reply" /\ command' = kernel.open
        /\ kernel' = [kernel EXCEPT !.unread = FALSE] /\ UNCHANGED power
     \/ ~kernel.unread /\ pc' = "loop" /\ UNCHANGED <<command, kernel, power>>
     \/ Out /\ UNCHANGED <<command, kernel>>
  /\ UNCHANGED <<published, log, controls, want>>

\* Mutant: a refused reply publishes the version found.
AfterReply_Unchecked(outcome) == IF outcome = "status" THEN "loop" ELSE "publish"

AfterReply(outcome) == IF outcome = "list" THEN "publish" ELSE "loop"

\* handle_command: the search, then its reply.  The kernel takes a list or a
\* failure status for the transaction that is open and refuses any other; a
\* write that fails in another way ends the loop.
Reply ==
  /\ pc = "reply"
  /\ \/ \E outcome \in IF kernel.open = command THEN {"list", "status"} ELSE {"refused"} :
          /\ pc' = AfterReply(outcome)
          /\ kernel' = CASE outcome = "list" ->
                              [kernel EXCEPT !.open = 0, !.accepted = @ \cup {command}]
                         [] outcome = "status" -> [kernel EXCEPT !.open = 0]
                         [] outcome = "refused" -> kernel
          /\ UNCHANGED power
     \/ Out /\ UNCHANGED kernel
  /\ UNCHANGED <<command, published, log, controls, want>>

Publish ==
  /\ pc = "publish" /\ pc' = "loop" /\ published' = published \cup {command}
  /\ UNCHANGED <<command, power, log, controls, want, kernel>>

command_loop ==
  /\ \/ ControlDump
     \/ /\ LoopHead \/ ControlLog \/ ControlStop \/ ReadCommand \/ Reply \/ Publish
        /\ UNCHANGED newDump
  /\ UNCHANGED <<stop, advertised, fwlog, failed, loaderVars>>
-----------------------------------------------------------------------------
(***************************************************************************)
(* main: the way out                                                       *)
(***************************************************************************)
\* Mutant: the session is left bound until the worker has been joined.
Unbound_Later == kernel

Unbound == [kernel EXCEPT !.bound = FALSE, !.open = 0, !.unread = FALSE]

Unbind ==
  /\ pc = "out" /\ pc' = "joinPower"
  /\ \/ kernel' = Unbound /\ UNCHANGED failed
     \/ kernel.bound /\ failed' = failed \cup {"unbind"} /\ UNCHANGED kernel
  /\ UNCHANGED <<advertised, log>>

JoinPower ==
  /\ pc = "joinPower" /\ pc' = "stopLog"
  /\ power.pc \in {"none", "done"}
  /\ UNCHANGED <<advertised, log, kernel, failed>>

\* Mutant: only a worker that has not been reaped is stopped.
NeedsDisable_Worker == log.created

NeedsDisable == log.created \/ controls = "yes"

FinalStop ==
  /\ pc = "stopLog" /\ pc' = IF NeedsDisable THEN "finalJoin" ELSE "withdraw"
  /\ log' = [log EXCEPT !.stopping = @ \/ log.created]
  /\ UNCHANGED <<advertised, kernel, failed>>

FinalDisable ==
  /\ \/ JoinLog("finalJoin", "finalDisable") /\ UNCHANGED <<kernel, failed>>
     \/ /\ DisableLog("finalDisable", "withdraw", UNCHANGED failed,
                      failed' = failed \cup {"disable"})
        /\ UNCHANGED log
  /\ UNCHANGED advertised

\* Readiness is withdrawn and the node closed.
Withdraw ==
  /\ pc = "withdraw" /\ pc' = "exited" /\ advertised' = FALSE
  /\ UNCHANGED <<log, kernel, failed>>

WayOut ==
  /\ Unbind \/ JoinPower \/ FinalStop \/ FinalDisable \/ Withdraw
  /\ UNCHANGED <<stop, command, published, power, controls, want, fwlog, newDump, loaderVars>>
-----------------------------------------------------------------------------
request_stop ==
  /\ ~stop /\ stop' = TRUE
  /\ UNCHANGED <<pc, advertised, command, published, power, log, controls, want, fwlog,
                 newDump, kernel, failed, loaderVars>>

\* Someone sets one of the two properties.
SetProperty ==
  /\ \/ fwlog' \in LogValues /\ UNCHANGED newDump
     \/ newDump' \in BOOLEAN /\ UNCHANGED fwlog
  /\ UNCHANGED <<pc, stop, advertised, command, published, power, log, controls, want,
                 kernel, failed, loaderVars>>

main == Startup \/ command_loop \/ WayOut

LoaderStep ==
  /\ Loader
  /\ UNCHANGED <<pc, stop, advertised, command, published, power, log, controls, want, fwlog,
                 newDump, kernel, failed>>

Next == \/ main \/ LoaderStep \/ power_on \/ set_firmware_log
        \/ KernelAsks \/ TransactionExpires \/ request_stop \/ SetProperty

Spec == Init /\ [][Next]_vars

\* The three threads run.  A transaction need not expire, the properties need
\* not change, and nobody need ask the service to stop.
FairSpec == Spec /\ WF_vars(main) /\ WF_vars(power_on) /\ WF_vars(set_firmware_log)
-----------------------------------------------------------------------------
(***************************************************************************)
(* Properties                                                              *)
(***************************************************************************)
\* The firmware log is on only while main has it on record, as a worker to
\* join or as the value last applied: a worker that starts late, fails, is
\* reaped or cannot be replaced never turns it on behind a successful disable.
LogIsKnown ==
  kernel.log => log.created \/ controls = "yes"

\* A service that has exited has joined its workers, and its firmware log is
\* off unless the final disable itself failed.
ExitedIsQuiet ==
  pc = "exited" => /\ power.pc \in {"none", "done"} /\ log.pc \in {"none", "done"}
                   /\ kernel.log => "disable" \in failed

\* A version is published only for a transaction whose list the kernel took,
\* never for one that expired during the search.
PublishedIsAccepted == published \subseteq kernel.accepted

\* A power ioctl that waits for a patch list gets its answer from the command
\* loop or is released by the unbind; only a failed unbind can leave it waiting.
PowerServed == power.pc = "ioctl" ~> power.pc # "ioctl" \/ "unbind" \in failed

\* Asked to stop, or out of its loop for any other reason, the service exits:
\* main never joins a worker that waits for main.
ShutdownCompletes == stop \/ pc = "out" ~> pc = "exited" \/ "unbind" \in failed

\* A failed unbind delays the exit but does not prevent it, if the kernel lets
\* its open transactions expire: the worker that main then joins has seen the
\* stop flag and does not start another attempt.
ShutdownSurvivesUnbind ==
  WF_vars(TransactionExpires) => (stop \/ pc = "out" ~> pc = "exited")

\* Once the driver is announced, a supported chip is on record, whatever an
\* earlier boot had left there, and the driver was set up for that chip by
\* requests that all succeeded; the launcher binds its session only then.
ReadyIsDriven ==
  /\ driverReady => /\ chipProperty \in {"6755", "0326"} /\ driver.set = chipProperty
                    /\ driver.cleanup = "6755" /\ driver.init = "6755"
  /\ pc \notin {"open", "exited"} => driverReady
=============================================================================
