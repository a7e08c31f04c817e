------------------------------- MODULE WmtLoader -------------------------------
(***************************************************************************)
(* wmt-loader: the service that identifies the chip and initialises the    *)
(* WMT driver.  The chip property survives from earlier boots and may hold *)
(* anything; the readiness property, which the launcher waits for, does    *)
(* not.  init may run the loader again after it has failed or was killed.  *)
(***************************************************************************)
EXTENDS Naturals

VARIABLES
  loader,        \* [pc, chip]: the process and its local chip
  chipProperty,  \* CHIP_PROPERTY, "" if unset
  driverReady,   \* READY_PROPERTY is "yes"
  driver         \* external: what the detector was told, by request

loaderVars == <<loader, chipProperty, driverReady, driver>>

Chips == {"6755", "0326", "6580"}

LoaderInit ==
  /\ loader = [pc |-> "ended", chip |-> ""]
  /\ chipProperty \in Chips \cup {"", "garbage"} /\ driverReady = FALSE
  /\ driver = [set |-> "", cleanup |-> "", init |-> ""]
-----------------------------------------------------------------------------
supported_chip(c) == c \in {"6755", "0326"}

\* cached_chip_id: complete, hexadecimal and supported.
cached_chip_id == supported_chip(chipProperty)

At(label, chip) == loader' = [pc |-> label, chip |-> chip]
EndLoader == At("ended", "")

\* main up to open_detector; an already-ready invocation ends at once.
LoaderStarts ==
  /\ loader.pc = "ended" /\ ~driverReady /\ At("open", "")
  /\ UNCHANGED <<chipProperty, driverReady, driver>>

\* The node, a permanent error or the end of the attempts.
open_detector ==
  /\ loader.pc = "open" /\ (At("chip", "") \/ EndLoader)
  /\ UNCHANGED <<chipProperty, driverReady, driver>>

\* The cached ID or the detected one, which replaces what was cached.
IdentifyChip ==
  /\ loader.pc = "chip"
  /\ IF cached_chip_id THEN At("set", chipProperty) /\ UNCHANGED chipProperty
     ELSE \/ EndLoader /\ UNCHANGED chipProperty
          \/ \E c \in Chips : /\ supported_chip(c) /\ At("set", c)
                              /\ chipProperty' = c
  /\ UNCHANGED <<driverReady, driver>>

\* The older silicon keeps its raw ID for the first request only.
Argument(request) ==
  IF request # "set" /\ loader.chip = "0326" THEN "6755" ELSE loader.chip

After(request) == CASE request = "set" -> "cleanup" [] request = "cleanup" -> "init"
                    [] request = "init" -> "publish"

\* Mutant: readiness follows whatever the requests return.
AfterFailure_Continue(request) == After(request)

AfterFailure(request) == "ended"

\* One ioctl of initialize_driver.
initialize_driver ==
  /\ loader.pc \in {"set", "cleanup", "init"}
  /\ \/ /\ driver' = [driver EXCEPT ![loader.pc] = Argument(loader.pc)]
        /\ At(After(loader.pc), loader.chip)
     \/ /\ LET next == AfterFailure(loader.pc)
           IN  At(next, IF next = "ended" THEN "" ELSE loader.chip)
        /\ UNCHANGED driver
  /\ UNCHANGED <<chipProperty, driverReady>>

PublishReady ==
  /\ loader.pc = "publish" /\ driverReady' \in BOOLEAN /\ EndLoader
  /\ UNCHANGED <<chipProperty, driver>>

LoaderKilled ==
  /\ loader.pc # "ended" /\ EndLoader
  /\ UNCHANGED <<chipProperty, driverReady, driver>>

Loader ==
  \/ LoaderStarts \/ open_detector \/ IdentifyChip \/ initialize_driver \/ PublishReady
  \/ LoaderKilled
=============================================================================
