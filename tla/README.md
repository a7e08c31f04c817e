# TLA+ verification of the k50sv1_64_bsp device tree

The repository is an Android device tree. Most of it is declarative, but it
carries several native programs that replace or wrap vendor code, and those are
concurrent, talk to services that fail, and are hard to test. This project
models them in TLA+, checks the models with TLC on small instances and proves
their safety properties with TLAPS.

## The system

| Part | Source | Module | Status |
|---|---|---|---|
| Attach-APN re-sender | `ril-shim/k50sv1_ril_shim.c`, PART 2 | `AttachApn`, `ReissuePool`, `RilShimProofs` | modelled, proved |
| `RIL_Init`, table patch, GOT hooks | `ril-shim/k50sv1_ril_shim.c` | `ShimInit`, `RilShimProofs` | modelled, proved |
| Search for the GOT slots | `ril-shim/k50sv1_ril_shim.c` | `GotScan`, `RilShimProofs` | modelled, proved |
| Synthetic radio capability | `ril-shim/k50sv1_ril_shim.c`, PART 1 | `RadioCapability`, `RadioCapabilityProofs` | modelled, proved |
| Multi-HAL proxy: events, wake lock, threads | `sensors-hal/multihal` | `HalProxy`, `HalProxyInvariant`, `HalProxyProofs` | partly, proved |
| Legacy sensors adapter | `sensors-hal/SensorsSubHal.cpp` | `SensorsSubHal`, `SensorsStackProofs` | modelled, proved |
| Board sensors module | `sensors/sensors.c` | `BoardSensors`, `SensorsStackProofs` | modelled, proved |
| Sensors service: proxy calls over adapter over module | `sensors-hal/multihal` | `SensorsStack`, `SensorsStackProofs` | modelled, proved |
| WMT loader | `wmt-loader/main.c` | `WmtLoader`, `WmtProofs` | modelled, proved |
| WMT launcher | `wmt-launcher/main.c` | `WmtLauncher`, `WmtProofs` | modelled, proved |
| WMT firmware discovery | `wmt-launcher/firmware.c`, `patch.c` | `WmtFirmware`, `WmtProofs` | modelled, proved |
| WMT command frames and replies | `wmt-launcher/protocol.c`, `main.c` | `WmtCommand`, `WmtProofs` | modelled, proved |
| Wi-Fi calibration assistant | `wlan-assistant/main.cpp` | `WlanAssistant`, `WlanAssistantProofs` | modelled, proved |
| Extraction of the vendor files | `extract-files.sh`, `setup-makefiles.sh` | `ExtractFiles`, `ExtractFilesProofs` | modelled, proved |
| Gatekeeper, power shim, GNSS entry point, product configuration | see "Not modelled" | - | not modelled |

How they interact:

* The RIL shim sits between librilproxy and `mtk-rilproxy.so`. `RIL_Init`
  patches the vendor's dispatch table and two of its GOT slots. Afterwards
  requests pass through `onRequestShim` and indications and completions through
  the two hooks, which feed the re-sender's worker thread.
* The framework calls the multi-HAL proxy on one Binder thread; the proxy calls
  the adapter, and the adapter a device of the board module, which hides all of
  the stock module's sensors but one. The adapter's poll thread posts batches to
  the proxy while holding the adapter's mutex. The proxy's `initialize` calls
  back into the adapter and needs that mutex too.
* The WMT loader identifies the chip, sets the driver up and publishes readiness.
  The launcher waits for that, binds a kernel command session, and runs a power
  worker whose ioctl waits for the patch lists that the launcher's main thread
  finds and sends.
* The extraction script and the makefile generator it calls rewrite one vendor
  directory, with a copy of what was there to fall back on.

Each `MC` module instantiates the module it is named after, and the `.cfg` files
give the bounds. `PROJECT.json` maps definitions to source lines and lists runs,
mutants, hazards and theorems. A definition whose comment says "Mutant" is a
deliberately wrong variant, used only to show that a property can fail.

## The modules

**AttachApn.** State: the APN cache, the pending flags, the in-flight slot with
its latched deadline, the token pool, the rate limiter and the worker's pc.
Actions: `cacheInitialAttachApn` and `forwardRequest` (framework), `unsolHook`
and `completeHook` (vendor threads), and the worker's steps. Everything under
`sIaLock` is one step. Times are ticks left, so the clock needs no bound.
`ReissuePool` is the abstract promise: tokens are leased, and a lease ends only
by its own completion. A completion carries nothing but its token. One that the
vendor repeats after the token was leased again is taken for the newer request's,
and the hook could not know better (lines 833-841). `MAX_HELD` says whether the
vendor does that: with 1 it completes a request once per lease.

**ShimInit.** `RIL_Init` with every system call failing at will, one step per
memory write or protection change, and vendor threads calling through the slots
throughout. The library it finds is any member of `Images`; a constant says
whether somebody else writes the slots. The outcome of the search is remembered
in the ghost variable `scan`, so that `SlotsAreTheLibrarys` can speak of it.

**GotScan.** The search as operators over an image: load bias, `PT_LOAD`
segments, `PT_DYNAMIC` and the entries in memory from there on, and the
relocation, symbol and string tables with whatever they contain. Sums wrap at
`UINTPTR_MAX` as the code's do. `inModule`, `resolveDynPtr`, `gotScanCallback`
and `findGotEntry` are translated; `Inside` is the reference, in unbounded
arithmetic. The code checks every pointer it takes from the dynamic section, but
not the walk of the section itself (1231-1243): it starts where `PT_DYNAMIC` says
and goes on to a `DT_NULL`. `ReadsInside` therefore promises that the walk stays
in the library only for an image that is `DynamicMapped`, as one that the loader
has linked is; for every image it promises the rest. The library's name is taken
to match and strings are compared whole.

**RadioCapability.** The APPLY dedupe, against an external model of the
framework's transaction: one counter over all phones, sessions that restart with
system_server, retries and timeouts. It assumes that a new system_server ignores
the answers to requests of the dead one, and that a retry repeats a request
still queued.

**HalProxy.** The posting thread, the pending-writes thread, the wakelock thread
and `initialize`. "dozing" is a thread that has tested its condition and still
holds the mutex it will wait with. An acknowledgement is a number in the code; the
model keeps the set of wake-up events that were counted, and the proxy sees only
how many they are. A write that the FMQ refuses leaves the whole batch to the
pending queue. Left out: several sub-HALs, dynamic sensors.

**SensorsSubHal.** Binder calls and `initialize` are one step each under
`mMutex`; the poll thread has three. A device call that fails leaves the device
as it was. A poll call that began before `initialize` is discarded whole, flush
completions included, as the code intends.

**BoardSensors.** `get_backend`, `open_sensors` and `get_sensors_list`: the stock
module loads, or fails at one of its checks; one accelerometer is chosen. The
loop over the stock list is the recursive function `Chosen`.

**SensorsStack.** The whole service: `main` of `service.cpp`, the proxy's calls and
its `initialize`, step by step, over `SensorsSubHal` over `BoardSensors`. The
service has one Binder thread and one sub-HAL, so framework calls do not overlap;
the poll thread runs between any two steps. After an `initialize` that failed,
the proxy can record a mode the adapter is no longer in (`HalProxy.h:184`). Its
threads are then stopped, which is why `LayersAgree` speaks of running threads.

**WmtLoader.** `main` of the loader, each ioctl a step that may fail, killed
anywhere and run again at any time. The chip property of an earlier boot may hold
anything.

**WmtLauncher.** Main thread, power worker and log worker, with the log worker's
test of `stopping` and its ioctl as two steps. The kernel's broker is external:
at most one open transaction, which can expire at any time. Failures of the
unbind and of the final disable are modelled, and the properties name them as
their only exceptions. `pthread_join` is taken not to fail.

**WmtFirmware.** Both directory searches, with `readdir` choosing the order and
failing at any entry, against a reference that has no order. A file name with both `ram_wifi` and
`ram_bt` in it is left out. The error code of a bad directory may depend on the
order; acceptance and the result do not.

**WmtCommand.** One command from the frame read to the frame written: decoding,
`handle_command` around a search of `WmtFirmware`, both encoders, the version
properties. A frame is the record of the fields the code tests. The insertion sort
of the reply is modelled by what it leaves: the k-th record is the one with the
k-th smallest index.

**WlanAssistant.** The process as a program counter, the kernel's inotify queue,
the file and the driver's node. Every system call whose answer can be outdated
by the time it is used is a step of its own, so the file and the node can change
in between. A content is named by the change that made it; of its size only the
four outcomes of the check are kept. The read is two steps, the open and the rest:
a file rewritten in between is read as it was, as it is or as a mix, which counts
as version 0 and passes the check if its length is right. The MAC override and the
file's name decide no branch and are left out. Events of a removed watch stay in the queue and are marked, since the loop skips them.

**ExtractFiles.** Repeated runs of the script over one vendor directory. A piece
of the tree is its state and the run that made it. Every command can fail, `cp`
and `rm` in the middle; a signal becomes an exit through `finish_extraction`
unless that is running already; the machine can stop anywhere. A run rebuilds the
payload, or with `-n` or `-s` extracts over it; then a file the source lacks keeps
its old copy, which also satisfies the check for missing files. `ExitIsHonest`
allows that only after those options. The fix-ups of single files are one outcome
of `Extract`. A signal during `finish_extraction`
ends the script with the restore unfinished, and what is missing stays in the
backup directory: that is what `NothingLost` promises, no more.

## Runs

| Run | Distinct states | Shows |
|---|---|---|
| `attach_apn_safety` | 61,895 | tokens are never shared, the pool is implemented, attempts are spaced, under faults of clock, memory and vendor |
| `attach_apn_timeout` | 291,322 | also with completions repeated to a newer request: waits end at their deadline and not before; each reset is answered while a token is free; an exhausted pool recovers once the vendor completes |
| `attach_apn_stale_replay` | - | **violated**: a newer APN can be overwritten by the copy being re-sent |
| `shim_init_transaction` | 172,804 | the patch fails closed, hooks can forward, ACTIVE and DISABLED mean what they say, a foreign pointer is never overwritten, and the search follows pointers only into the library and hooks no symbol by halves |
| `shim_init_reachable` | - | **violated**: a comment says the hooks are reachable only once ACTIVE |
| `radio_capability_retries` | 323,542 | no transaction completes before every phone has applied, and each ends, also after a restart that reuses session 0 |
| `hal_proxy_sessions` | 638,781 | the wake-lock count equals what is outstanding, through split batches, overflow and re-initialisation; order is kept; no reference leaks, no event crosses sessions, `initialize` returns |
| `sensors_stack_sessions` | 278,953 | the right sensor is shown; no sample from an earlier session; nothing left on is forgotten; the proxy runs only in step with the adapter and is posted no sensor it does not know |
| `wmt_launcher_threads` | 356,538 | readiness is honest, the log is never on unrecorded, the power ioctl is served, shutdown completes, after a failed unbind too |
| `wmt_command_orders` | 1,290,542 | a list is sent exactly for good directories, whatever the order, with the right records and to the right transaction |
| `wlan_assistant_changes` | 393,482 | a settled service has given the driver the current file, also after a torn read, and never one of a wrong length; readiness is honest; it recovers from failures |
| `extract_files_stops` | 543,625 | the last good tree can always be put together again, and a run that reports its outcome tells the truth |

Each property has a mutant in `PROJECT.json`, under which its run fails. The type
invariants (`TypeOK`, `RilTypeOK`, `StackTypeOK`) are in the modules and not in the runs' lists.

The two violated runs are findings. `attach_apn_stale_replay` is a race in the
code: the worker copies the cache under the lock and calls the vendor after
releasing it. `shim_init_reachable` contradicts one comment only; another
comment describes the real order and the hooks merely forward in that window.

`AttemptsSpaced` counts from the last attempt that has a date. When the clock fails
as an attempt is charged (1053-1056), the code keeps no date, and the next attempt
may follow at once; failing copies and a full pool are charged like any other.

`WholeFilesOnly` is about lengths. A mix of two versions of one length reaches the
driver, and `SettledIsCurrent` says that the file as it is follows.

`PoolRecovers` speaks of the pool, not of a socket. A rejected replay clears its
pending flag and does not advance the scan, so while the pool is exhausted one
socket can be passed over repeatedly.

`SettledIsCurrent` and `CalibrationDelivered` except two situations, which the
ghost variable `missed` marks and the run reaches. The file may be created
between the `access` test and the directory watch (`main.cpp:159-162`), so the
event the service then waits for has already passed. Or the event that should
move or end a watch is lost to an overflow. In both the service keeps running
and overlooks later changes until it is restarted. No document of the repository
promises otherwise, so this is noted here and not listed as a finding.

### Bounds

* Two sockets are the real number. Two tokens are the least with which a late
  completion can meet a newer request. A timeout of two ticks over an interval
  of one separates the two deadlines. `MAX_HELD` is 1 where `ReservedIffOwed` and
  `PoolSpec` are checked, and 2 in `attach_apn_timeout`: one completion of the
  current lease and one left from an earlier one.
* `hal_proxy_sessions` has an FMQ of one and a pending queue of two, with batches
  of one, three and four events: a batch of three writes one event directly and
  fills the queue, one of four overflows it. Two initialisations meet every stage
  of the first session.
* `sensors_stack_sessions` starts from every list of up to three of four stock
  sensors (an accelerometer, a wake-up one, one whose handle the proxy refuses,
  another type) and from every way the stock module can fail. Three
  initialisations give an old session, a new one and an interrupted one.
* `shim_init_transaction` has 720 images of a 28-byte library in an address
  space of 38 bytes, so that sums wrap; each departs from a good one in the load
  bias, a size, a table entry, a name, an entry of the dynamic section or the place
  of that section. In 6 of them the walk of the section leaves the library. Three calls of
  `RIL_Init` patch, find the table patched, and retry after a failure.
* The launcher has two power attempts for the code's twenty, two transactions
  (an expired one and its successor). Property changes and restarts of the loader
  are not bounded.
* Three files suffice for a duplicate beside a complete pair; header fields go
  one past each limit. The limits of search and encoder are equal, as in the
  code (10 patches, 5 ROM types), and scaled to 2.
* The assistant sees six changes (two make the file and the node appear, the
  rest can delete, recreate and rewrite the file during one hand-over), one
  failing call, two looks at the size for the code's five, and an event queue of
  two so that it overflows.
* Three runs of the script: one that leaves a half-restored tree, one that takes
  that for the previous tree, and one after it. Two makefiles make the loops
  turn more than once.

### Fairness

* Re-sender: the worker and the clock. `PoolRecovers` supposes in addition
  that the vendor completes what it accepted; strong, because the lock is taken in between.
* Radio capability: requests are handled and answers delivered.
* Proxy: its threads run. `initialize` has strong fairness, since the mutexes it
  waits for are taken and released repeatedly. The framework owes nothing.
* Launcher: its three threads run. Transactions need not expire and nobody need
  ask it to stop. `ShutdownSurvivesUnbind` alone supposes that transactions
  expire: after a failed unbind only the kernel can release the power worker. The
  loader owes nothing.
* Assistant: the process runs, its sleeps end, and init restarts it, as
  `init.wmt.rc` says. Nothing obliges the file or the node to appear.

Deadlock is not checked where a process may end or the environment may stay
silent for ever, which is every run but those of the re-sender.

## Proofs

| Module | Theorem | Establishes |
|---|---|---|
| `RilShimProofs` | `TypeCorrect` | `TypeOK` |
| | `TokensNeverShared` | `ReservedIffOwed` |
| | `AwaitedAlwaysOwed` | `AwaitedIsOwed` |
| | `ImplementsPool` | `PoolSpec` |
| | `WorkerNeverSpins` | `AttemptsSpaced` |
| | `WaitsRunTheirCourse` | `GiveUpOnlyWhenExpired` |
| | `ScanStaysInside` | every read of the search lies in one segment, the walk of the dynamic section if `DynamicMapped` |
| | `HooksAlwaysForward` | `HooksCanForward` |
| | `TablePatchFailsClosed` | `DispatchReachesVendor` |
| | `OutcomeAlwaysHonest` | `OutcomeIsHonest` |
| | `OwnTokensAlwaysSwallowed` | `OwnTokenSwallowed` |
| | `NoForeignPointerLost` | `ForeignPointersKept` |
| | `SearchIsSound` | `SlotsAreTheLibrarys` |
| `SensorsStackProofs` | `DeviceOnRecord` | `NothingForgotten`, `ActivationsOfThisSession` |
| | `ServiceInStep` | `LayersAgree` |
| | `ServiceForgetsNothing` | `NothingForgotten` |
| | `ServiceStartsAfresh` | `NoSampleFromBefore` |
| | `PostedAlwaysListed` | `PostedAreListed` |
| | `RightAccelerometer` | `ChoiceIsRight` |
| `HalProxyProofs` | `ProxyTyped` | `TypeOK` |
| | `AlwaysBalanced` | `WakelockBalanced` |
| | `NeverLeaked` | `NoLeakedReference` |
| | `AlwaysInOrder` | `DeliveredInOrder` |
| | `NeverStale` | `NoStaleSession` |
| `RadioCapabilityProofs` | `AlwaysCompletesTogether` | `CompletesTogether` |
| `WmtProofs` | `LauncherTyped` | `TypeOK` |
| | `LogAlwaysKnown` | `LogIsKnown` |
| | `ExitAlwaysQuiet` | `ExitedIsQuiet` |
| | `OnlyAcceptedPublished` | `PublishedIsAccepted` |
| | `ReadyAlwaysDriven` | `ReadyIsDriven` |
| | `SearchIsRight` | `OnlyGoodAccepted` |
| | `GoodIsAnswered` | `GoodNeverRefused` |
| | `AnswersMatch` | `AnswerMatches` |
| `WlanAssistantProofs` | `AssistantTyped` | `TypeOK` |
| | `SettledAlwaysCurrent` | `SettledIsCurrent` |
| | `ReadyAlwaysLoaded` | `ReadyIsLoaded` |
| | `OnlyWholeFiles` | `WholeFilesOnly` |
| `ExtractFilesProofs` | `VendorTreeSurvives` | `NothingLost` |
| | `ExtractionExitsHonestly` | `ExitIsHonest` |

**Re-sender**, for any number of sockets and tokens, any positive interval and
timeout and any payloads (`ConstantsAssumption`). The inductive invariant `IInv`
is types, `AwaitedIsOwed` and `LimiterHonest`; it holds for a vendor that repeats
completions at will, and so do the theorems that follow from it alone.
`TokensNeverShared` and `ImplementsPool` suppose `MAX_HELD = 1`: the vendor
completes a request once per lease. Without that they are false, since a repeated
completion frees the token of the newer request. `ReservedIffOwed` alone is not
inductive. A completion frees its token and, if it is the awaited one, the in-flight
slot, so one needs to know that an awaited token is always outstanding.
`LimiterHonest` ties the limiter's remaining time to the
time since the last attempt.

**Search**, for any width of an address, any sizes of the ELF structures and any
image (`SizesAssumption`). `InModuleExact` shows that `inModule`, with its wrapping
sums, is the unbounded `Inside`. From it follows that each resolved table, and
then each entry, name and slot reached from it, is inside. `WalkInside` does the
same for the entries of the dynamic section, from `DynamicMapped`: no entry behind
the first `DT_NULL` is read.

**`RIL_Init`**, for any number of calls and any set of images
(`CallsAssumption`). `HookInv` adds to `HooksCanForward` that both originals are
recorded and published throughout the transaction, since rollback stores what was
recorded. `TableInv` does the same for the request table. `OutcomeInv` ties the
state of the hooks to the point of the transaction: `INSTALLING` exactly inside it,
and with both slots taken by the time the worker starts. From it follows
`OwnTokenSwallowed`, because a token of the shim is out only when the hooks are
active, and active they stay. `SearchIsSound` rests on `ScanStaysInside`.

**Adapter**, for any sensors, channels, sessions and times. The invariant adds to
the two properties the order of the clock readings it compares (`TimesOK`).
`ActivationsOfThisSession` is what makes the filter's comparison with the
activation time a comparison with the session.

**Service.** Each step of the service is a step of the adapter or leaves it alone
(`AdapterStep`), so the adapter's invariant carries over. `LayersAgree` needs in
addition that the threads are stopped while `initialize` is under way.
`PostedAreListed` needs `ListInv`: the proxy lists what the adapter lists under a
clear sub-HAL index, and only listed sensors are ever active. `ChoiceIsRight`, for a
stock list of any length (`StockAssumption`: it is a sequence), is an induction over
the list: `Right` says what the loop holds after i entries. The induction takes the
least index at which `Right` fails (`LeastNatural`, from the well-foundedness of
the naturals); the same argument shows that the recursion of `Chosen` has a
solution at all (`ChosenDef`).

**Proxy**, for any positive FMQ, any pending-queue limit, any batches and any
number of initialisations (`ConstantsAssumption`). `HalProxyInvariant` states the
invariant and proves it for the steps that move no event; `HalProxyProofs` has the
others and the theorems. The wake-lock count is compared
with a number of events, so the proof has to know that no event is counted twice.
`OrderInv` and `PendingInv` give that for the queues, since ids ascend through FMQ,
pending queue and batch; `AckInv` gives it for the acknowledgements, which are
disjoint and of events already read. `ControlInv` says what each step of
`initialize` may rely on: with the threads stopped and joined the count is zero and
no poster's reference is live, and from the swap of the queues on nothing is in
them. `SessionInv` says where a batch of an earlier framework can still be: only
where the test of `mThreadsRun` will drop it. The two count properties are proved
together. A time-out drops the count to zero with events still out, so the equality
turns into the inequality, which must survive late acknowledgements and the next
posts.

**Radio capability**, for any number of phones, sessions, restarts, retries and
stray requests. `CompletesTogether` is about a counter, so `CountInv` bounds it by
the phones whose indication has not arrived. That needs each phone to indicate at
most once (`IndicationInv`), which rests on the shim's memory of the last session
(`AppliedInv`) and on nothing behind the APPLY in the request queue making it forget
(`OrderInv`). `SessionInv` says a session number is used once per system_server.

**Launcher and loader**, for any number of attempts and transactions. The invariant
has one part per property. `LogIsKnown` needs the log worker to be on record from
its creation to its join, because it may still be between its test of `stopping`
and the ioctl. `ReadyIsDriven` needs to know at each point of `initialize_driver`
which of the three requests have been made (`LoaderInv`).

**Firmware search and command**, for any finite set of names, any limits and any
versions. `FirmwareAssumption` types the constants; `LimitsAssumption` says that the
encoder's limits are not below those of the searches, as `patch.h`, `firmware.h` and
`mtk_wmt_cmd.h` have it, and `GoodNeverRefused` is false without it. The inductive
invariant `HandlerInv` consists of `SearchInv`, `PhaseInv` and the two properties of
the reply. `GatherInv` is the heart of `SearchInv`: while there is no error, what has
been gathered is exactly what the entries read so far say, and no two of them
disagree, which does not depend on their order. So an entry that is refused is at odds
with an earlier one or bad by itself, and the directory is not good
(`ErrorIsNotGood`); and at the end of the directory what was gathered is the
reference (`GatheredIsReference`). A directory call that fails ends the search with
`EIO` whatever was gathered; `GoodNeverRefused` says that nothing else keeps a good
directory from being answered with its list. `PlaceFacts` shows that the places in the reply
number the indices in ascending order, and `ListFacts` that the encoder accepts the
list of a good directory.

**Assistant**, for any number of changes, faults and looks at the size and any
event queue. `SettledIsCurrent` holds because at every point either an event that
the loop will note is queued, or the right watch is in place and what was read is
the file (`WatchInv`, `ContentInv`, `NodeInv`). That starts with the open: a file
rewritten under the read leaves an event that is still queued when the payload is
handed over. `EnqueueAdds` and its companions say
what an event does to the queue when it is full.

**Extraction**, for any distinct makefiles and any number of runs. `NothingLost`
is not inductive: a run overwrites the tree relying on its own copy. `IInv` says
where what the run found is at each point of the script (`Stage`), and that the
last good piece is either what the run found or in an older backup (`Held`), so
that neither losing this run's tree nor discarding its backup can lose it. `Fresh`
follows the payload through check, sums and makefiles for `ExitIsHonest`.

Each inductive invariant was checked with TLC on the bounds of its run as well as
proved.

Only model-checked: the liveness properties, since fairness and ENABLED are beyond
the prover: `ResetAnswered` and `PoolRecovers`, `TransactionCompletes`,
`InitializeReturns`, `PowerServed`, `ShutdownCompletes` and
`ShutdownSurvivesUnbind`, `CalibrationDelivered`. Every safety property of a passing
run has a theorem.

## Not modelled

* The gatekeeper service: one mutex around each call, argument checks and
  conversions. Throttling and the failure record are libgatekeeper's, which is not
  in the repository.
* The power shim: each setter looks a symbol up and forwards its argument. It
  keeps no state, so no sequence of calls can go wrong that one call does not.
* The GNSS entry point registers another library's service.
* In the proxy: the roll-back of `setOperationMode` over several sub-HALs and
  dynamic sensors. The service builds the proxy over exactly one sub-HAL, which
  reports none. `batch`, `flush`, `injectSensorData`, `configDirectReport` and
  `debug` forward and keep no state.
* The conversions of sensor events and of HIDL types, radio-capability payloads,
  the byte layout of frames and firmware headers, the MAC override, and the
  fix-ups of single vendor files.
* Makefiles, manifests, overlays, policies, init scripts and prebuilt files are
  declarative.

What could still be added: `HalProxy`'s event path composed with `SensorsStack`,
which is not attempted: the two alone have 640,000 and 280,000 states.
