------------------------------- MODULE ShimInit -------------------------------
(***************************************************************************)
(* RIL_Init of ril-shim/k50sv1_ril_shim.c: patching the vendor's request   *)
(* table, then installing the two GOT hooks as one transaction that every  *)
(* system call in it can break, while vendor threads already call through  *)
(* both slots.  Production code only: the host-test fault seams are left   *)
(* out, the faults themselves are choices of the system calls.             *)
(***************************************************************************)
EXTENDS GotScan

CONSTANTS
  FOREIGN_WRITER,  \* somebody else may rewrite a GOT slot
  MAX_CALLS,       \* bound on the calls of RIL_Init
  Images           \* what the loader may have mapped as librilproxy

ASSUME CallsAssumption ==
  FOREIGN_WRITER \in BOOLEAN /\ MAX_CALLS \in Nat /\ Images \subseteq Image

Entries == Symbols
VARIABLES
  samePage,       \* both GOT slots lie in one page (fixed by the loaded image)
  scan,           \* what became of the search for the slots
  rilPc,          \* where the thread in RIL_Init is; "out" between calls
  step,           \* where it is inside writeGotValue
  calls,          \* RIL_Init calls so far
  result,         \* what the last RIL_Init returned
  version,        \* range of the vendor table's version
  table,          \* the vendor table's onRequest: "blob" or "shim"
  tableWritable,  \* protection of the table's page
  realOnRequest,  \* sRealOnRequest
  patched,        \* sOnRequestPatched
  hookState,      \* sIaHookState
  original,       \* GotEntry.original as resolved
  published,      \* sRealOnUnsol and sRealOnComplete
  slot,           \* the two GOT words
  readonly,       \* GotEntry.protection has no PROT_WRITE
  prot,           \* page protection now: "ro" or "rw"
  ok,             \* success so far of the writeGotValue under way
  worker,         \* iaWorker exists
  vendorUp,       \* the vendor's own RIL_Init has run: its threads call
  target,         \* per slot, the function a vendor thread has loaded
  ownToken,       \* a request with one of the shim's tokens is outstanding
  carriesOwn      \* the completion being delivered carries such a token

Page(e) == IF samePage THEN "page" ELSE e
Pages == {Page(e) : e \in Entries}

initVars == <<calls, result, version, table, tableWritable, realOnRequest, patched>>
gotVars == <<original, published, slot, prot, ok>>
vendorVars == <<target, ownToken, carriesOwn>>
image == <<samePage, readonly, scan>>
rilVars == <<rilPc, step, initVars, hookState, gotVars, image, worker, vendorUp, vendorVars>>

Functions == {"vendor", "foreign", "hook"}
Writes == {"installUnsol", "installComplete", "rollbackComplete", "rollbackUnsol"}

RilTypeOK ==
  /\ rilPc \in {"out", "open", "patch", "storeTable", "install", "verifyInstall",
                "startWorker", "verifyRollback"} \cup Writes
  /\ step \in {"begin", "store", "restore", "verify"}
  /\ calls \in 0 .. MAX_CALLS
  /\ result \in {"none", "null", "table"}
  /\ version \in {"bad", "old", "v15"}
  /\ table \in {"blob", "shim"}
  /\ tableWritable \in BOOLEAN
  /\ realOnRequest \in {"null", "blob"}
  /\ patched \in BOOLEAN
  /\ hookState \in {"DISABLED", "INSTALLING", "ACTIVE", "FAILED"}
  /\ original \in [Entries -> Functions \cup {"none"}]
  /\ published \in [Entries -> Functions \cup {"none"}]
  /\ slot \in [Entries -> Functions]
  /\ readonly \in BOOLEAN /\ samePage \in BOOLEAN
  /\ scan \in {"none", "sound", "strayed", "partial"}
  /\ prot \in [Pages -> {"ro", "rw"}]
  /\ ok \in BOOLEAN
  /\ worker \in BOOLEAN /\ vendorUp \in BOOLEAN
  /\ target \in [Entries -> Functions \cup {"none"}]
  /\ ownToken \in BOOLEAN /\ carriesOwn \in BOOLEAN

Protection == IF readonly THEN "ro" ELSE "rw"

RilInit ==
  /\ rilPc = "out" /\ step = "begin" /\ calls = 0 /\ result = "none"
  /\ version \in {"bad", "old", "v15"}
  /\ table = "blob" /\ tableWritable = FALSE
  /\ realOnRequest = "null" /\ patched = FALSE
  /\ hookState = "DISABLED"
  /\ original = [e \in Entries |-> "none"]
  /\ published = [e \in Entries |-> "none"]
  /\ slot = [e \in Entries |-> "vendor"]
  /\ readonly \in BOOLEAN /\ samePage \in BOOLEAN /\ scan = "none"
  /\ prot = [p \in Pages |-> Protection]
  /\ ok = TRUE /\ worker = FALSE /\ vendorUp = FALSE
  /\ target = [e \in Entries |-> "none"]
  /\ ownToken = FALSE /\ carriesOwn = FALSE
-----------------------------------------------------------------------------
(***************************************************************************)
(* RIL_Init and patchOnRequest                                             *)
(***************************************************************************)
Return(r) == rilPc' = "out" /\ result' = r

\* Mutant: the guard against a second call is gone.
AlreadyPatched_Never == FALSE

AlreadyPatched == patched

RIL_Init ==
  /\ rilPc = "out" /\ calls < MAX_CALLS
  /\ calls' = calls + 1
  /\ IF AlreadyPatched THEN Return("table") ELSE rilPc' = "open" /\ UNCHANGED result
  /\ UNCHANGED <<step, version, table, tableWritable, realOnRequest, patched, hookState,
                 gotVars, image, worker, vendorUp, vendorVars>>

\* openRealRil, dlsym, or the vendor's RIL_Init fail; or it brings itself up.
openRealRil ==
  /\ rilPc = "open"
  /\ \/ Return("null") /\ UNCHANGED vendorUp
     \/ rilPc' = "patch" /\ vendorUp' = TRUE /\ UNCHANGED result
  /\ UNCHANGED <<step, calls, version, table, tableWritable, realOnRequest, patched,
                 hookState, gotVars, image, worker, vendorVars>>

\* sRealOnRequest is published before the table store.
CaptureOriginal == realOnRequest' = table

\* The checks of patchOnRequest, then mprotect and the publication.
patchOnRequest ==
  /\ rilPc = "patch"
  /\ \/ Return("null") /\ UNCHANGED <<realOnRequest, tableWritable>>
     \/ /\ version # "bad"
        /\ tableWritable' = TRUE
        /\ CaptureOriginal
        /\ rilPc' = "storeTable" /\ UNCHANGED result
  /\ UNCHANGED <<step, calls, version, table, patched, hookState, gotVars, image,
                 worker, vendorUp, vendorVars>>

\* Fail closed.
AfterFailedPatch == Return("null") /\ UNCHANGED patched

\* Store, read back, restore (which may fail twice and is only logged); then
\* RIL_Init goes on to the hooks, at version 15 and above.
storeTable ==
  /\ rilPc = "storeTable"
  /\ tableWritable' \in BOOLEAN
  /\ \/ /\ table' = "shim"
        /\ patched' = TRUE
        /\ IF version = "v15" THEN rilPc' = "install" /\ UNCHANGED result
                              ELSE Return("table")
     \/ /\ UNCHANGED table
        /\ AfterFailedPatch
  /\ UNCHANGED <<step, calls, version, realOnRequest, hookState, gotVars, image,
                 worker, vendorUp, vendorVars>>
-----------------------------------------------------------------------------
(***************************************************************************)
(* installAttachApnHooks                                                   *)
(***************************************************************************)
\* Mutant: the originals are left for later.
Publish_None == UNCHANGED published

\* Both originals, before either slot changes.
Publish == published' = [e \in Entries |-> slot[e]]

\* The pages of the two slots, for each way to find both entries, apart.
Resolved(img) ==
  {[unsol |-> page(slotAddr(img, p[1])), complete |-> page(slotAddr(img, p[2]))] :
     p \in {p \in findGotEntry(img, "unsol") \X findGotEntry(img, "complete") :
              gotScanCallback(img) /\ slotAddr(img, p[1]) # slotAddr(img, p[2])}}

\* Remembered for the property: a read outside the library, or a library with
\* a second slot for a symbol that is hooked all the same.
Verdict(img, hooked) ==
  IF ~ReadsInside(img) THEN "strayed"
  ELSE IF hooked /\ \E e \in Entries : Cardinality(Matches(img, e)) # 1 THEN "partial"
  ELSE "sound"

\* What a search may come to: nothing to hook, or two slots in one page or two.
Refused == {Verdict(img, FALSE) : img \in Images}
Hookable ==
  UNION {{[samePage |-> slots.unsol = slots.complete, scan |-> Verdict(img, TRUE)] :
            slots \in Resolved(img)} : img \in Images}

\* Both entries resolve to a usable original, or nothing is touched; the
\* library, /proc/self/maps and the page size may each stop the search.
installAttachApnHooks ==
  /\ rilPc = "install" /\ hookState = "DISABLED"
  /\ \/ /\ scan' \in Refused
        /\ Return("table")
        /\ UNCHANGED <<hookState, original, published>>
     \/ /\ \E found \in Hookable : samePage = found.samePage /\ scan' = found.scan
        /\ \A e \in Entries : slot[e] # "hook"
        /\ hookState' = "INSTALLING"
        /\ original' = [e \in Entries |-> slot[e]]
        /\ Publish
        /\ rilPc' = "installUnsol" /\ UNCHANGED result
  /\ UNCHANGED <<step, calls, version, table, tableWritable, realOnRequest, patched,
                 slot, prot, ok, samePage, readonly, worker, vendorUp, vendorVars>>

EntryOf(w) == IF w \in {"installUnsol", "rollbackUnsol"} THEN "unsol" ELSE "complete"
Installs(w) == w \in {"installUnsol", "installComplete"}
Desired(w) == IF Installs(w) THEN "hook" ELSE original[EntryOf(w)]
Expected(w) == IF Installs(w) THEN original[EntryOf(w)] ELSE "hook"

\* rollbackGotHooks writes back only a slot that holds our hook.
RollbackComplete == IF slot["complete"] = "hook"
                      THEN "rollbackComplete"
                    ELSE IF slot["unsol"] = "hook"
                      THEN "rollbackUnsol"
                    ELSE "verifyRollback"

\* Mutant: the result of the second write is not looked at.
AfterWrite_Ignored(w, success) ==
  /\ step' = "begin"
  /\ rilPc' = CASE w = "installUnsol" /\ success -> "installComplete"
                [] w = "installComplete" -> "startWorker"
                [] w = "installUnsol" /\ ~success -> RollbackComplete
                [] w = "rollbackComplete" -> IF slot["unsol"] = "hook"
                                               THEN "rollbackUnsol"
                                               ELSE "verifyRollback"
                [] w = "rollbackUnsol" -> "verifyRollback"

\* Where the transaction goes when writeGotValue returns.
AfterWrite(w, success) ==
  /\ step' = "begin"
  /\ rilPc' = CASE w = "installUnsol" /\ success -> "installComplete"
                [] w = "installComplete" /\ success -> "verifyInstall"
                [] Installs(w) /\ ~success -> RollbackComplete
                [] w = "rollbackComplete" -> IF slot["unsol"] = "hook"
                                               THEN "rollbackUnsol"
                                               ELSE "verifyRollback"
                [] w = "rollbackUnsol" -> "verifyRollback"

\* writeGotValue: mprotect(+w) on a read-only page may fail.
makeWritable(w) ==
  /\ rilPc = w /\ step = "begin"
  /\ \/ readonly /\ UNCHANGED prot /\ AfterWrite(w, FALSE)
     \/ /\ prot' = [prot EXCEPT ![Page(EntryOf(w))] = "rw"]
        /\ step' = "store" /\ UNCHANGED rilPc
  /\ ok' = TRUE
  /\ UNCHANGED <<initVars, hookState, original, published, slot, image, worker,
                 vendorUp, vendorVars>>

\* Mutant: a plain store.
Publishable_Always(w) == TRUE

\* The compare of the compare-and-exchange.
Publishable(w) == slot[EntryOf(w)] = Expected(w)

storeSlot(w) ==
  /\ rilPc = w /\ step = "store"
  /\ ok' = Publishable(w)
  /\ slot' = [slot EXCEPT ![EntryOf(w)] = IF Publishable(w) THEN Desired(w) ELSE @]
  /\ step' = "restore" /\ UNCHANGED rilPc
  /\ UNCHANGED <<initVars, hookState, original, published, prot, image, worker,
                 vendorUp, vendorVars>>

\* Read back, then mprotect to the old protection, which may fail.
restoreProtection(w) ==
  /\ rilPc = w /\ step = "restore"
  /\ \/ readonly /\ ok' = FALSE /\ UNCHANGED prot
     \/ /\ ok' = (ok /\ slot[EntryOf(w)] = Desired(w))
        /\ prot' = [prot EXCEPT ![Page(EntryOf(w))] = Protection]
  /\ step' = "verify" /\ UNCHANGED rilPc
  /\ UNCHANGED <<initVars, hookState, original, published, slot, image, worker,
                 vendorUp, vendorVars>>

\* Mutant: the protection is not looked at.
Verified_ValueOnly(e, f) == slot[e] = f

\* verifyGotValue, if /proc/self/maps can be read.
Verified(e, f) == slot[e] = f /\ prot[Page(e)] = Protection

verifyWrite(w) ==
  /\ rilPc = w /\ step = "verify"
  /\ \/ ok /\ Verified(EntryOf(w), Desired(w)) /\ AfterWrite(w, TRUE)
     \/ AfterWrite(w, FALSE)
  /\ UNCHANGED <<initVars, hookState, gotVars, image, worker, vendorUp, vendorVars>>

verifyInstall ==
  /\ rilPc = "verifyInstall"
  /\ \/ (\A e \in Entries : Verified(e, "hook")) /\ rilPc' = "startWorker"
     \/ rilPc' = RollbackComplete
  /\ UNCHANGED <<step, initVars, hookState, gotVars, image, worker, vendorUp,
                 vendorVars>>

\* initIaWake or pthread_create failed: undo.
AfterNoWorker == rilPc' = RollbackComplete /\ UNCHANGED <<result, hookState>>

startIaWorker ==
  /\ rilPc = "startWorker"
  /\ \/ worker' = TRUE /\ hookState' = "ACTIVE" /\ Return("table")
     \/ AfterNoWorker /\ UNCHANGED worker
  /\ UNCHANGED <<step, calls, version, table, tableWritable, realOnRequest, patched, gotVars,
                 image, vendorUp, vendorVars>>

\* Only the independent re-read decides; RIL_Init returns the table either way.
rollbackGotHooks ==
  /\ rilPc = "verifyRollback"
  /\ \/ /\ \A e \in Entries : Verified(e, original[e])
        /\ hookState' = "DISABLED"
     \/ hookState' = "FAILED"
  /\ Return("table")
  /\ UNCHANGED <<step, calls, version, table, tableWritable, realOnRequest, patched, gotVars,
                 image, worker, vendorUp, vendorVars>>
-----------------------------------------------------------------------------
(***************************************************************************)
(* Vendor threads calling through the slots                                *)
(***************************************************************************)
\* mtk-rilproxy loads the function from its GOT; a completion may carry one
\* of the shim's own tokens once such a request is outstanding.
VendorLoads(e) ==
  /\ vendorUp /\ target[e] = "none"
  /\ target' = [target EXCEPT ![e] = slot[e]]
  /\ carriesOwn' \in IF e = "complete" THEN {FALSE, ownToken} ELSE {carriesOwn}
  /\ UNCHANGED <<rilPc, step, initVars, hookState, gotVars, image, worker, vendorUp, ownToken>>

\* The call runs.  unsolHook lets the worker issue a request when active;
\* completeHook swallows the shim's own token; everything else is forwarded.
VendorCalls(e) ==
  /\ target[e] # "none"
  /\ target' = [target EXCEPT ![e] = "none"]
  /\ ownToken' = (\/ ownToken /\ ~(e = "complete" /\ carriesOwn)
                  \/ e = "unsol" /\ target[e] = "hook" /\ hookState = "ACTIVE" /\ worker)
  /\ carriesOwn' = (carriesOwn /\ e # "complete")
  /\ UNCHANGED <<rilPc, step, initVars, hookState, gotVars, image, worker, vendorUp>>

ForeignWrites(e) ==
  /\ FOREIGN_WRITER
  /\ slot' = [slot EXCEPT ![e] = "foreign"]
  /\ UNCHANGED <<rilPc, step, initVars, hookState, original, published, prot, ok, image,
                 worker, vendorUp, vendorVars>>

InitThread ==
  \/ openRealRil \/ patchOnRequest \/ storeTable \/ installAttachApnHooks
  \/ verifyInstall \/ startIaWorker \/ rollbackGotHooks
  \/ \E w \in Writes : makeWritable(w) \/ storeSlot(w) \/ restoreProtection(w)
                       \/ verifyWrite(w)

RilNext == \/ RIL_Init
           \/ InitThread
           \/ \E e \in Entries : VendorLoads(e) \/ VendorCalls(e) \/ ForeignWrites(e)

RilSpec == RilInit /\ [][RilNext]_rilVars
-----------------------------------------------------------------------------
(***************************************************************************)
(* Properties                                                              *)
(***************************************************************************)
\* A request dispatched through the patched table always has the vendor's own
\* function to go to: never NULL in the window of the patch, and never the
\* shim itself after repeated RIL_Init calls.  RIL_Init fails closed: it returns
\* a table only with the capability requests intercepted.
DispatchReachesVendor ==
  /\ table = "shim" => realOnRequest = "blob"
  /\ result = "table" => table = "shim"

\* A vendor thread that has loaded one of our hooks, at whatever point of the
\* installation or of a rollback it got there, finds an original to forward to.
HooksCanForward ==
  \A e \in Entries :
    target[e] = "hook" \/ slot[e] = "hook" => published[e] \in {"vendor", "foreign"}

\* The reported outcome is the real one.  ACTIVE means all of it: no slot left
\* with the vendor's function (somebody else may have replaced a hook since),
\* both pages back to their protection, the worker running.  A transaction that
\* reports DISABLED left nothing behind: no hook in a slot and no page writable
\* that was not before.
OutcomeIsHonest ==
  /\ hookState = "ACTIVE" =>
       worker /\ \A e \in Entries : slot[e] # "vendor" /\ prot[Page(e)] = Protection
  /\ hookState = "DISABLED" /\ rilPc = "out" =>
       \A e \in Entries : slot[e] # "hook" /\ prot[Page(e)] = Protection

\* A completion with a token of the shim never reaches librilproxy's
\* RIL_onRequestComplete, which would dereference it.
OwnTokenSwallowed == carriesOwn => target["complete"] # "vendor"

\* Neither install nor rollback overwrites a pointer somebody else put into a
\* slot after it was resolved.
ForeignPointersKept ==
  [][\A e \in Entries : slot[e] = "foreign" /\ original[e] = "vendor"
                          => slot'[e] = "foreign"]_rilVars

\* No pointer of the dynamic section leads the search for the slots out of the
\* library, whatever its headers and tables say; the section itself, which
\* nothing checks, is read inside it if the loader found it and its end there.
\* A library with two slots for one symbol is not hooked: some of its calls
\* would pass the shim by.
SlotsAreTheLibrarys == scan \in {"none", "sound"}

\* "unsolHook and completeHook both become reachable only after this
\* function's caller publishes IA_HOOKS_ACTIVE."
ReachableOnlyWhenActive ==
  \A e \in Entries : target[e] = "hook" => hookState = "ACTIVE"
=============================================================================
