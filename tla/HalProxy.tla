------------------------------- MODULE HalProxy -------------------------------
(***************************************************************************)
(* sensors-hal/multihal: HalProxy and ScopedWakelock.  One sub-HAL thread  *)
(* posts event batches, the pending-writes thread moves what did not fit   *)
(* into the event FMQ, the wakelock thread takes the framework's           *)
(* acknowledgements, and initialize() replaces all of it when the          *)
(* framework comes back.                                                   *)
(*                                                                         *)
(* A thread whose pc is "dozing" has evaluated its condition-variable      *)
(* predicate and still holds the mutex it is about to wait with; all other *)
(* critical sections are one step.                                         *)
(*                                                                         *)
(* An acknowledgement is a count; the model keeps the wake-up events that  *)
(* were counted, and the proxy sees how many they are.                     *)
(***************************************************************************)
EXTENDS Naturals, Sequences, FiniteSets, FiniteSetsExt

CONSTANTS
  QUANTUM_COUNT,     \* capacity of the event FMQ
  MAX_PENDING,       \* kMaxSizePendingWriteEventsQueue
  Batches,           \* batches the sub-HAL posts: sequences of wake-up flags
  MAX_EVENTS,        \* bound on the events posted
  MAX_INITS,         \* bound on the calls of initialize
  WAKELOCK_TIMEOUTS  \* kWakelockTimeoutNs may pass

ASSUME ConstantsAssumption ==
  /\ QUANTUM_COUNT \in Nat \ {0} /\ MAX_PENDING \in Nat
  /\ \A b \in Batches : b \in Seq(BOOLEAN) /\ b # <<>>
  /\ MAX_EVENTS \in Nat /\ MAX_INITS \in Nat /\ WAKELOCK_TIMEOUTS \in BOOLEAN

VARIABLES
  threadsRun,   \* mThreadsRun
  session,      \* which pair of queues this is (the initialize that made it)
  initPc,       \* the Binder thread in initialize
  subHalReady,  \* the sub-HAL has a callback
  postPc,       \* the sub-HAL's poll thread; it holds the sub-HAL mutex unless "idle"
  batch,        \* what it posts
  scoped,       \* its ScopedWakelock: "none", "live", or "stale" after a reset
  refCount,     \* mWakelockRefCount; the kernel wake lock is held iff it is not 0
  expired,      \* kWakelockTimeoutNs has passed since the last increment
  fmq,          \* the event FMQ
  pending,      \* mPendingWriteEventsQueue
  sizePending,  \* mSizePendingWriteEventsQueue
  pendPc,       \* the pending-writes thread
  wakePc,       \* the wakelock thread
  got,          \* the acknowledgement it has read
  acks,         \* the wake-lock FMQ
  unacked,      \* wake-up events the framework has read and not acknowledged
  lastRead,     \* id of the last event the framework read
  nextId,       \* id of the next event
  timedOut      \* the shared wake lock was reset by the timeout in this session

initVars == <<threadsRun, session, initPc, subHalReady>>
postVars == <<postPc, batch, nextId>>
wakeVars == <<scoped, refCount, expired, timedOut>>
frameworkVars == <<acks, unacked, lastRead>>
vars == <<initVars, postVars, wakeVars, fmq, pending, sizePending, pendPc, wakePc,
          got, frameworkVars>>

Events == [wake : BOOLEAN, id : 1 .. MAX_EVENTS, session : 0 .. MAX_INITS]
EventSeqs == Seq(Events)
Wakeups(s) == Cardinality({i \in DOMAIN s : s[i].wake})
PendingEvents == UNION {Range(pending[i]) : i \in DOMAIN pending}
ThreadStates == {"none", "ready", "dozing", "asleep", "exited"}

TypeOK ==
  /\ threadsRun \in BOOLEAN /\ subHalReady \in BOOLEAN
  /\ session \in 0 .. MAX_INITS
  /\ initPc \in {"idle", "stop", "notify", "join", "disable", "swap", "subHal", "start"}
  /\ postPc \in {"idle", "check", "post", "release"}
  /\ batch \in EventSeqs /\ fmq \in EventSeqs /\ Len(fmq) <= QUANTUM_COUNT
  /\ pending \in Seq(EventSeqs)
  /\ sizePending = Cardinality(PendingEvents) /\ sizePending <= MAX_PENDING
  /\ scoped \in {"none", "live", "stale"}
  /\ refCount \in Nat /\ expired \in BOOLEAN /\ timedOut \in BOOLEAN
  /\ pendPc \in ThreadStates \cup {"writing", "wrote"}
  /\ wakePc \in ThreadStates \cup {"reading", "got"}
  /\ got \subseteq Events /\ acks \in Seq(SUBSET Events) /\ unacked \subseteq Events
  /\ lastRead \in 0 .. MAX_EVENTS /\ nextId \in 1 .. MAX_EVENTS + 1

Init ==
  /\ threadsRun = FALSE /\ session = 0 /\ initPc = "idle" /\ subHalReady = FALSE
  /\ postPc = "idle" /\ batch = <<>> /\ nextId = 1
  /\ scoped = "none" /\ refCount = 0 /\ expired = FALSE /\ timedOut = FALSE
  /\ fmq = <<>> /\ pending = <<>> /\ sizePending = 0
  /\ pendPc = "none" /\ wakePc = "none" /\ got = {}
  /\ acks = <<>> /\ unacked = {} /\ lastRead = 0

\* mEventQueueWriteMutex, mWakelockMutex and the sub-HAL's mMutex.
EventQueueWriteMutexFree == pendPc # "dozing"
WakelockMutexFree == wakePc # "dozing"

\* Mutant: initialize does not wait for a batch being posted.
SubHalMutexFree_Always == TRUE

SubHalMutexFree == postPc = "idle"

Woken(pc) == IF pc = "asleep" THEN "ready" ELSE pc
Minus(n, d) == n - Min({n, d})
-----------------------------------------------------------------------------
(***************************************************************************)
(* The sub-HAL thread: createScopedWakelock, postEvents, ~ScopedWakelock   *)
(***************************************************************************)
\* incrementRefCountAndMaybeAcquireWakelock; the first reference can fail.
Acquires(delta) ==
  /\ refCount' = refCount + delta
  /\ expired' = FALSE
  /\ wakePc' = IF refCount = 0 THEN Woken(wakePc) ELSE wakePc

\* The poll thread has a batch and takes the sub-HAL mutex.
createScopedWakelock(b) ==
  /\ subHalReady /\ postPc = "idle" /\ nextId + Len(b) <= MAX_EVENTS + 1
  /\ LET events == [i \in DOMAIN b |-> [wake |-> b[i], id |-> nextId + i - 1,
                                        session |-> session]]
     IN /\ batch' = events
        /\ nextId' = nextId + Len(b)
        /\ \/ /\ Wakeups(events) > 0 /\ threadsRun /\ WakelockMutexFree
              /\ Acquires(1) /\ scoped' = "live"
           \/ /\ Wakeups(events) = 0 \/ ~threadsRun \/ refCount = 0
              /\ UNCHANGED <<scoped, refCount, expired, wakePc>>
  /\ postPc' = "check"
  /\ UNCHANGED <<initVars, timedOut, fmq, pending, sizePending, pendPc, got, frameworkVars>>

\* HalProxyCallback::postEvents up to the locked part.
postEvents ==
  /\ postPc = "check"
  /\ postPc' = IF threadsRun /\ (Wakeups(batch) > 0 => scoped # "none")
                 THEN "post" ELSE "release"
  /\ UNCHANGED <<initVars, batch, nextId, wakeVars, fmq, pending, sizePending, pendPc,
                 wakePc, got, frameworkVars>>

\* Mutant: the fast path is taken whatever is queued.
Direct_Always == Min({Len(batch), QUANTUM_COUNT - Len(fmq)})

\* How many events go straight into the FMQ.
Direct == IF pending = <<>> THEN Min({Len(batch), QUANTUM_COUNT - Len(fmq)}) ELSE 0

\* Mutant: the references of the whole batch are given back.
OverflowReferences_Whole(left) == Wakeups(batch)

\* wakeupsLeft of an overflow.
OverflowReferences(left) == Wakeups(left)

\* A write that the FMQ refuses leaves the whole batch to the pending queue.
postEventsToMessageQueue ==
  /\ postPc = "post"
  /\ EventQueueWriteMutexFree /\ WakelockMutexFree
  /\ postPc' = "release"
  /\ \/ /\ ~threadsRun \/ (scoped # "none" /\ refCount = 0)
        /\ UNCHANGED <<fmq, pending, sizePending, pendPc, refCount, expired, wakePc>>
     \/ /\ threadsRun
        /\ \E numToWrite \in {Direct, 0} :
           LET left == SubSeq(batch, numToWrite + 1, Len(batch))
               fits == sizePending + Len(left) <= MAX_PENDING
               taken == IF scoped # "none" THEN Wakeups(batch) ELSE 0
           IN /\ fmq' = fmq \o SubSeq(batch, 1, numToWrite)
              /\ IF left # <<>> /\ fits
                 THEN /\ pending' = Append(pending, left)
                      /\ sizePending' = sizePending + Len(left)
                      /\ pendPc' = Woken(pendPc)
                 ELSE UNCHANGED <<pending, sizePending, pendPc>>
              /\ refCount' = IF left = <<>> \/ fits
                               THEN refCount + taken
                               ELSE Minus(refCount + taken, OverflowReferences(left))
              /\ expired' = IF taken > 0 THEN FALSE ELSE expired
              /\ wakePc' = IF taken > 0 /\ refCount = 0 THEN Woken(wakePc) ELSE wakePc
  /\ UNCHANGED <<initVars, batch, nextId, scoped, timedOut, got, frameworkVars>>

\* The timestamp comparison of decrementRefCountAndMaybeReleaseWakelock.
ScopedReference == IF scoped = "live" THEN 1 ELSE 0

releaseScopedWakelock ==
  /\ postPc = "release" /\ WakelockMutexFree
  /\ postPc' = "idle" /\ batch' = <<>>
  /\ refCount' = Minus(refCount, ScopedReference)
  /\ scoped' = "none"
  /\ UNCHANGED <<initVars, nextId, expired, timedOut, fmq, pending, sizePending, pendPc,
                 wakePc, got, frameworkVars>>
-----------------------------------------------------------------------------
(***************************************************************************)
(* handlePendingWrites                                                     *)
(***************************************************************************)
Chunk == SubSeq(Head(pending), 1, Min({Len(Head(pending)), QUANTUM_COUNT}))

PendingCheck ==
  /\ pendPc = "ready"
  /\ pendPc' = CASE ~threadsRun -> "exited"
                 [] threadsRun /\ pending = <<>> -> "dozing"
                 [] OTHER -> "writing"
  /\ UNCHANGED <<initVars, postVars, wakeVars, fmq, pending, sizePending, wakePc, got,
                 frameworkVars>>

PendingWaits ==
  /\ pendPc = "dozing" /\ pendPc' = "asleep"
  /\ UNCHANGED <<initVars, postVars, wakeVars, fmq, pending, sizePending, wakePc, got,
                 frameworkVars>>

\* Mutant: a chunk that could not be written keeps its references.
DroppedReferences_Kept == 0

DroppedReferences == Wakeups(Chunk)

\* writeBlocking, without the lock: it fits, or the timeout passes first.
PendingWrites ==
  /\ pendPc = "writing" /\ pendPc' = "wrote"
  /\ \/ /\ Len(fmq) + Len(Chunk) <= QUANTUM_COUNT
        /\ fmq' = fmq \o Chunk
        /\ UNCHANGED refCount
     \/ /\ Len(fmq) + Len(Chunk) > QUANTUM_COUNT /\ WakelockMutexFree
        /\ refCount' = Minus(refCount, DroppedReferences)
        /\ UNCHANGED fmq
  /\ UNCHANGED <<initVars, postVars, scoped, expired, timedOut, pending, sizePending,
                 wakePc, got, frameworkVars>>

WrittenSize == Len(Chunk)

PendingPops ==
  /\ pendPc = "wrote" /\ pendPc' = "ready"
  /\ sizePending' = sizePending - WrittenSize
  /\ pending' = IF Len(Head(pending)) > QUANTUM_COUNT
                  THEN [pending EXCEPT ![1] = SubSeq(@, QUANTUM_COUNT + 1, Len(@))]
                  ELSE Tail(pending)
  /\ UNCHANGED <<initVars, postVars, wakeVars, fmq, wakePc, got, frameworkVars>>
-----------------------------------------------------------------------------
(***************************************************************************)
(* handleWakelocks                                                         *)
(***************************************************************************)
\* Every reference is dropped, and a ScopedWakelock from before is outdated.
resetSharedWakelock ==
  /\ refCount' = 0
  /\ scoped' = IF scoped = "live" THEN "stale" ELSE scoped

WakelockCheck ==
  /\ wakePc = "ready"
  /\ \/ /\ ~threadsRun
        /\ resetSharedWakelock /\ wakePc' = "exited" /\ UNCHANGED timedOut
     \/ /\ threadsRun /\ refCount = 0
        /\ wakePc' = "dozing" /\ UNCHANGED <<refCount, scoped, timedOut>>
     \/ /\ threadsRun /\ refCount > 0 /\ expired
        /\ resetSharedWakelock /\ timedOut' = TRUE /\ UNCHANGED wakePc
     \/ /\ threadsRun /\ refCount > 0 /\ ~expired
        /\ wakePc' = "reading" /\ UNCHANGED <<refCount, scoped, timedOut>>
  /\ UNCHANGED <<initVars, postVars, expired, fmq, pending, sizePending, pendPc, got,
                 frameworkVars>>

WakelockWaits ==
  /\ wakePc = "dozing" /\ wakePc' = "asleep"
  /\ UNCHANGED <<initVars, postVars, wakeVars, fmq, pending, sizePending, pendPc, got,
                 frameworkVars>>

\* readBlocking, without the lock: a count, or 100 ms have passed.
WakelockReads ==
  /\ wakePc = "reading"
  /\ IF acks # <<>>
     THEN wakePc' = "got" /\ got' = Head(acks) /\ acks' = Tail(acks)
     ELSE wakePc' = "ready" /\ UNCHANGED <<got, acks>>
  /\ UNCHANGED <<initVars, postVars, wakeVars, fmq, pending, sizePending, pendPc, unacked,
                 lastRead>>

WakelockAcknowledges ==
  /\ wakePc = "got" /\ wakePc' = "ready"
  /\ refCount' = Minus(refCount, Cardinality(got)) /\ got' = {}
  /\ UNCHANGED <<initVars, postVars, scoped, expired, timedOut, fmq, pending, sizePending,
                 pendPc, frameworkVars>>

TimeoutPasses ==
  /\ WAKELOCK_TIMEOUTS /\ refCount > 0 /\ expired' = TRUE
  /\ UNCHANGED <<initVars, postVars, scoped, refCount, timedOut, fmq, pending, sizePending,
                 pendPc, wakePc, got, frameworkVars>>
-----------------------------------------------------------------------------
(***************************************************************************)
(* initialize                                                              *)
(***************************************************************************)
initialize ==
  /\ initPc = "idle" /\ session < MAX_INITS /\ initPc' = "stop"
  /\ UNCHANGED <<threadsRun, session, subHalReady, postVars, wakeVars, fmq, pending,
                 sizePending, pendPc, wakePc, got, frameworkVars>>

\* Mutant: mThreadsRun is cleared without the mutexes.
StopAllowed_Unlocked == TRUE

StopAllowed == EventQueueWriteMutexFree /\ WakelockMutexFree

\* stopThreads, in three steps.
ClearThreadsRun ==
  /\ initPc = "stop" /\ StopAllowed
  /\ threadsRun' = FALSE /\ initPc' = "notify"
  /\ UNCHANGED <<session, subHalReady, postVars, wakeVars, fmq, pending, sizePending,
                 pendPc, wakePc, got, frameworkVars>>

NotifyThreads ==
  /\ initPc = "notify" /\ initPc' = "join"
  /\ pendPc' = Woken(pendPc) /\ wakePc' = Woken(wakePc)
  /\ UNCHANGED <<threadsRun, session, subHalReady, postVars, wakeVars, fmq, pending,
                 sizePending, got, frameworkVars>>

\* join both, then resetSharedWakelock.
JoinThreads ==
  /\ initPc = "join"
  /\ pendPc \in {"none", "exited"} /\ wakePc \in {"none", "exited"}
  /\ resetSharedWakelock
  /\ initPc' = "disable" /\ pendPc' = "none" /\ wakePc' = "none"
  /\ UNCHANGED <<threadsRun, session, subHalReady, postVars, expired, timedOut, fmq,
                 pending, sizePending, got, frameworkVars>>

\* disableAllSensors needs the sub-HAL mutex; then the pending queue is
\* emptied and the FMQs replaced, which fails if one of them is invalid.
disableAllSensors ==
  /\ initPc = "disable" /\ SubHalMutexFree
  /\ initPc' = "swap"
  /\ UNCHANGED <<threadsRun, session, subHalReady, postVars, wakeVars, fmq, pending,
                 sizePending, pendPc, wakePc, got, frameworkVars>>

SwapQueues ==
  /\ initPc = "swap"
  /\ session' = session + 1
  /\ fmq' = <<>> /\ pending' = <<>> /\ sizePending' = 0
  /\ acks' = <<>> /\ unacked' = {} /\ lastRead' = 0 /\ timedOut' = FALSE
  /\ initPc' \in {"idle", "subHal"}
  /\ UNCHANGED <<threadsRun, subHalReady, postVars, scoped, refCount, expired, pendPc,
                 wakePc, got>>

\* The sub-HAL's own initialize, which drops its callback first and may fail.
InitializeSubHal ==
  /\ initPc = "subHal" /\ SubHalMutexFree
  /\ \/ subHalReady' = TRUE /\ initPc' = "start"
     \/ subHalReady' = FALSE /\ initPc' = "idle"
  /\ UNCHANGED <<threadsRun, session, postVars, wakeVars, fmq, pending, sizePending,
                 pendPc, wakePc, got, frameworkVars>>

StartThreads ==
  /\ initPc = "start" /\ initPc' = "idle"
  /\ threadsRun' = TRUE /\ pendPc' = "ready" /\ wakePc' = "ready"
  /\ UNCHANGED <<session, subHalReady, postVars, wakeVars, fmq, pending, sizePending, got,
                 frameworkVars>>
-----------------------------------------------------------------------------
(***************************************************************************)
(* The framework (external)                                                *)
(***************************************************************************)
ReadEvent ==
  /\ fmq # <<>>
  /\ fmq' = Tail(fmq)
  /\ lastRead' = Head(fmq).id
  /\ unacked' = unacked \cup {e \in {Head(fmq)} : e.wake}
  /\ UNCHANGED <<initVars, postVars, wakeVars, pending, sizePending, pendPc, wakePc, got,
                 acks>>

Acknowledge ==
  /\ unacked # {}
  /\ acks' = Append(acks, unacked) /\ unacked' = {}
  /\ UNCHANGED <<initVars, postVars, wakeVars, fmq, pending, sizePending, pendPc, wakePc,
                 got, lastRead>>

PostThread == postEvents \/ postEventsToMessageQueue \/ releaseScopedWakelock
PendingThread == PendingCheck \/ PendingWaits \/ PendingWrites \/ PendingPops
WakelockThread == WakelockCheck \/ WakelockWaits \/ WakelockReads \/ WakelockAcknowledges
InitThread == \/ ClearThreadsRun \/ NotifyThreads \/ JoinThreads \/ disableAllSensors
              \/ SwapQueues \/ InitializeSubHal \/ StartThreads

Next == \/ \E b \in Batches : createScopedWakelock(b)
        \/ PostThread \/ PendingThread \/ WakelockThread \/ TimeoutPasses
        \/ initialize \/ InitThread
        \/ ReadEvent \/ Acknowledge

Spec == Init /\ [][Next]_vars

\* Threads run and get the mutexes they wait for.  The framework owes nothing.
FairSpec == /\ Spec
            /\ WF_vars(PendingThread) /\ WF_vars(WakelockThread)
            /\ WF_vars(PostThread) /\ SF_vars(InitThread)
-----------------------------------------------------------------------------
(***************************************************************************)
(* Properties                                                              *)
(***************************************************************************)
\* Events between the sub-HAL and the framework's acknowledgement.  A chunk
\* that was written or dropped is still at the head of the pending queue until
\* the thread has the lock again.
Settled == IF pendPc = "wrote" THEN Range(Chunk) ELSE {}
InTransit == Range(fmq) \cup (PendingEvents \ Settled) \cup unacked \cup got
               \cup UNION Range(acks)

\* The wake-up events among them, and the poster's own reference.
Outstanding == Cardinality({e \in InTransit : e.wake}) + ScopedReference

\* The device cannot suspend under an undelivered wake-up event, and no
\* reference leaks: through direct writes, queued remainders, overflow and
\* failed chunks the count is exactly what is outstanding, until the timeout
\* gives up on the framework.
WakelockBalanced == threadsRun /\ ~timedOut => refCount = Outstanding

\* Timeouts, late acknowledgements and stale ScopedWakelocks never leave more
\* references than there are events to acknowledge.
NoLeakedReference == refCount <= Outstanding

\* The framework sees events in the order the sub-HAL posted them, although
\* two threads write the FMQ.
DeliveredInOrder ==
  \A i \in DOMAIN fmq :
    /\ lastRead < fmq[i].id
    /\ \A j \in DOMAIN fmq : i < j => fmq[i].id < fmq[j].id

\* No event read for an earlier framework session enters the queues of a
\* later one.
NoStaleSession ==
  \A e \in Range(fmq) \cup PendingEvents : e.session = session

\* initialize always returns: both threads hear that they must stop.
InitializeReturns == initPc # "idle" ~> initPc = "idle"
=============================================================================
