---------------------------- MODULE RilShimProofs -----------------------------
(***************************************************************************)
(* Proofs about the RIL shim: the re-sender of the attach APN (AttachApn), *)
(* the search for the GOT slots (GotScan) and RIL_Init (ShimInit).         *)
(***************************************************************************)
EXTENDS AttachApn, ShimInit, FiniteSetTheorems, TLAPS

(***************************************************************************)
(* The re-sender, for any number of sockets and tokens, any interval and   *)
(* timeout, with the clock and memory failing or not                       *)
(***************************************************************************)
\* The limiter forgives no time that has not passed, and a wait without a
\* deadline is the clock's fault.
LimiterHonest ==
  /\ rateLeft + sinceAttempt >= MIN_INTERVAL
  /\ inFlight /\ deadline = NoDeadline => CLOCK_MAY_FAIL

\* The inductive invariant, whatever the vendor repeats; ReservedIffOwed joins
\* it for a vendor that completes a request once.
IInv == TypeOK /\ AwaitedIsOwed /\ LimiterHonest

\* The index of the next socket to scan from stays in range (iaWorker:1104).
LEMMA SocketAfterType == \A s \in Sockets : SocketAfter(s) \in Sockets
  BY ConstantsAssumption DEF SocketAfter, Sockets

LEMMA InitIInv == Init => IInv
<1> SUFFICES ASSUME Init PROVE IInv
  OBVIOUS
<1> USE ConstantsAssumption DEF Init
<1>a. 0 \in Sockets /\ 0 \in Tokens
  BY DEF Sockets, Tokens
<1>b. /\ pending \in [Sockets -> BOOLEAN]
      /\ outstanding \in [Tokens -> BOOLEAN]
  OBVIOUS
<1>c. /\ outgoing \in [socket : Sockets, apn : MaybeApn]
      /\ cache \in [Sockets -> MaybeApn] /\ framework \in [Sockets -> MaybeApn]
      /\ vendorApn \in [Sockets -> MaybeApn] /\ lastSet \in [Sockets -> MaybeApn]
      /\ held \in [Tokens -> Nat]
  BY <1>a DEF MaybeApn
<1>d. /\ deadline \in 0 .. INFLIGHT_TIMEOUT \cup {NoDeadline}
      /\ rateLeft \in 0 .. MIN_INTERVAL /\ sleepLeft \in 0 .. MIN_INTERVAL
      /\ sinceAttempt \in 0 .. MIN_INTERVAL
      /\ current \in Tokens /\ nextSocket \in Sockets
  BY <1>a
<1>1. TypeOK
  BY <1>b, <1>c, <1>d, Zenon DEF TypeOK
<1>2. AwaitedIsOwed /\ LimiterHonest
  BY DEF AwaitedIsOwed, LimiterHonest
<1> QED
  BY <1>1, <1>2 DEF IInv

\* Every step keeps the state well typed.
LEMMA StepTypeOK == TypeOK /\ [Next]_vars => TypeOK'
<1> SUFFICES ASSUME TypeOK, [Next]_vars PROVE TypeOK'
  OBVIOUS
<1> USE ConstantsAssumption DEF TypeOK, MaybeApn, NoDeadline, shimVars, workerVars, envVars
<1>1. ASSUME NEW s \in Sockets, NEW a \in Payloads, cacheInitialAttachApn(s, a)
      PROVE TypeOK'
  BY <1>1 DEF cacheInitialAttachApn
<1>2. ASSUME NEW s \in Sockets, forwardRequest(s) PROVE TypeOK'
  BY <1>2 DEF forwardRequest
<1>3. ASSUME NEW s \in Sockets, unsolHook(s) PROVE TypeOK'
  BY <1>3, Zenon DEF unsolHook, SignalWorker
<1>4. ASSUME NEW t \in Tokens, VendorCompletes(t) \/ VendorRepeats(t)
      PROVE TypeOK'
  <2>1. held' \in [Tokens -> Nat]
    BY <1>4 DEF VendorCompletes, VendorRepeats
  <2>2. outstanding' \in [Tokens -> BOOLEAN]
    BY <1>4, Zenon DEF VendorCompletes, VendorRepeats, completeHook, FreeToken
  <2>3. completeHook(t)
    BY <1>4 DEF VendorCompletes, VendorRepeats
  <2> QED
    BY <2>1, <2>2, <2>3, Zenon DEF completeHook, SignalWorker
<1>5. CASE AcquireLock \/ ReleaseWithoutDeadline \/ WaitForCompletion \/ WaitForReset
  BY <1>5, Zenon DEF AcquireLock, ReleaseWithoutDeadline, WaitForCompletion, WaitForReset
<1>6. CASE SleepForInterval \/ EndSleep
  BY <1>6 DEF SleepForInterval, EndSleep
<1>7. ASSUME NEW s \in Sockets, RejectReplay(s) \/ CopyFails(s) PROVE TypeOK'
  <2>1. CASE RejectReplay(s)
    BY <2>1 DEF RejectReplay, ChargeRateLimiter
  <2>2. CASE CopyFails(s)
    BY <2>2 DEF CopyFails, ChargeRateLimiter
  <2> QED
    BY <1>7, <2>1, <2>2
<1>8. ASSUME NEW s \in Sockets, NEW t \in Tokens, Issue(s, t) PROVE TypeOK'
  BY <1>8, SocketAfterType DEF Issue, ChargeRateLimiter
<1>9. CASE SendRequest
  BY <1>9 DEF SendRequest
<1>10. CASE TimedWaitExpires \/ SpuriousWakeup
  BY <1>10 DEF TimedWaitExpires, SpuriousWakeup, SignalWorker
<1>11. CASE AfterWait
  BY <1>11, Zenon DEF AfterWait, ReleaseSlot, KeepWaiting
<1>12. CASE Tick
  BY <1>12 DEF Tick
<1>13. CASE UNCHANGED vars
  BY <1>13 DEF vars
<1> QED
  BY <1>1, <1>2, <1>3, <1>4, <1>5, <1>6, <1>7, <1>8, <1>9, <1>10, <1>11, <1>12, <1>13, Zenon
     DEF Next, Worker

-----------------------------------------------------------------------------
\* A token moves from free to reserved to free only together with the vendor
\* request that carries it.
LEMMA StepReserved ==
  ASSUME MAX_HELD = 1
  PROVE  TypeOK /\ ReservedIffOwed /\ [Next]_vars => ReservedIffOwed'
<1> SUFFICES ASSUME TypeOK, ReservedIffOwed, [Next]_vars PROVE ReservedIffOwed'
  OBVIOUS
<1> USE DEF TypeOK, ReservedIffOwed, Requests, shimVars, workerVars, envVars
<1>1. ASSUME UNCHANGED <<held, outstanding, current>>,
             pc' = "send" <=> pc = "send"
      PROVE ReservedIffOwed'
  BY <1>1
<1>2. ASSUME NEW s \in Sockets, NEW a \in Payloads, cacheInitialAttachApn(s, a)
      PROVE ReservedIffOwed'
  BY <1>1, <1>2 DEF cacheInitialAttachApn
<1>3. ASSUME NEW s \in Sockets, forwardRequest(s) \/ unsolHook(s)
      PROVE ReservedIffOwed'
  BY <1>1, <1>3 DEF forwardRequest, unsolHook, SignalWorker
<1>4. ASSUME NEW t \in Tokens, VendorCompletes(t) PROVE ReservedIffOwed'
  <2>1. held[t] = 1 /\ ~(pc = "send" /\ current = t)
    BY <1>4 DEF VendorCompletes
  <2>2. UNCHANGED current /\ (pc' = "send" <=> pc = "send")
    BY <1>4 DEF VendorCompletes, completeHook, SignalWorker
  <2>3. /\ held' = [held EXCEPT ![t] = 0]
        /\ outstanding' = [outstanding EXCEPT ![t] = FALSE]
    BY <1>4, <2>1 DEF VendorCompletes, completeHook, FreeToken
  <2> QED
    BY <2>1, <2>2, <2>3
<1>5. ASSUME NEW t \in Tokens, VendorRepeats(t) PROVE ReservedIffOwed'
  <2>1. ~outstanding[t]
    BY <1>5 DEF VendorRepeats
  <2>2. UNCHANGED <<held, outstanding, current>>
    BY <1>5, <2>1 DEF VendorRepeats, completeHook, FreeToken
  <2> QED
    BY <1>1, <1>5, <2>2 DEF VendorRepeats, completeHook, SignalWorker
<1>6. CASE AcquireLock \/ ReleaseWithoutDeadline \/ WaitForCompletion
           \/ WaitForReset \/ SleepForInterval \/ EndSleep
  BY <1>1, <1>6, Zenon DEF AcquireLock, ReleaseWithoutDeadline, WaitForCompletion,
     WaitForReset, SleepForInterval, EndSleep, NoSlotWait
<1>7. ASSUME NEW s \in Sockets, RejectReplay(s) \/ CopyFails(s)
      PROVE ReservedIffOwed'
  BY <1>1, <1>7 DEF RejectReplay, CopyFails, MayAttempt, NoSlotWait
<1>8. ASSUME NEW s \in Sockets, NEW t \in Tokens, Issue(s, t)
      PROVE ReservedIffOwed'
  <2>1. held[t] = 0 /\ pc = "scan"
    BY <1>8 DEF Issue, MayAttempt, NoSlotWait, IsNextToken
  <2>2. /\ UNCHANGED held /\ pc' = "send" /\ current' = t
        /\ outstanding' = [outstanding EXCEPT ![t] = TRUE]
    BY <1>8 DEF Issue
  <2> QED
    BY <2>1, <2>2
<1>9. CASE SendRequest
  <2>1. /\ held' = [held EXCEPT ![current] = @ + 1] /\ pc = "send" /\ pc' = "top"
        /\ UNCHANGED <<outstanding, current>>
    BY <1>9 DEF SendRequest
  <2> QED
    BY <2>1
<1>10. CASE TimedWaitExpires \/ SpuriousWakeup
  BY <1>1, <1>10 DEF TimedWaitExpires, SpuriousWakeup, SignalWorker
<1>11. CASE AfterWait
  BY <1>1, <1>11 DEF AfterWait, ReleaseSlot, KeepWaiting
<1>12. CASE Tick \/ UNCHANGED vars
  BY <1>1, <1>12 DEF Tick, vars
<1> QED
  BY <1>2, <1>3, <1>4, <1>5, <1>6, <1>7, <1>8, <1>9, <1>10, <1>11, <1>12, Zenon
     DEF Next, Worker

\* The awaited request stays owed until its wait ends, and the limiter stays
\* honest.
LEMMA StepAwaited == IInv /\ [Next]_vars => AwaitedIsOwed' /\ LimiterHonest'
<1> SUFFICES ASSUME IInv, [Next]_vars PROVE AwaitedIsOwed' /\ LimiterHonest'
  OBVIOUS
<1> USE ConstantsAssumption DEF IInv, TypeOK, AwaitedIsOwed, LimiterHonest,
        NoDeadline, shimVars, workerVars, envVars
<1>1. ASSUME NEW s \in Sockets, NEW a \in Payloads, cacheInitialAttachApn(s, a)
      PROVE AwaitedIsOwed' /\ LimiterHonest'
  BY <1>1 DEF cacheInitialAttachApn
<1>2. ASSUME NEW s \in Sockets, forwardRequest(s) \/ unsolHook(s)
      PROVE AwaitedIsOwed' /\ LimiterHonest'
  BY <1>2 DEF forwardRequest, unsolHook, SignalWorker
<1>3. ASSUME NEW t \in Tokens, VendorCompletes(t) \/ VendorRepeats(t)
      PROVE AwaitedIsOwed' /\ LimiterHonest'
  <2>1. completeHook(t)
    BY <1>3, SMTT(30) DEF VendorCompletes, VendorRepeats
  <2> QED
    BY <2>1 DEF completeHook, FreeToken, IsCurrent, SignalWorker
<1>4. CASE AcquireLock \/ ReleaseWithoutDeadline \/ WaitForCompletion
           \/ WaitForReset \/ SleepForInterval \/ EndSleep
  BY <1>4 DEF AcquireLock, ReleaseWithoutDeadline, WaitForCompletion,
     WaitForReset, SleepForInterval, EndSleep
<1>5. ASSUME NEW s \in Sockets, RejectReplay(s) \/ CopyFails(s)
      PROVE AwaitedIsOwed' /\ LimiterHonest'
  BY <1>5 DEF RejectReplay, CopyFails, ChargeRateLimiter
<1>6. ASSUME NEW s \in Sockets, NEW t \in Tokens, Issue(s, t)
      PROVE AwaitedIsOwed' /\ LimiterHonest'
  BY <1>6 DEF Issue, ChargeRateLimiter
<1>7. CASE SendRequest
  BY <1>7 DEF SendRequest
<1>8. CASE TimedWaitExpires \/ SpuriousWakeup
  BY <1>8 DEF TimedWaitExpires, SpuriousWakeup, SignalWorker
<1>9. CASE AfterWait
  BY <1>9 DEF AfterWait, ReleaseSlot, KeepWaiting
<1>10. CASE Tick
  BY <1>10 DEF Tick
<1>11. CASE UNCHANGED vars
  BY <1>11 DEF vars
<1> QED
  BY <1>1, <1>2, <1>3, <1>4, <1>5, <1>6, <1>7, <1>8, <1>9, <1>10, <1>11, Zenon
     DEF Next, Worker

\* The inductive invariant holds always.
THEOREM Invariance == Spec => []IInv
<1>1. IInv /\ [Next]_vars => IInv'
  BY StepTypeOK, StepAwaited DEF IInv
<1> QED
  BY InitIInv, <1>1, PTL DEF Spec

\* The state of the re-sender is well typed for any pool and any sockets.
THEOREM TypeCorrect == Spec => []TypeOK
  BY Invariance, PTL DEF IInv

\* With a vendor that completes a request once, no two of its requests ever
\* share a synthetic token, and a token is free exactly when the vendor owes
\* nothing for it (completeHook, iaWorker).
THEOREM TokensNeverShared == ASSUME MAX_HELD = 1 PROVE Spec => []ReservedIffOwed
<1>1. Init => ReservedIffOwed
  BY ConstantsAssumption DEF Init, ReservedIffOwed, Requests, Tokens
<1>2. TypeOK /\ ReservedIffOwed /\ [Next]_vars => ReservedIffOwed'
  BY StepReserved
<1> QED
  BY <1>1, <1>2, TypeCorrect, PTL DEF Spec

\* Whatever the vendor repeats, the worker never waits for a token that a
\* completion has freed.
THEOREM AwaitedAlwaysOwed == Spec => []AwaitedIsOwed
  BY Invariance, PTL DEF IInv
-----------------------------------------------------------------------------
\* What the pool sees: the tokens with the vendor and the awaited one.
Leased == {t \in Tokens : Requests(t) > 0}
Awaited == IF inFlight THEN current ELSE NoToken

\* By ReservedIffOwed the leases are the reservation flags.
LEMMA LeasedIsReserved ==
  TypeOK /\ ReservedIffOwed => Leased = {t \in Tokens : outstanding[t]}
  BY SMTT(30) DEF TypeOK, ReservedIffOwed, Leased

\* Every step of the re-sender is a step of the pool or leaves it alone.
LEMMA StepPool ==
  ASSUME MAX_HELD = 1, TypeOK, ReservedIffOwed, TypeOK', ReservedIffOwed', [Next]_vars
  PROVE  [Pool!Next]_(Pool!vars)
<1> DEFINE L == {t \in Tokens : outstanding[t]}
<1>a. Leased = L /\ Leased' = L'
  <2>1. Leased = L
    BY LeasedIsReserved
  <2>2. Leased' = L'
    BY DEF TypeOK, ReservedIffOwed, Leased
  <2> QED
    BY <2>1, <2>2
<1>b. ASSUME \/ UNCHANGED <<Leased, Awaited>>
             \/ Awaited # NoToken /\ Awaited' = NoToken /\ UNCHANGED Leased
             \/ \E t \in Tokens : /\ Awaited = NoToken /\ t \notin Leased
                                  /\ Leased' = Leased \cup {t} /\ Awaited' = t
             \/ \E t \in Tokens : /\ t \in Leased /\ Leased' = Leased \ {t}
                                  /\ Awaited' = IF Awaited = t THEN NoToken ELSE Awaited
      PROVE [Pool!Next]_(Pool!vars)
  BY <1>b DEF Pool!Next, Pool!vars, Pool!GiveUp, Pool!Lease, Pool!Return, Leased, Awaited
<1> USE DEF TypeOK, Awaited, NoToken, Tokens, shimVars, workerVars, envVars
<1>c. ASSUME UNCHANGED <<outstanding, inFlight, current>>
      PROVE UNCHANGED <<Leased, Awaited>>
  BY <1>a, <1>c
<1>1. ASSUME NEW s \in Sockets, NEW a \in Payloads, cacheInitialAttachApn(s, a)
      PROVE [Pool!Next]_(Pool!vars)
  BY <1>1, <1>b, <1>c, Zenon DEF cacheInitialAttachApn
<1>2. ASSUME NEW s \in Sockets, forwardRequest(s) \/ unsolHook(s)
      PROVE [Pool!Next]_(Pool!vars)
  BY <1>2, <1>b, <1>c, Zenon DEF forwardRequest, unsolHook
<1>3. ASSUME NEW t \in Tokens, VendorCompletes(t) PROVE [Pool!Next]_(Pool!vars)
  <2>1. outstanding[t]
    <3>1. held[t] \in Nat /\ held[t] > 0
      BY <1>3, SMTT(30) DEF VendorCompletes
    <3>2. Requests(t) > 0
      BY <3>1 DEF Requests
    <3> QED
      BY <1>a, <3>2, Zenon DEF Leased
  <2>2. t \in Leased /\ Leased' = Leased \ {t}
    BY <1>3, <1>a, <2>1, Zenon DEF VendorCompletes, completeHook, FreeToken
  <2>3. Awaited' = IF Awaited = t THEN NoToken ELSE Awaited
    BY <1>3, <2>1, Zenon DEF VendorCompletes, completeHook, IsCurrent
  <2> QED
    BY <1>b, <2>2, <2>3, SMTT(30)
<1>4. ASSUME NEW t \in Tokens, VendorRepeats(t) PROVE [Pool!Next]_(Pool!vars)
  <2>1. ~outstanding[t]
    BY <1>4, SMTT(30) DEF VendorRepeats
  <2>2. UNCHANGED <<outstanding, inFlight, current>>
    BY <1>4, <2>1, Zenon DEF VendorRepeats, completeHook, FreeToken, IsCurrent
  <2> QED
    BY <1>b, <1>c, <2>2, Zenon
<1>5. CASE AcquireLock \/ WaitForCompletion \/ WaitForReset \/ SleepForInterval
           \/ EndSleep \/ SendRequest \/ TimedWaitExpires \/ SpuriousWakeup
  BY <1>5, <1>b, <1>c, Zenon DEF AcquireLock, WaitForCompletion, WaitForReset,
     SleepForInterval, EndSleep, SendRequest, TimedWaitExpires, SpuriousWakeup
<1>6. CASE ReleaseWithoutDeadline
  <2>1. Awaited # NoToken /\ Awaited' = NoToken /\ UNCHANGED Leased
    BY <1>6, <1>a DEF ReleaseWithoutDeadline
  <2> QED
    BY <1>b, <2>1
<1>7. ASSUME NEW s \in Sockets, RejectReplay(s) \/ CopyFails(s)
      PROVE [Pool!Next]_(Pool!vars)
  BY <1>7, <1>b, <1>c, Zenon DEF RejectReplay, CopyFails
<1>8. ASSUME NEW s \in Sockets, NEW t \in Tokens, Issue(s, t)
      PROVE [Pool!Next]_(Pool!vars)
  <2>1. t \notin Leased /\ Leased' = Leased \cup {t}
    BY <1>8, <1>a DEF Issue, IsNextToken
  <2>2. Awaited = NoToken /\ Awaited' = t
    BY <1>8, Zenon DEF Issue, MayAttempt, NoSlotWait
  <2> QED
    BY <1>b, <2>1, <2>2, Zenon
<1>9. CASE AfterWait
  <2>1. UNCHANGED Leased
    BY <1>9, <1>a, Zenon DEF AfterWait, ReleaseSlot, KeepWaiting
  <2>2. UNCHANGED Awaited \/ (Awaited # NoToken /\ Awaited' = NoToken)
    BY <1>9 DEF AfterWait, ReleaseSlot, KeepWaiting
  <2> QED
    BY <1>b, <2>1, <2>2, Zenon
<1>10. CASE Tick \/ UNCHANGED vars
  BY <1>10, <1>b, <1>c, Zenon DEF Tick, vars
<1> QED
  BY <1>1, <1>2, <1>3, <1>4, <1>5, <1>6, <1>7, <1>8, <1>9, <1>10, SMTT(30) DEF Next, Worker

\* With a vendor that completes a request once, the re-sender implements the
\* lease pool: single flight, one request per token, and a wait that only its
\* own completion or giving up can end.
THEOREM ImplementsPool == ASSUME MAX_HELD = 1 PROVE Spec => PoolSpec
<1>1. Init => Pool!Init
  BY DEF Init, Pool!Init, Requests, Tokens
<1>2. TypeOK /\ ReservedIffOwed /\ TypeOK' /\ ReservedIffOwed' /\ [Next]_vars
        => [Pool!Next]_(Pool!vars)
  BY StepPool
<1>3. Spec => []ReservedIffOwed
  BY TokensNeverShared
<1> QED
  BY <1>1, <1>2, <1>3, TypeCorrect, PTL DEF Spec, PoolSpec, Pool!Spec

\* No failure of the clock, of memory or of the token pool makes the worker
\* retry sooner than one interval after its last charged attempt.
THEOREM WorkerNeverSpins == Spec => AttemptsSpaced
<1>1. IInv /\ [Next]_vars
        => [pc = "scan" /\ pc' \in {"top", "send"} => sinceAttempt = MIN_INTERVAL]_vars
  <2> SUFFICES ASSUME IInv, Next, pc = "scan", pc' \in {"top", "send"}
               PROVE sinceAttempt = MIN_INTERVAL
    OBVIOUS
  <2>1. rateLeft = 0
    BY Zenon DEF Next, Worker, cacheInitialAttachApn, forwardRequest, unsolHook, LockFree,
       VendorCompletes, VendorRepeats, completeHook, AcquireLock, workerVars, shimVars,
       ReleaseWithoutDeadline, WaitForCompletion, WaitForReset, SleepForInterval,
       EndSleep, RejectReplay, CopyFails, Issue, MayAttempt, SendRequest,
       TimedWaitExpires, SpuriousWakeup, AfterWait, Tick
  <2> QED
    BY <2>1, ConstantsAssumption DEF IInv, TypeOK, LimiterHonest
<1> QED
  BY <1>1, Invariance, PTL DEF Spec, AttemptsSpaced

\* With a working clock a wait is abandoned only when its latched deadline has
\* passed: neither a late or repeated completion nor a storm of indications
\* shortens it.
THEOREM WaitsRunTheirCourse == Spec => GiveUpOnlyWhenExpired
<1>1. IInv /\ [Next]_vars
        => [inFlight /\ ~inFlight' /\ outstanding'[current]
              => deadline = 0 \/ CLOCK_MAY_FAIL]_vars
  <2> SUFFICES ASSUME IInv, Next, inFlight, ~inFlight', outstanding'[current]
               PROVE deadline = 0 \/ CLOCK_MAY_FAIL
    OBVIOUS
  <2> USE DEF IInv, TypeOK, LimiterHonest, shimVars, workerVars, envVars
  <2>1. ASSUME NEW t \in Tokens, VendorCompletes(t) \/ VendorRepeats(t)
        PROVE FALSE
    BY <2>1, Zenon DEF VendorCompletes, VendorRepeats, completeHook, FreeToken, IsCurrent
  <2>2. CASE AfterWait \/ ReleaseWithoutDeadline
    BY <2>2, ZenonT(30) DEF AfterWait, KeepWaiting, ReleaseWithoutDeadline
  <2> QED
    BY <2>1, <2>2, Zenon DEF Next, Worker, cacheInitialAttachApn, forwardRequest, unsolHook,
       AcquireLock, WaitForCompletion, WaitForReset, SleepForInterval, EndSleep,
       RejectReplay, CopyFails, Issue, MayAttempt, NoSlotWait, SendRequest,
       TimedWaitExpires, SpuriousWakeup, Tick
<1> QED
  BY <1>1, Invariance, PTL DEF Spec, GiveUpOnlyWhenExpired
-----------------------------------------------------------------------------
(***************************************************************************)
(* The search for the GOT slots stays inside the library, for every width  *)
(* of an address, every size of the ELF structures and every image.        *)
(***************************************************************************)
\* The checks before each addition of inModule rule out the wrap-around, and the
\* ones after it are those of the range.
LEMMA InModuleExact ==
  ASSUME NEW img \in Image, NEW addr \in Word, NEW len \in Nat
  PROVE  inModule(img, addr, len) <=> Inside(img, addr, len)
<1> DEFINE Holds(ph) == /\ ph.vaddr <= UINTPTR_MAX - img.base
                        /\ ph.memsz <= UINTPTR_MAX - Plus(img.base, ph.vaddr)
                        /\ Plus(img.base, ph.vaddr) <= addr
                        /\ addr <= Plus(Plus(img.base, ph.vaddr), ph.memsz)
                        /\ len <= Plus(Plus(img.base, ph.vaddr), ph.memsz) - addr
           Contains(ph) == /\ img.base + ph.vaddr + ph.memsz <= UINTPTR_MAX
                           /\ img.base + ph.vaddr <= addr
                           /\ addr + len <= img.base + ph.vaddr + ph.memsz
<1>1. ASSUME NEW ph \in img.loads
      PROVE  Holds(ph) <=> Contains(ph)
  <2>1. img.base \in Word /\ ph.vaddr \in Word /\ ph.memsz \in Word
    BY <1>1, SMTT(30) DEF Image, Segment
  <2> QED
    BY <2>1, SizesAssumption DEF Plus, Word
<1>2. inModule(img, addr, len) <=> \E ph \in img.loads : Holds(ph)
  BY DEF inModule
<1>3. Inside(img, addr, len) <=> \E ph \in img.loads : Contains(ph)
  BY DEF Inside
<1> HIDE DEF Holds, Contains
<1> QED
  BY <1>1, <1>2, <1>3

\* A pointer that resolves is a word, and what it points at is in the library.
LEMMA ResolvedInside ==
  ASSUME NEW img \in Image, NEW value \in Word, NEW len \in Nat,
         resolveDynPtr(img, value, len) # 0
  PROVE  /\ resolveDynPtr(img, value, len) \in Word
         /\ Inside(img, resolveDynPtr(img, value, len), len)
<1>1. img.base \in Word
  BY DEF Image
<1>2. Plus(img.base, value) \in Word
  BY <1>1, SizesAssumption DEF Plus, Word
<1>3. CASE value <= UINTPTR_MAX - img.base /\ inModule(img, Plus(img.base, value), len)
  <2>1. resolveDynPtr(img, value, len) = Plus(img.base, value)
    BY <1>3 DEF resolveDynPtr
  <2> QED
    BY <1>2, <1>3, <2>1, InModuleExact
<1>4. CASE ~(value <= UINTPTR_MAX - img.base /\ inModule(img, Plus(img.base, value), len))
  <2>1. inModule(img, value, len) /\ resolveDynPtr(img, value, len) = value
    BY <1>4 DEF resolveDynPtr
  <2> QED
    BY <2>1, InModuleExact
<1> QED
  BY <1>3, <1>4

\* A table of whole entries that lies in the library holds each of them.
LEMMA EntryInside ==
  ASSUME NEW img \in Image, NEW size \in Nat, NEW at \in Nat, NEW count \in Nat,
         NEW len \in Nat, count * size <= len, Inside(img, at, len), NEW i \in 0 .. count - 1
  PROVE  Inside(img, at + i * size, size)
<1>1. PICK ph \in img.loads :
        /\ img.base + ph.vaddr + ph.memsz <= UINTPTR_MAX
        /\ img.base + ph.vaddr <= at
        /\ at + len <= img.base + ph.vaddr + ph.memsz
  BY DEF Inside
<1>2. img.base \in Nat /\ ph.vaddr \in Nat /\ ph.memsz \in Nat
  BY <1>1, SizesAssumption DEF Image, Segment, Word
<1>3. PICK rest \in Nat : count = i + 1 + rest
  <2>1. count - (i + 1) \in Nat
    OBVIOUS
  <2> QED
    BY <2>1
<1>4. /\ i * size \in Nat /\ rest * size \in Nat
      /\ count * size = i * size + size + rest * size
  BY <1>2, <1>3
<1>5. /\ img.base + ph.vaddr <= at + i * size
      /\ (at + i * size) + size <= img.base + ph.vaddr + ph.memsz
  BY <1>1, <1>2, <1>4
<1> QED
  BY <1>1, <1>5 DEF Inside

\* The walk of a dynamic section that the loader mapped with its DT_NULL stays
\* in it: the loop of gotScanCallback reads no entry behind that one.
LEMMA WalkInside ==
  ASSUME NEW img \in Image, DynamicMapped(img), NEW k \in Walked(img)
  PROVE  Inside(img, dynAddr(img, k), DYN_SIZE)
<1> DEFINE at == img.base + img.section.vaddr
<1>1. PICK n \in Word : (n + 1) * DYN_SIZE <= img.section.memsz /\ img.dyn[n].tag = "NULL"
  BY DEF DynamicMapped
<1>2. /\ Inside(img, at, img.section.memsz) /\ img.section.memsz \in Nat /\ at \in Nat
      /\ DYN_SIZE \in Nat /\ UINTPTR_MAX \in Nat
  BY SizesAssumption, SMTT(30) DEF DynamicMapped, Image, Segment, Word
<1>3. k \in Nat /\ n \in Nat /\ k <= n
  <2>1. k \in Nat /\ n \in Nat
    BY <1>2 DEF Walked, Word
  <2>2. \A j \in 0 .. k - 1 : ~EndsWalk(img.dyn[j])
    BY DEF Walked
  <2>3. EndsWalk(img.dyn[n])
    BY <1>1 DEF EndsWalk
  <2> QED
    BY <2>1, <2>2, <2>3
<1>4. k \in 0 .. (n + 1) - 1 /\ n + 1 \in Nat
  BY <1>3
<1>5. Plus(img.base, img.section.vaddr) = at
  <2>1. PICK ph \in img.loads : /\ img.base + ph.vaddr + ph.memsz <= UINTPTR_MAX
                                /\ at + img.section.memsz <= img.base + ph.vaddr + ph.memsz
    BY <1>2 DEF Inside
  <2>2. img.base \in Nat /\ ph.vaddr \in Nat /\ ph.memsz \in Nat
    BY <2>1, <1>2, SMTT(30) DEF Image, Segment, Word
  <2>3. at <= UINTPTR_MAX
    BY <1>2, <2>1, <2>2
  <2> QED
    BY <2>3 DEF Plus
<1> HIDE DEF at
<1>6. Inside(img, at + k * DYN_SIZE, DYN_SIZE)
  BY <1>1, <1>2, <1>4, EntryInside, Zenon
<1> QED
  BY <1>5, <1>6 DEF dynAddr

\* What the walk leaves in a variable is the word of an entry, or zero.
LEMMA ValueType == ASSUME NEW img \in Image, NEW tag \in Tags PROVE Value(img, tag) \in Word
<1>1. CASE Last(img, tag) = {}
  BY <1>1, SizesAssumption DEF Value, Word
<1>2. CASE Last(img, tag) # {}
  <2>1. PICK k \in Last(img, tag) : Value(img, tag) = img.dyn[k].value
    BY <1>2, Zenon DEF Value
  <2>2. k \in Word
    BY <2>1 DEF Last, Walked
  <2> QED
    BY <2>1, <2>2 DEF Image, Dyn
<1> QED
  BY <1>1, <1>2

\* gotScanCallback and findGotEntry follow no pointer of the dynamic section out
\* of the library, whatever its headers and tables say, and wherever the walk
\* of the section found that pointer: every relocation, symbol, name and GOT
\* word they read lies in one of its segments, with no address wrapped around.
\* The walk itself is checked by nothing; it stays inside if the section and a
\* DT_NULL in it do.
THEOREM ScanStaysInside ==
  ASSUME NEW img \in Image
  PROVE  ReadsInside(img)
<1> SUFFICES ASSUME gotScanCallback(img), NEW i \in Indices(img)
             PROVE  /\ Inside(img, relaAddr(img, i), RELA_SIZE)
                    /\ SymbolRead(img, i) => Inside(img, symAddr(img, i), SYM_SIZE)
                    /\ NameRead(img, i) => Inside(img, nameAddr(img, i), NAME_SIZE)
                    /\ SlotRead(img, i) => Inside(img, slotAddr(img, i), POINTER_SIZE)
  BY WalkInside, Zenon DEF ReadsInside
<1> DEFINE symbol == img.relocation[i].symbol
<1>1. /\ img.base \in Word /\ Value(img, "JMPREL") \in Word /\ Value(img, "SYMTAB") \in Word
      /\ Value(img, "STRTAB") \in Word /\ pltrelsz(img) \in Word /\ pltrelsz(img) \in Nat
  <2>1. \A tag \in Tags : Value(img, tag) \in Word
    BY ValueType
  <2> QED
    BY <2>1 DEF Image, Word, Tags, pltrelsz
<1>2. /\ {RELA_SIZE, SYM_SIZE, NAME_SIZE, POINTER_SIZE} \subseteq Nat \ {0}
      /\ UINTPTR_MAX \in Nat
  BY SizesAssumption, Zenon
<1>3. /\ jmprel(img) \in Word /\ Inside(img, jmprel(img), pltrelsz(img))
      /\ symtab(img) \in Word /\ strtab(img) \in Word
  BY <1>1, <1>2, ResolvedInside, SMTT(30) DEF gotScanCallback, jmprel, symtab, strtab
<1>4. /\ jmprelCount(img) \in Nat /\ i \in 0 .. jmprelCount(img) - 1
      /\ pltrelsz(img) = jmprelCount(img) * RELA_SIZE
  BY <1>1, <1>2 DEF gotScanCallback, jmprelCount, Indices
<1>5. Inside(img, relaAddr(img, i), RELA_SIZE)
  <2>1. jmprel(img) \in Nat /\ RELA_SIZE \in Nat /\ jmprelCount(img) * RELA_SIZE <= pltrelsz(img)
    BY <1>1, <1>2, <1>3, <1>4 DEF Word
  <2> QED
    BY <1>1, <1>3, <1>4, <2>1, EntryInside, Zenon DEF relaAddr
<1>6. i \in Word
  <2>1. PICK more \in Nat : RELA_SIZE = more + 1
    <3>1. RELA_SIZE - 1 \in Nat
      BY <1>2
    <3> QED
      BY <1>2, <3>1
  <2>2. /\ jmprelCount(img) * more \in Nat
        /\ jmprelCount(img) * RELA_SIZE = jmprelCount(img) * more + jmprelCount(img)
    BY <1>4, <2>1
  <2>3. pltrelsz(img) <= UINTPTR_MAX
    BY <1>1, <1>2 DEF Word
  <2> QED
    BY <1>2, <1>4, <2>2, <2>3 DEF Word
<1>7. symbol \in Word /\ img.relocation[i].offset \in Word
  BY <1>6 DEF Image, Relocation
<1>8. img.st_name[symbol] \in Word
  BY <1>7, Zenon DEF Image
<1>9. (symbol * SYM_SIZE) % (UINTPTR_MAX + 1) \in Word
  <2>1. symbol * SYM_SIZE \in Nat
    BY <1>2, <1>7 DEF Word
  <2>2. \A n \in Nat : n % (UINTPTR_MAX + 1) \in Word
    BY <1>2 DEF Word
  <2> QED
    BY <2>1, <2>2
<1>10. \A a, b \in Word : Plus(a, b) \in Word
  BY <1>2 DEF Plus, Word
<1>11. symAddr(img, i) \in Word /\ nameAddr(img, i) \in Word /\ slotAddr(img, i) \in Word
  BY <1>1, <1>3, <1>7, <1>8, <1>9, <1>10, Zenon DEF symAddr, nameAddr, slotAddr
<1>12. SymbolRead(img, i) => Inside(img, symAddr(img, i), SYM_SIZE)
  BY <1>2, <1>11, InModuleExact, Zenon DEF SymbolRead
<1>13. NameRead(img, i) => Inside(img, nameAddr(img, i), NAME_SIZE)
  BY <1>2, <1>11, InModuleExact, Zenon DEF NameRead
<1>14. SlotRead(img, i) => Inside(img, slotAddr(img, i), POINTER_SIZE)
  BY <1>2, <1>11, InModuleExact DEF SlotRead
<1> QED
  BY <1>5, <1>12, <1>13, <1>14
-----------------------------------------------------------------------------
(***************************************************************************)
(* The transaction on the GOT slots, for any images the loader may have    *)
(* mapped and any number of calls of RIL_Init                              *)
(***************************************************************************)
\* Where the transaction on the two slots is under way.
Transaction == Writes \cup {"verifyInstall", "startWorker", "verifyRollback"}

Originals == {"vendor", "foreign"}

\* From before the first store to the end both originals are on record, and so
\* they are wherever a hook can still be reached.
HookInv ==
  /\ slot \in [Entries -> Functions] /\ target \in [Entries -> Functions \cup {"none"}]
  /\ rilPc \in Transaction =>
       \A e \in Entries : original[e] \in Originals /\ published[e] \in Originals
  /\ HooksCanForward

LEMMA EntryType ==
  \A w : EntryOf(w) \in Entries
  BY DEF EntryOf, Entries, Symbols

\* writeGotValue returns to a step of the transaction, and not to its last one.
LEMMA WriteReturns ==
  ASSUME NEW w \in Writes, NEW success \in BOOLEAN, AfterWrite(w, success)
  PROVE  rilPc' \in Transaction \ {"startWorker"}
<1>1. RollbackComplete \in Transaction \ {"startWorker"}
  BY DEF RollbackComplete, Transaction, Writes
<1>2. CASE w = "installUnsol"
  BY <1>1, <1>2 DEF AfterWrite, Installs, Transaction, Writes
<1>3. CASE w = "installComplete"
  BY <1>1, <1>3 DEF AfterWrite, Installs, Transaction, Writes
<1>4. CASE w = "rollbackComplete"
  BY <1>4 DEF AfterWrite, Installs, Transaction, Writes
<1>5. CASE w = "rollbackUnsol"
  BY <1>5 DEF AfterWrite, Installs, Transaction, Writes
<1> QED
  BY <1>2, <1>3, <1>4, <1>5 DEF Writes

\* A step that leaves the slots and the originals alone, and is in the
\* transaction only if it was there before.
LEMMA HookFrame ==
  ASSUME HookInv, UNCHANGED <<slot, target, original, published>>,
         rilPc' \in Transaction => rilPc \in Transaction
  PROVE  HookInv'
  BY DEF HookInv, HooksCanForward

LEMMA InitHook == RilInit => HookInv
  BY DEF RilInit, HookInv, HooksCanForward, Functions, Transaction, Writes

LEMMA InstallHook ==
  ASSUME HookInv, installAttachApnHooks
  PROVE  HookInv'
<1>1. UNCHANGED <<slot, target>>
  BY DEF installAttachApnHooks, vendorVars
<1>2. CASE UNCHANGED <<original, published>> /\ rilPc' = "out"
  BY <1>1, <1>2, HookFrame DEF Transaction, Writes
<1>3. CASE /\ \A e \in Entries : slot[e] # "hook"
           /\ original' = [e \in Entries |-> slot[e]] /\ Publish
  <2>1. \A e \in Entries : original'[e] \in Originals /\ published'[e] \in Originals
    BY <1>3 DEF HookInv, Publish, Functions, Originals
  <2> QED
    BY <1>1, <2>1, Zenon DEF HookInv, HooksCanForward, Originals
<1> QED
  BY <1>2, <1>3, Zenon DEF installAttachApnHooks, Return

LEMMA StoreHook ==
  ASSUME HookInv, NEW w \in Writes, storeSlot(w)
  PROVE  HookInv'
<1>1. /\ rilPc \in Transaction /\ UNCHANGED <<rilPc, target, original, published>>
      /\ slot' = [slot EXCEPT ![EntryOf(w)] = IF Publishable(w) THEN Desired(w) ELSE @]
  BY DEF storeSlot, vendorVars, Transaction
<1>2. Desired(w) \in Functions
  BY <1>1, EntryType, Zenon DEF HookInv, Desired, Functions, Originals
<1>3. slot' \in [Entries -> Functions]
  BY <1>1, <1>2, EntryType, Zenon DEF HookInv
<1>4. \A e \in Entries : published'[e] \in Originals
  BY <1>1, Zenon DEF HookInv
<1> QED
  BY <1>1, <1>3, <1>4, Zenon DEF HookInv, HooksCanForward, Originals

LEMMA WriteHook ==
  ASSUME HookInv, NEW w \in Writes,
         makeWritable(w) \/ restoreProtection(w) \/ verifyWrite(w)
  PROVE  HookInv'
<1>1. UNCHANGED <<slot, target, original, published>> /\ rilPc \in Transaction
  BY Zenon DEF makeWritable, restoreProtection, verifyWrite, vendorVars, gotVars, Transaction
<1> QED
  BY <1>1, HookFrame

LEMMA NextHook == HookInv /\ [RilNext]_rilVars => HookInv'
<1> SUFFICES ASSUME HookInv, [RilNext]_rilVars PROVE HookInv'
  OBVIOUS
<1>1. CASE UNCHANGED rilVars
  BY <1>1, HookFrame DEF rilVars, gotVars, vendorVars
<1>2. CASE RIL_Init \/ openRealRil \/ patchOnRequest \/ storeTable
  <2>1. UNCHANGED <<slot, target, original, published>>
    BY <1>2, Zenon DEF RIL_Init, openRealRil, patchOnRequest, storeTable, gotVars, vendorVars
  <2>2. rilPc' \notin Transaction
    BY <1>2, Zenon DEF RIL_Init, openRealRil, patchOnRequest, storeTable, AfterFailedPatch, Return,
                Transaction, Writes
  <2> QED
    BY <2>1, <2>2, HookFrame
<1>3. CASE installAttachApnHooks
  BY <1>3, InstallHook
<1>4. CASE verifyInstall \/ startIaWorker \/ rollbackGotHooks
  <2>1. UNCHANGED <<slot, target, original, published>> /\ rilPc \in Transaction
    BY <1>4 DEF verifyInstall, startIaWorker, rollbackGotHooks, gotVars, vendorVars, Transaction
  <2> QED
    BY <2>1, HookFrame
<1>5. ASSUME NEW w \in Writes, makeWritable(w) \/ restoreProtection(w) \/ verifyWrite(w)
      PROVE  HookInv'
  BY <1>5, WriteHook
<1>6. ASSUME NEW w \in Writes, storeSlot(w)
      PROVE  HookInv'
  BY <1>6, StoreHook
<1>7. ASSUME NEW e \in Entries, VendorLoads(e)
      PROVE  HookInv'
  <2>1. UNCHANGED <<rilPc, slot, original, published>> /\ target' = [target EXCEPT ![e] = slot[e]]
    BY <1>7, SMTT(30) DEF VendorLoads, gotVars
  <2> QED
    BY <2>1, Zenon DEF HookInv, HooksCanForward
<1>8. ASSUME NEW e \in Entries, VendorCalls(e)
      PROVE  HookInv'
  <2>1. UNCHANGED <<rilPc, slot, original, published>> /\ target' = [target EXCEPT ![e] = "none"]
    BY <1>8 DEF VendorCalls, gotVars
  <2> QED
    BY <2>1 DEF HookInv, HooksCanForward
<1>9. ASSUME NEW e \in Entries, ForeignWrites(e)
      PROVE  HookInv'
  <2>1. /\ UNCHANGED <<rilPc, target, original, published>>
        /\ slot' = [slot EXCEPT ![e] = "foreign"]
    BY <1>9 DEF ForeignWrites, vendorVars
  <2> QED
    BY <2>1 DEF HookInv, HooksCanForward, Functions
<1> QED
  BY <1>1, <1>2, <1>3, <1>4, <1>5, <1>6, <1>7, <1>8, <1>9 DEF RilNext, InitThread

\* A vendor thread in one of the hooks can always forward its call, whatever
\* step of the installation or of the roll-back it overlaps and whichever
\* system call fails, for any library and any number of calls of RIL_Init.
THEOREM HooksAlwaysForward == RilSpec => []HooksCanForward
<1>1. HookInv => HooksCanForward
  BY DEF HookInv
<1> QED
  BY <1>1, InitHook, NextHook, PTL DEF RilSpec
-----------------------------------------------------------------------------
\* What each point of RIL_Init knows of the vendor's table.
TableInv ==
  /\ rilPc \in {"out", "open", "patch", "storeTable", "install"} \cup Transaction
  /\ IF patched THEN table = "shim" ELSE table = "blob"
  /\ rilPc \in {"open", "patch", "storeTable"} => ~patched
  /\ rilPc \in {"install"} \cup Transaction => patched
  /\ rilPc = "storeTable" => realOnRequest = "blob"
  /\ DispatchReachesVendor

LEMMA InitTable == RilInit => TableInv
  BY DEF RilInit, TableInv, DispatchReachesVendor, Transaction, Writes

\* A step inside the transaction, or out of it with the table.
LEMMA TableFrame ==
  ASSUME TableInv, rilPc \in {"install"} \cup Transaction,
         UNCHANGED <<table, realOnRequest, patched>>,
         (rilPc' \in Transaction /\ UNCHANGED result) \/ (rilPc' = "out" /\ result' = "table")
  PROVE  TableInv'
  BY DEF TableInv, DispatchReachesVendor, Transaction, Writes

LEMMA NextTable == TableInv /\ [RilNext]_rilVars => TableInv'
<1> SUFFICES ASSUME TableInv, [RilNext]_rilVars PROVE TableInv'
  OBVIOUS
<1>1. CASE UNCHANGED <<rilPc, table, realOnRequest, patched, result>>
  BY <1>1 DEF TableInv, DispatchReachesVendor
<1>2. CASE RIL_Init
  BY <1>2, SMTT(30) DEF RIL_Init, AlreadyPatched, Return, TableInv, DispatchReachesVendor, Transaction,
              Writes
<1>3. CASE openRealRil
  BY <1>3 DEF openRealRil, Return, TableInv, DispatchReachesVendor, Transaction, Writes
<1>4. CASE patchOnRequest
  BY <1>4 DEF patchOnRequest, CaptureOriginal, Return, TableInv, DispatchReachesVendor,
              Transaction, Writes
<1>5. CASE storeTable
  BY <1>5 DEF storeTable, AfterFailedPatch, Return, TableInv, DispatchReachesVendor,
              Transaction, Writes
<1>6. CASE installAttachApnHooks
  <2>1. /\ rilPc = "install" /\ UNCHANGED <<table, realOnRequest, patched>>
        /\ (rilPc' = "installUnsol" /\ UNCHANGED result) \/ (rilPc' = "out" /\ result' = "table")
    BY <1>6, Zenon DEF installAttachApnHooks, Return
  <2> QED
    BY <2>1, TableFrame DEF Transaction, Writes
<1>7. CASE verifyInstall \/ startIaWorker \/ rollbackGotHooks
  <2>1. RollbackComplete \in Transaction
    BY DEF RollbackComplete, Transaction, Writes
  <2>2. /\ rilPc \in Transaction /\ UNCHANGED <<table, realOnRequest, patched>>
        /\ \/ rilPc' \in {"startWorker", RollbackComplete} /\ UNCHANGED result
           \/ rilPc' = "out" /\ result' = "table"
    BY <1>7 DEF verifyInstall, startIaWorker, rollbackGotHooks, AfterNoWorker, Return, initVars,
                Transaction
  <2> QED
    BY <2>1, <2>2, TableFrame DEF Transaction
<1>8. ASSUME NEW w \in Writes,
             makeWritable(w) \/ storeSlot(w) \/ restoreProtection(w) \/ verifyWrite(w)
      PROVE  TableInv'
  <2>1. /\ rilPc \in Transaction /\ UNCHANGED <<table, realOnRequest, patched, result>>
        /\ rilPc' = rilPc \/ AfterWrite(w, TRUE) \/ AfterWrite(w, FALSE)
    BY <1>8, Zenon DEF makeWritable, storeSlot, restoreProtection, verifyWrite, initVars, Transaction
  <2>2. rilPc' \in Transaction
    BY <2>1, WriteReturns, Zenon
  <2> QED
    BY <2>1, <2>2, TableFrame
<1>9. CASE \E e \in Entries : VendorLoads(e) \/ VendorCalls(e) \/ ForeignWrites(e)
  BY <1>1, <1>9, Zenon DEF VendorLoads, VendorCalls, ForeignWrites, initVars
<1> QED
  BY <1>1, <1>2, <1>3, <1>4, <1>5, <1>6, <1>7, <1>8, <1>9, SMTT(30) DEF RilNext, InitThread, rilVars, initVars

\* The patched table always has the vendor's function to go to, and RIL_Init
\* hands out a table only with the shim in it, however often it is called.
THEOREM TablePatchFailsClosed == RilSpec => []DispatchReachesVendor
<1>1. TableInv => DispatchReachesVendor
  BY DEF TableInv
<1> QED
  BY <1>1, InitTable, NextTable, PTL DEF RilSpec
-----------------------------------------------------------------------------
Restored(e) == prot[Page(e)] = Protection
Untouched == \A e \in Entries : slot[e] # "hook" /\ Restored(e)
Covered == \A e \in Entries : slot[e] # "vendor" /\ Restored(e)

\* What the state of the hooks says at each point.
OutcomeInv ==
  /\ hookState \in {"DISABLED", "INSTALLING", "ACTIVE", "FAILED"}
  /\ rilPc \in Transaction <=> hookState = "INSTALLING"
  /\ hookState # "DISABLED" => patched
  /\ hookState = "DISABLED" => Untouched
  /\ rilPc = "startWorker" \/ hookState = "ACTIVE" => Covered
  /\ hookState = "ACTIVE" => worker

Inv == HookInv /\ TableInv /\ OutcomeInv

LEMMA InitOutcome == RilInit => OutcomeInv
<1> SUFFICES ASSUME RilInit PROVE OutcomeInv
  OBVIOUS
<1>1. \A e \in Entries : Restored(e)
  BY DEF RilInit, Restored, Pages
<1> QED
  BY <1>1 DEF RilInit, OutcomeInv, Untouched, Transaction, Writes

\* The slots and their pages are as they were.
LEMMA SlotsFrame ==
  ASSUME UNCHANGED <<slot, prot, image>>
  PROVE  Untouched' = Untouched /\ Covered' = Covered
  BY DEF Untouched, Covered, Restored, Page, Protection, image

LEMMA NextOutcome == Inv /\ [RilNext]_rilVars => OutcomeInv'
<1> SUFFICES ASSUME Inv, [RilNext]_rilVars PROVE OutcomeInv'
  OBVIOUS
<1> USE DEF Inv
<1>1. CASE UNCHANGED <<rilPc, hookState, patched, worker, slot, prot, image>>
  BY <1>1, SlotsFrame DEF OutcomeInv
<1>2. CASE RIL_Init \/ openRealRil \/ patchOnRequest \/ storeTable
  <2>1. UNCHANGED <<hookState, worker, slot, prot, image>>
    BY <1>2, Zenon DEF RIL_Init, openRealRil, patchOnRequest, storeTable, gotVars
  <2>2. rilPc \notin Transaction /\ rilPc' \notin Transaction
    BY <1>2, Zenon DEF RIL_Init, openRealRil, patchOnRequest, storeTable, AfterFailedPatch, Return,
                Transaction, Writes
  <2>3. patched => patched'
    BY <1>2, Zenon DEF RIL_Init, openRealRil, patchOnRequest, storeTable, AfterFailedPatch
  <2>4. rilPc' # "startWorker"
    BY <2>2 DEF Transaction
  <2> QED
    BY <2>1, <2>2, <2>3, <2>4, SlotsFrame, Zenon DEF OutcomeInv
<1>3. CASE installAttachApnHooks
  <2>1. /\ rilPc = "install" /\ hookState = "DISABLED" /\ UNCHANGED <<patched, worker, slot, prot>>
        /\ UNCHANGED <<samePage, readonly>>
        /\ \/ rilPc' = "out" /\ UNCHANGED hookState
           \/ rilPc' = "installUnsol" /\ hookState' = "INSTALLING"
    BY <1>3, Zenon DEF installAttachApnHooks, Return
  <2>2. Untouched' = Untouched
    BY <2>1 DEF Untouched, Restored, Page, Protection
  <2> QED
    BY <2>1, <2>2 DEF OutcomeInv, TableInv, Transaction, Writes
<1>4. ASSUME NEW w \in Writes,
             makeWritable(w) \/ storeSlot(w) \/ restoreProtection(w) \/ verifyWrite(w)
      PROVE  OutcomeInv'
  <2>1. /\ rilPc \in Transaction \ {"startWorker"} /\ UNCHANGED <<hookState, patched, worker>>
        /\ rilPc' = rilPc \/ AfterWrite(w, TRUE) \/ AfterWrite(w, FALSE)
    BY <1>4, Zenon DEF makeWritable, storeSlot, restoreProtection, verifyWrite, initVars, Transaction,
                Writes
  <2>2. rilPc' \in Transaction \ {"startWorker"}
    BY <2>1, WriteReturns, Zenon
  <2> QED
    BY <2>1, <2>2 DEF OutcomeInv
<1>5. CASE verifyInstall
  <2>1. /\ rilPc \in Transaction /\ UNCHANGED <<hookState, patched, worker, slot, prot, image>>
        /\ \/ rilPc' = "startWorker" /\ \A e \in Entries : Verified(e, "hook")
           \/ rilPc' = RollbackComplete
    BY <1>5 DEF verifyInstall, initVars, gotVars, Transaction
  <2>2. RollbackComplete \in Transaction \ {"startWorker"}
    BY DEF RollbackComplete, Transaction, Writes
  <2>3. rilPc' = "startWorker" => Covered'
    BY <2>1, <2>2, SlotsFrame DEF Covered, Restored, Verified
  <2> QED
    BY <2>1, <2>2, <2>3 DEF OutcomeInv, Transaction
<1>6. CASE startIaWorker
  <2>1. /\ rilPc = "startWorker" /\ UNCHANGED <<patched, slot, prot, image>>
        /\ \/ worker' = TRUE /\ hookState' = "ACTIVE" /\ rilPc' = "out"
           \/ rilPc' = RollbackComplete /\ UNCHANGED hookState
    BY <1>6 DEF startIaWorker, AfterNoWorker, Return, gotVars
  <2>2. RollbackComplete \in Transaction \ {"startWorker"}
    BY DEF RollbackComplete, Transaction, Writes
  <2> QED
    BY <2>1, <2>2, SlotsFrame DEF OutcomeInv, Transaction, Writes
<1>7. CASE rollbackGotHooks
  <2>1. /\ rilPc = "verifyRollback" /\ rilPc' = "out" /\ UNCHANGED <<patched, slot, prot, image>>
        /\ \/ hookState' = "DISABLED" /\ \A e \in Entries : Verified(e, original[e])
           \/ hookState' = "FAILED"
    BY <1>7 DEF rollbackGotHooks, Return, gotVars
  <2>2. hookState' = "DISABLED" => Untouched
    BY <2>1, Zenon DEF HookInv, Originals, Untouched, Restored, Verified, Transaction
  <2> QED
    BY <2>1, <2>2, SlotsFrame DEF OutcomeInv, Transaction, Writes
<1>8. ASSUME NEW e \in Entries, ForeignWrites(e)
      PROVE  OutcomeInv'
  <2>1. /\ UNCHANGED <<rilPc, hookState, patched, worker, prot, image>>
        /\ slot' = [slot EXCEPT ![e] = "foreign"]
    BY <1>8 DEF ForeignWrites, initVars
  <2>2. (Untouched => Untouched') /\ (Covered => Covered')
    BY <2>1, Zenon DEF HookInv, Untouched, Covered, Restored, Page, Protection, image
  <2> QED
    BY <2>1, <2>2 DEF OutcomeInv
<1>9. CASE \E e \in Entries : VendorLoads(e) \/ VendorCalls(e)
  BY <1>1, <1>9, Zenon DEF VendorLoads, VendorCalls, initVars, gotVars
<1> QED
  BY <1>1, <1>2, <1>3, <1>4, <1>5, <1>6, <1>7, <1>8, <1>9, Zenon
  DEF RilNext, InitThread, rilVars, initVars, gotVars

\* The outcome the shim records is the real one: ACTIVE only with both slots
\* taken, both pages back and the worker running, DISABLED only with nothing
\* left behind, whichever calls fail and whoever else writes the slots.
THEOREM OutcomeAlwaysHonest == RilSpec => []OutcomeIsHonest
<1>1. RilInit => Inv
  BY InitHook, InitTable, InitOutcome DEF Inv
<1>2. Inv /\ [RilNext]_rilVars => Inv'
  BY NextHook, NextTable, NextOutcome DEF Inv
<1>3. Inv => OutcomeIsHonest
  BY DEF Inv, OutcomeInv, OutcomeIsHonest, Untouched, Covered, Restored
<1> QED
  BY <1>1, <1>2, <1>3, PTL DEF RilSpec
-----------------------------------------------------------------------------
\* A token of the shim is out only once the hooks are active, which they stay.
TokenInv == (ownToken => hookState = "ACTIVE") /\ OwnTokenSwallowed

LEMMA NextToken == Inv /\ TokenInv /\ [RilNext]_rilVars => TokenInv'
<1> SUFFICES ASSUME Inv, TokenInv, [RilNext]_rilVars PROVE TokenInv'
  OBVIOUS
<1>1. hookState = "ACTIVE" => hookState' = "ACTIVE"
  <2>1. rilPc \in Transaction => hookState = "INSTALLING"
    BY DEF Inv, OutcomeInv
  <2> QED
    BY <2>1, Zenon DEF RilNext, InitThread, RIL_Init, openRealRil, patchOnRequest, storeTable,
                installAttachApnHooks, verifyInstall, startIaWorker, rollbackGotHooks,
                makeWritable, storeSlot, restoreProtection, verifyWrite, VendorLoads, VendorCalls,
                ForeignWrites, rilVars, Transaction
<1>2. CASE UNCHANGED vendorVars
  BY <1>1, <1>2 DEF TokenInv, OwnTokenSwallowed, vendorVars
<1>3. ASSUME NEW e \in Entries, VendorLoads(e)
      PROVE  TokenInv'
  <2>1. hookState = "ACTIVE" => slot["complete"] # "vendor"
    BY DEF Inv, OutcomeInv, Covered, Entries, Symbols
  <2> QED
    BY <1>3, <2>1, Zenon DEF VendorLoads, TokenInv, OwnTokenSwallowed, Inv, HookInv, Entries, Symbols
<1>4. ASSUME NEW e \in Entries, VendorCalls(e)
      PROVE  TokenInv'
  BY <1>4, Zenon DEF VendorCalls, TokenInv, OwnTokenSwallowed, Inv, HookInv, Entries, Symbols
<1>5. \/ UNCHANGED vendorVars
      \/ \E e \in Entries : VendorLoads(e) \/ VendorCalls(e)
  BY Zenon DEF RilNext, InitThread, RIL_Init, openRealRil, patchOnRequest, storeTable,
         installAttachApnHooks, verifyInstall, startIaWorker, rollbackGotHooks, makeWritable,
         storeSlot, restoreProtection, verifyWrite, ForeignWrites, rilVars, vendorVars
<1> QED
  BY <1>2, <1>3, <1>4, <1>5

\* completeHook gets every completion of a request of the shim's own: by the
\* time the worker can issue one, no vendor thread loads the vendor's function.
THEOREM OwnTokensAlwaysSwallowed == RilSpec => []OwnTokenSwallowed
<1>1. RilInit => Inv /\ TokenInv
  <2>1. RilInit => TokenInv
    BY DEF RilInit, TokenInv, OwnTokenSwallowed
  <2> QED
    BY <2>1, InitHook, InitTable, InitOutcome DEF Inv
<1>2. Inv /\ TokenInv /\ [RilNext]_rilVars => (Inv /\ TokenInv)'
  BY NextHook, NextTable, NextOutcome, NextToken DEF Inv
<1>3. TokenInv => OwnTokenSwallowed
  BY DEF TokenInv
<1> QED
  BY <1>1, <1>2, <1>3, PTL DEF RilSpec
-----------------------------------------------------------------------------
\* Only the compare-and-exchange of writeGotValue changes a slot, and it expects
\* the original or the hook: a pointer that somebody else stored after the
\* resolution is never overwritten.
THEOREM NoForeignPointerLost == RilSpec => ForeignPointersKept
<1> DEFINE Kept == \A e \in Entries : slot[e] = "foreign" /\ original[e] = "vendor"
                                        => slot'[e] = "foreign"
<1>1. ASSUME HookInv, [RilNext]_rilVars
      PROVE  [Kept]_rilVars
  <2> SUFFICES ASSUME RilNext PROVE Kept
    BY <1>1
  <2>1. CASE UNCHANGED slot
    BY <2>1
  <2>2. ASSUME NEW w \in Writes, storeSlot(w)
        PROVE  Kept
    <3>1. slot' = [slot EXCEPT ![EntryOf(w)] = IF Publishable(w) THEN Desired(w) ELSE @]
      BY <2>2 DEF storeSlot
    <3>2. slot[EntryOf(w)] = "foreign" /\ original[EntryOf(w)] = "vendor" => ~Publishable(w)
      BY Zenon DEF Publishable, Expected
    <3> QED
      BY <1>1, <3>1, <3>2, EntryType, Zenon DEF HookInv
  <2>3. ASSUME NEW e \in Entries, ForeignWrites(e)
        PROVE  Kept
    BY <1>1, <2>3, Zenon DEF ForeignWrites, HookInv
  <2>4. \/ UNCHANGED slot
        \/ \E w \in Writes : storeSlot(w)
        \/ \E e \in Entries : ForeignWrites(e)
    BY Zenon DEF RilNext, InitThread, RIL_Init, openRealRil, patchOnRequest, storeTable,
           installAttachApnHooks, verifyInstall, startIaWorker, rollbackGotHooks, makeWritable,
           restoreProtection, verifyWrite, VendorLoads, VendorCalls, gotVars
  <2> QED
    BY <2>1, <2>2, <2>3, <2>4, Zenon
<1> QED
  BY <1>1, InitHook, NextHook, PTL DEF RilSpec, ForeignPointersKept
-----------------------------------------------------------------------------
\* Whatever library the loader mapped, its headers and tables included, no
\* pointer of its dynamic section leads the search out of its segments, the walk
\* of the section stays in them if the section and its DT_NULL do, and no symbol
\* with a second slot is hooked.
THEOREM SearchIsSound == RilSpec => []SlotsAreTheLibrarys
<1>1. RilInit => SlotsAreTheLibrarys
  BY DEF RilInit, SlotsAreTheLibrarys
<1>2. SlotsAreTheLibrarys /\ [RilNext]_rilVars => SlotsAreTheLibrarys'
  <2> SUFFICES ASSUME SlotsAreTheLibrarys, [RilNext]_rilVars PROVE SlotsAreTheLibrarys'
    OBVIOUS
  <2>1. CASE UNCHANGED scan
    BY <2>1 DEF SlotsAreTheLibrarys
  <2>2. CASE installAttachApnHooks
    <3>1. \A img \in Images : ReadsInside(img)
      BY ScanStaysInside, CallsAssumption
    <3>2. ASSUME NEW img \in Images, Resolved(img) # {}, NEW e \in Entries
          PROVE  Cardinality(Matches(img, e)) = 1
      <4>1. findGotEntry(img, e) # {}
        BY <3>2, Zenon DEF Resolved, Entries, Symbols
      <4>2. PICK i : Matches(img, e) = {i}
        BY <4>1 DEF findGotEntry
      <4> QED
        BY <4>2, FS_Singleton, ZenonT(30)
    <3>3. CASE scan' \in Refused
      BY <3>1, <3>3 DEF Refused, Verdict, SlotsAreTheLibrarys
    <3>4. ASSUME NEW found \in Hookable, scan' = found.scan
          PROVE  SlotsAreTheLibrarys'
      <4>1. PICK img \in Images : Resolved(img) # {} /\ found.scan = Verdict(img, TRUE)
        <5>1. PICK img \in Images : \E slots \in Resolved(img) :
                found = [samePage |-> slots.unsol = slots.complete, scan |-> Verdict(img, TRUE)]
          BY <3>4, Zenon DEF Hookable
        <5>2. PICK slots \in Resolved(img) :
                found = [samePage |-> slots.unsol = slots.complete, scan |-> Verdict(img, TRUE)]
          BY <5>1, Zenon
        <5>3. found.scan = Verdict(img, TRUE)
          BY <5>2, Zenon
        <5> QED
          BY <5>2, <5>3, Zenon
      <4> QED
        BY <3>1, <3>2, <3>4, <4>1, SMTT(30) DEF Verdict, SlotsAreTheLibrarys
    <3> QED
      BY <2>2, <3>3, <3>4, Zenon DEF installAttachApnHooks
  <2>3. UNCHANGED scan \/ installAttachApnHooks
    BY Zenon DEF RilNext, InitThread, RIL_Init, openRealRil, patchOnRequest, storeTable, verifyInstall,
           startIaWorker, rollbackGotHooks, makeWritable, storeSlot, restoreProtection,
           verifyWrite, VendorLoads, VendorCalls, ForeignWrites, rilVars, image
  <2> QED
    BY <2>1, <2>2, <2>3
<1> QED
  BY <1>1, <1>2, PTL DEF RilSpec
=============================================================================
