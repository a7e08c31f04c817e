------------------------------ MODULE AttachApn ------------------------------
(***************************************************************************)
(* The initial-attach APN re-sender of ril-shim/k50sv1_ril_shim.c (PART 2) *)
(* once its hooks are ACTIVE: the framework's SET_INITIAL_ATTACH_APN calls *)
(* that fill the cache, the vendor's RESET_ATTACH_APN indications and      *)
(* request completions that run the two hooks, and the worker thread.      *)
(*                                                                         *)
(* Everything under sIaLock is one step, except where the worker goes      *)
(* round its inner loop with the lock still held (pc = "scan").  Absolute  *)
(* monotonic times are kept as the ticks left until they pass, so the      *)
(* clock needs no bound: rateLeft is sIaLastIssue + REISSUE_MIN_INTERVAL   *)
(* - now and deadline is sIaInFlightDeadlineNs - now, both cut off at 0.   *)
(***************************************************************************)
EXTENDS Integers

CONSTANTS
  SIM_COUNT,             \* sockets of the DSDS pair
  REISSUE_TOKEN_SLOTS,   \* size of the token pool
  MIN_INTERVAL,          \* REISSUE_MIN_INTERVAL_NS in ticks
  INFLIGHT_TIMEOUT,      \* REISSUE_INFLIGHT_TIMEOUT_NS in ticks
  Payloads,              \* the APN settings the framework may set
  NoApn,                 \* nothing cached, nothing set
  CLOCK_MAY_FAIL,        \* clock_gettime and clock_nanosleep may fail
  MEMORY_MAY_FAIL,       \* strdup in copyIa may fail
  MAX_HELD               \* requests the vendor may hold under one token: 1 if it
                         \* completes each of them once

ASSUME ConstantsAssumption ==
  /\ SIM_COUNT \in Nat \ {0}
  /\ REISSUE_TOKEN_SLOTS \in Nat \ {0}
  /\ MIN_INTERVAL \in Nat \ {0}
  /\ INFLIGHT_TIMEOUT \in Nat \ {0}
  /\ NoApn \notin Payloads
  /\ CLOCK_MAY_FAIL \in BOOLEAN
  /\ MEMORY_MAY_FAIL \in BOOLEAN
  /\ MAX_HELD \in Nat \ {0}

Sockets == 0 .. SIM_COUNT - 1
Tokens == 0 .. REISSUE_TOKEN_SLOTS - 1
NoDeadline == -1         \* sIaInFlightDeadlineNs == 0 in the code

VARIABLES
  cache,        \* sIaCache and sIaCached: the payload to re-send per socket
  pending,      \* sIaPending
  inFlight,     \* sIaRequestInFlight
  current,      \* sIaCurrentTokenIndex
  outstanding,  \* sIaTokenOutstanding
  deadline,     \* sIaInFlightDeadlineNs, as ticks left
  rateLeft,     \* sIaLastIssue and sIaLastIssueValid, as ticks left
  nextSocket,   \* sIaNextSocket
  pc,           \* where the worker is
  sleepLeft,    \* ticks left of its rate-limit sleep
  outgoing,     \* the socket and the copy of the payload it is about to send
  framework,    \* per socket, the payload cached but not yet forwarded
  held,         \* vendor: requests per token it has accepted, not completed
  vendorApn,    \* vendor: the attach APN it holds
  lastSet,      \* history: the payload the framework set last
  sinceAttempt  \* history: ticks since the worker's last attempt

shimVars == <<pending, inFlight, current, outstanding, deadline, rateLeft,
              nextSocket>>
workerVars == <<pc, sleepLeft, outgoing>>
envVars == <<cache, framework, held, vendorApn, lastSet>>
vars == <<shimVars, workerVars, envVars, sinceAttempt>>

MaybeApn == Payloads \cup {NoApn}

TypeOK ==
  /\ cache \in [Sockets -> MaybeApn]
  /\ pending \in [Sockets -> BOOLEAN]
  /\ inFlight \in BOOLEAN
  /\ current \in Tokens
  /\ outstanding \in [Tokens -> BOOLEAN]
  /\ deadline \in 0 .. INFLIGHT_TIMEOUT \cup {NoDeadline}
  /\ rateLeft \in 0 .. MIN_INTERVAL
  /\ nextSocket \in Sockets
  /\ pc \in {"top", "scan", "idle", "flight", "recheck", "sleep", "send"}
  /\ sleepLeft \in 0 .. MIN_INTERVAL
  /\ outgoing \in [socket : Sockets, apn : MaybeApn]
  /\ framework \in [Sockets -> MaybeApn]
  /\ held \in [Tokens -> Nat]
  /\ vendorApn \in [Sockets -> MaybeApn]
  /\ lastSet \in [Sockets -> MaybeApn]
  /\ sinceAttempt \in 0 .. MIN_INTERVAL

Init ==
  /\ cache = [s \in Sockets |-> NoApn]
  /\ pending = [s \in Sockets |-> FALSE]
  /\ inFlight = FALSE
  /\ current = 0
  /\ outstanding = [t \in Tokens |-> FALSE]
  /\ deadline = NoDeadline
  /\ rateLeft = 0
  /\ nextSocket = 0
  /\ pc = "top"
  /\ sleepLeft = 0
  /\ outgoing = [socket |-> 0, apn |-> NoApn]
  /\ framework = [s \in Sockets |-> NoApn]
  /\ held = [t \in Tokens |-> 0]
  /\ vendorApn = [s \in Sockets |-> NoApn]
  /\ lastSet = [s \in Sockets |-> NoApn]
  /\ sinceAttempt = MIN_INTERVAL
-----------------------------------------------------------------------------
(***************************************************************************)
(* The hooks and the framework's request path                              *)
(***************************************************************************)
LockFree == pc # "scan"

\* pthread_cond_signal(&sIaWake): only a waiting worker is woken.
SignalWorker == pc' = CASE pc = "idle" -> "top"
                        [] pc = "flight" -> "recheck"
                        [] OTHER -> pc

\* onRequestShim, first half.  A payload of another length or a failed copy
\* leaves the cache as it was.
cacheInitialAttachApn(s, a) ==
  /\ LockFree
  /\ framework[s] = NoApn
  /\ \/ cache' = [cache EXCEPT ![s] = a]
     \/ MEMORY_MAY_FAIL /\ UNCHANGED cache
  /\ framework' = [framework EXCEPT ![s] = a]
  /\ UNCHANGED <<shimVars, workerVars, held, vendorApn, lastSet, sinceAttempt>>

\* onRequestShim, second half: the request goes on to the vendor.
forwardRequest(s) ==
  /\ framework[s] # NoApn
  /\ vendorApn' = [vendorApn EXCEPT ![s] = framework[s]]
  /\ lastSet' = [lastSet EXCEPT ![s] = framework[s]]
  /\ framework' = [framework EXCEPT ![s] = NoApn]
  /\ UNCHANGED <<shimVars, workerVars, cache, held, sinceAttempt>>

\* The vendor has discarded its APN and asks for it again.
unsolHook(s) ==
  /\ LockFree
  /\ vendorApn' = [vendorApn EXCEPT ![s] = NoApn]
  /\ IF cache[s] # NoApn
       THEN pending' = [pending EXCEPT ![s] = TRUE] /\ SignalWorker
       ELSE UNCHANGED <<pending, pc>>
  /\ UNCHANGED <<inFlight, current, outstanding, deadline, rateLeft,
                 nextSocket, sleepLeft, outgoing, cache, framework, held,
                 lastSet, sinceAttempt>>

\* Mutant: any of our completions hands the slot on.
IsCurrent_AnyToken(t) == outstanding[t] /\ inFlight

\* Only the token most recently issued hands the slot on.
IsCurrent(t) == outstanding[t] /\ inFlight /\ t = current

\* Mutant: a late completion does not free its token.
FreeToken_CurrentOnly(t) ==
  outstanding' = [outstanding EXCEPT ![t] = @ /\ ~IsCurrent(t)]

\* Completed is free again, awaited or not.
FreeToken(t) == outstanding' = [outstanding EXCEPT ![t] = FALSE]

completeHook(t) ==
  /\ LockFree
  /\ FreeToken(t)
  /\ IF IsCurrent(t)
       THEN inFlight' = FALSE /\ deadline' = NoDeadline /\ SignalWorker
       ELSE UNCHANGED <<inFlight, deadline, pc>>
  /\ UNCHANGED <<pending, current, rateLeft, nextSocket, sleepLeft, outgoing,
                 cache, framework, vendorApn, lastSet, sinceAttempt>>

\* The vendor completes a request it holds, and is done with it.
VendorCompletes(t) ==
  /\ held[t] > 0
  /\ held' = [held EXCEPT ![t] = @ - 1]
  /\ completeHook(t)

\* It completes one that it will complete again: before the token is leased
\* anew, which the hook ignores, or, if MAX_HELD lets it, after that, when the
\* hook takes the repetition for the completion of the newer request.
VendorRepeats(t) ==
  /\ held[t] < MAX_HELD /\ (held[t] = 0 => ~outstanding[t])
  /\ UNCHANGED held
  /\ completeHook(t)
-----------------------------------------------------------------------------
(***************************************************************************)
(* iaWorker                                                                *)
(***************************************************************************)
AcquireLock ==
  /\ pc = "top"
  /\ pc' = "scan"
  /\ UNCHANGED <<shimVars, sleepLeft, outgoing, envVars, sinceAttempt>>

Candidates == {s \in Sockets : pending[s] /\ cache[s] # NoApn}

\* Distance of i from start, going round a ring of n.
Distance(start, i, n) == (i + n - start) % n

\* The first candidate at or after nextSocket.
IsPicked(s) ==
  /\ s \in Candidates
  /\ \A r \in Candidates : Distance(nextSocket, s, SIM_COUNT)
                             <= Distance(nextSocket, r, SIM_COUNT)

NoSlotWait == pc = "scan" /\ ~inFlight

\* In flight with no deadline (the clock failed at issue): release, go round.
ReleaseWithoutDeadline ==
  /\ pc = "scan" /\ inFlight /\ deadline = NoDeadline
  /\ inFlight' = FALSE
  /\ UNCHANGED <<pending, current, outstanding, deadline, rateLeft, nextSocket,
                 workerVars, envVars, sinceAttempt>>

\* pthread_cond_timedwait until the latched deadline.
WaitForCompletion ==
  /\ pc = "scan" /\ inFlight /\ deadline # NoDeadline
  /\ pc' = "flight"
  /\ UNCHANGED <<shimVars, sleepLeft, outgoing, envVars, sinceAttempt>>

\* pthread_cond_wait with nothing to send.
WaitForReset ==
  /\ NoSlotWait /\ Candidates = {}
  /\ pc' = "idle"
  /\ UNCHANGED <<shimVars, sleepLeft, outgoing, envVars, sinceAttempt>>

\* The limiter says wait, or the clock does not say what time it is.
SleepForInterval ==
  /\ NoSlotWait /\ Candidates # {}
  /\ \/ rateLeft > 0 /\ sleepLeft' = rateLeft
     \/ CLOCK_MAY_FAIL /\ sleepLeft' = MIN_INTERVAL
  /\ pc' = "sleep"
  /\ UNCHANGED <<shimVars, outgoing, envVars, sinceAttempt>>

EndSleep ==
  /\ pc = "sleep" /\ (sleepLeft = 0 \/ CLOCK_MAY_FAIL)
  /\ pc' = "top" /\ sleepLeft' = 0
  /\ UNCHANGED <<shimVars, outgoing, envVars, sinceAttempt>>

\* The worker is past the limiter with socket s picked.
MayAttempt(s) == NoSlotWait /\ rateLeft = 0 /\ IsPicked(s)

\* Mutant: the attempt is not charged.
ChargeRateLimiter_Skipped ==
  UNCHANGED rateLeft /\ sinceAttempt' = 0

\* sIaLastIssue = now; a clock that fails here leaves no limit behind.
ChargeRateLimiter ==
  \/ rateLeft' = MIN_INTERVAL /\ sinceAttempt' = 0
  \/ CLOCK_MAY_FAIL /\ rateLeft' = 0 /\ sinceAttempt' = MIN_INTERVAL

RejectReplay(s) ==
  /\ MayAttempt(s)
  /\ \A t \in Tokens : outstanding[t]
  /\ pending' = [pending EXCEPT ![s] = FALSE]
  /\ ChargeRateLimiter
  /\ pc' = "top"
  /\ UNCHANGED <<inFlight, current, outstanding, deadline, nextSocket,
                 sleepLeft, outgoing, envVars>>

CopyFails(s) ==
  /\ MEMORY_MAY_FAIL
  /\ MayAttempt(s)
  /\ \E t \in Tokens : ~outstanding[t]
  /\ ChargeRateLimiter
  /\ pc' = "top"
  /\ UNCHANGED <<pending, inFlight, current, outstanding, deadline, nextSocket,
                 sleepLeft, outgoing, envVars>>

\* The first token after current that no vendor request holds.
IsNextToken(t) ==
  /\ ~outstanding[t]
  /\ \A u \in Tokens : ~outstanding[u] =>
       Distance(current + 1, t, REISSUE_TOKEN_SLOTS)
         <= Distance(current + 1, u, REISSUE_TOKEN_SLOTS)

\* Where the next scan starts.
SocketAfter(s) == (s + 1) % SIM_COUNT

Issue(s, t) ==
  /\ MayAttempt(s)
  /\ IsNextToken(t)
  /\ pending' = [pending EXCEPT ![s] = FALSE]
  /\ inFlight' = TRUE
  /\ current' = t
  /\ outstanding' = [outstanding EXCEPT ![t] = TRUE]
  /\ \/ deadline' = INFLIGHT_TIMEOUT
     \/ CLOCK_MAY_FAIL /\ deadline' = NoDeadline
  /\ nextSocket' = SocketAfter(s)
  /\ ChargeRateLimiter
  /\ outgoing' = [socket |-> s, apn |-> cache[s]]
  /\ pc' = "send"
  /\ UNCHANGED <<sleepLeft, envVars>>

\* sRealOnRequest with the copy, outside the lock; then the copy is freed.
SendRequest ==
  /\ pc = "send"
  /\ held' = [held EXCEPT ![current] = @ + 1]
  /\ vendorApn' = [vendorApn EXCEPT ![outgoing.socket] = outgoing.apn]
  /\ outgoing' = [outgoing EXCEPT !.apn = NoApn]
  /\ pc' = "top"
  /\ UNCHANGED <<shimVars, sleepLeft, cache, framework, lastSet, sinceAttempt>>

TimedWaitExpires ==
  /\ pc = "flight" /\ deadline = 0
  /\ pc' = "recheck"
  /\ UNCHANGED <<shimVars, sleepLeft, outgoing, envVars, sinceAttempt>>

SpuriousWakeup ==
  /\ pc \in {"idle", "flight"}
  /\ SignalWorker
  /\ UNCHANGED <<shimVars, sleepLeft, outgoing, envVars, sinceAttempt>>

\* Mutant: each wakeup starts a fresh wait.
KeepWaiting_Recomputed ==
  /\ deadline > 0
  /\ deadline' = INFLIGHT_TIMEOUT
  /\ UNCHANGED <<inFlight, outstanding>>

\* Not expired: the latched deadline stays.
KeepWaiting ==
  /\ deadline > 0
  /\ UNCHANGED <<inFlight, deadline, outstanding>>

\* Mutant: the timeout takes the token back from the vendor.
ReleaseSlot_FreesToken ==
  /\ inFlight' = FALSE /\ deadline' = NoDeadline
  /\ outstanding' = [outstanding EXCEPT ![current] = FALSE]

\* End of the single-flight wait; the token stays with the vendor.
ReleaseSlot ==
  /\ inFlight' = FALSE /\ deadline' = NoDeadline
  /\ UNCHANGED outstanding

\* The code after pthread_cond_timedwait, the lock held again.
AfterWait ==
  /\ pc = "recheck"
  /\ IF ~inFlight
       THEN UNCHANGED <<inFlight, deadline, outstanding>>
       ELSE \/ (deadline = 0 \/ CLOCK_MAY_FAIL) /\ ReleaseSlot
            \/ KeepWaiting
  /\ pc' = "scan"
  /\ UNCHANGED <<pending, current, rateLeft, nextSocket, sleepLeft, outgoing,
                 envVars, sinceAttempt>>

Worker ==
  \/ AcquireLock \/ ReleaseWithoutDeadline \/ WaitForCompletion
  \/ WaitForReset \/ SleepForInterval \/ EndSleep
  \/ \E s \in Sockets :
       RejectReplay(s) \/ CopyFails(s) \/ \E t \in Tokens : Issue(s, t)
  \/ SendRequest \/ TimedWaitExpires \/ AfterWait

\* One tick of CLOCK_MONOTONIC, whoever is running.
Tick ==
  /\ rateLeft' = IF rateLeft > 0 THEN rateLeft - 1 ELSE 0
  /\ sleepLeft' = IF sleepLeft > 0 THEN sleepLeft - 1 ELSE 0
  /\ deadline' = IF deadline > 0 THEN deadline - 1 ELSE deadline
  /\ sinceAttempt' = IF sinceAttempt < MIN_INTERVAL
                       THEN sinceAttempt + 1 ELSE MIN_INTERVAL
  /\ UNCHANGED <<pending, inFlight, current, outstanding, nextSocket, pc,
                 outgoing, envVars>>

Next ==
  \/ Worker
  \/ SpuriousWakeup
  \/ Tick
  \/ \E s \in Sockets : \/ \E a \in Payloads : cacheInitialAttachApn(s, a)
                        \/ forwardRequest(s)
                        \/ unsolHook(s)
  \/ \E t \in Tokens : VendorCompletes(t) \/ VendorRepeats(t)

Spec == Init /\ [][Next]_vars

\* The worker thread is scheduled and time passes.  The vendor owes nothing:
\* a completion may never come.
FairSpec == Spec /\ WF_vars(Worker) /\ WF_vars(Tick)

\* Every accepted request is completed some day: the completing thread gets
\* sIaLock although the worker takes it again and again.  Only PoolRecovers
\* supposes this.
FairVendor == \A t \in Tokens : SF_vars(VendorCompletes(t))
-----------------------------------------------------------------------------
(***************************************************************************)
(* Properties                                                              *)
(***************************************************************************)
\* Vendor requests that carry token t, the one being handed over included.
Requests(t) == held[t] + (IF pc = "send" /\ current = t THEN 1 ELSE 0)

\* With a vendor that completes a request once (MAX_HELD = 1),
\* sIaTokenOutstanding is exactly the set of tokens it still owes a completion
\* for, and no two of its requests ever carry the same token: a late completion
\* can never be mistaken for that of a newer request, however many waits have
\* timed out in between.
ReservedIffOwed ==
  \A t \in Tokens : Requests(t) = IF outstanding[t] THEN 1 ELSE 0

\* While the worker waits, the token of the request it waits for is reserved,
\* and the wait has a deadline as soon as the worker sleeps on it.
AwaitedIsOwed ==
  /\ inFlight => outstanding[current]
  /\ pc = "flight" /\ inFlight => deadline # NoDeadline

\* The tokens really with the vendor and the request waited for behave like
\* the lease pool: single flight, no reuse before completion, and only the
\* awaited request's own completion or giving up ends a wait.  This too is for
\* a vendor that completes a request once.
NoToken == -1
Pool == INSTANCE ReissuePool
          WITH leased <- {t \in Tokens : Requests(t) > 0},
               awaited <- IF inFlight THEN current ELSE NoToken
PoolSpec == Pool!Spec

\* Two attempts of the worker (a re-issue, a rejected replay, a copy that ran
\* out of memory) are at least one interval apart, unless the clock could not
\* be read when the first was charged.  So no failure makes it spin.
AttemptsSpaced ==
  [][pc = "scan" /\ pc' \in {"top", "send"} => sinceAttempt = MIN_INTERVAL]_vars

\* Without faults of the clock, a wait is given up only once its whole
\* timeout has passed; otherwise only a completion with the awaited token ends
\* it, however often the vendor repeats the others.
GiveUpOnlyWhenExpired ==
  [][inFlight /\ ~inFlight' /\ outstanding'[current]
       => deadline = 0 \/ CLOCK_MAY_FAIL]_vars

AllOutstanding == \A t \in Tokens : outstanding[t]

\* A reset indication for a cached APN is answered (re-issued or rejected)
\* even if the vendor never completes the request in flight, repeats old
\* completions under a token in use again, and keeps repeating the indication
\* on both sockets, as long as a token is free.
ResetAnswered ==
  \A s \in Sockets : pending[s] ~> (~pending[s] \/ AllOutstanding)

\* A replay rejected because every token was outstanding is not the end: if
\* the vendor completes what it accepts and keeps asking, the worker sends
\* again and again.
PoolRecovers ==
  FairVendor /\ []<>(\E s \in Sockets : pending[s]) => []<>(pc = "send")

\* "Cache the last RIL_REQUEST_SET_INITIAL_ATTACH_APN payload per socket, and
\* on RIL_UNSOL_RESET_ATTACH_APN re-issue it verbatim": with no framework call
\* half way, the APN the vendor was given is the one the framework set last.
VendorHasLastSet ==
  \A s \in Sockets :
    framework[s] = NoApn => vendorApn[s] \in {NoApn, lastSet[s]}
=============================================================================
