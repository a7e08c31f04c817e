---------------------------- MODULE HalProxyProofs ----------------------------
(***************************************************************************)
(* The steps of HalProxy that move events preserve its invariant, and the  *)
(* theorems that follow from it.                                           *)
(***************************************************************************)
EXTENDS HalProxyInvariant

(***************************************************************************)
(* Acknowledgements, and the framework's reads                             *)
(***************************************************************************)
LEMMA ReadsKeeps == ASSUME IInv, WakelockReads PROVE IInv'
<1> USE DEF IInv
<1>1. /\ UNCHANGED <<threadsRun, session, initPc, subHalReady, postPc, batch, nextId, scoped,
                     refCount, expired, timedOut, fmq, pending, sizePending, pendPc, unacked,
                     lastRead>>
      /\ wakePc = "reading" /\ got = {}
  BY DEF WakelockReads, ControlInv, initVars, postVars, wakeVars
<1>2. PendingEvents' = PendingEvents /\ Settled' = Settled
  BY <1>1 DEF PendingEvents, Settled, Chunk
<1>3. /\ wakePc' \in {"ready", "got"} /\ acks' \in Seq(SUBSET Events) /\ got' \subseteq Events
      /\ wakePc' # "got" => got' = {}
      /\ Acked' = Acked /\ AckInv' /\ (acks = <<>> => acks' = <<>>)
  <2>1. CASE acks = <<>>
    <3>1. wakePc' = "ready" /\ UNCHANGED <<got, acks>>
      BY <2>1 DEF WakelockReads
    <3> QED
      BY <1>1, <2>1, <3>1 DEF Acked, AckInv, TypeOK
  <2>2. CASE acks # <<>>
    <3>1. wakePc' = "got" /\ got' = Head(acks) /\ acks' = Tail(acks)
      BY <2>2 DEF WakelockReads
    <3>2. /\ Head(acks) \in SUBSET Events /\ Head(acks) = acks[1] /\ 1 \in DOMAIN acks
          /\ Tail(acks) \in Seq(SUBSET Events)
          /\ \A i \in DOMAIN Tail(acks) : Tail(acks)[i] = acks[i + 1] /\ i + 1 \in DOMAIN acks
          /\ Range(acks) = {Head(acks)} \cup Range(Tail(acks))
      BY <2>2, TailFacts DEF TypeOK
    <3>3. Acked' = Acked
      <4>1. UNION Range(acks) = Head(acks) \cup UNION Range(Tail(acks))
        BY <3>2
      <4> QED
        BY <1>1, <3>1, <4>1 DEF Acked
    <3>4. \A i, k \in DOMAIN Tail(acks) : 1 # i + 1 /\ (i # k => i + 1 # k + 1)
      <4>1. DOMAIN Tail(acks) = 1 .. Len(Tail(acks))
        BY <3>2, SeqFacts
      <4> QED
        BY <4>1
    <3>5. got' \cap unacked' = {}
      BY <1>1, <3>1, <3>2 DEF AckInv
    <3>6. ASSUME NEW i \in DOMAIN acks'
          PROVE  /\ acks'[i] \cap (unacked' \cup got') = {}
                 /\ \A k \in DOMAIN acks' : i # k => acks'[i] \cap acks'[k] = {}
      <4>1. i + 1 \in DOMAIN acks /\ acks'[i] = acks[i + 1] /\ 1 # i + 1
        BY <3>1, <3>2, <3>4
      <4>2. acks[i + 1] \cap unacked = {} /\ acks[i + 1] \cap acks[1] = {}
        BY <3>2, <4>1 DEF AckInv
      <4>3. ASSUME NEW k \in DOMAIN acks', i # k
            PROVE  acks'[i] \cap acks'[k] = {}
        <5>1. k + 1 \in DOMAIN acks /\ acks'[k] = acks[k + 1] /\ i + 1 # k + 1
          BY <3>1, <3>2, <3>4, <4>3
        <5> QED
          BY <4>1, <5>1 DEF AckInv
      <4> QED
        BY <1>1, <3>1, <3>2, <4>1, <4>2, <4>3, SMTT(30)
    <3>7. AckInv'
      BY <1>1, <3>3, <3>5, <3>6 DEF AckInv
    <3> QED
      BY <2>2, <3>1, <3>2, <3>3, <3>7, SMTT(30)
  <2> QED
    BY <2>1, <2>2
<1>4. InTransit' = InTransit
  BY <1>1, <1>2, <1>3 DEF InTransit, Acked
<1>5. TypeOK'
  BY <1>1, <1>2, <1>3 DEF TypeOK, ThreadStates
<1>6. PendingInv' /\ OrderInv' /\ SessionInv'
  BY <1>1, <1>2 DEF PendingInv, OrderInv, DeliveredInOrder, SessionInv
<1>7. ControlInv'
  <2>1. Wakeups(batch)' = Wakeups(batch)
    BY <1>1 DEF Wakeups
  <2> QED
    BY <1>1, <1>3, <2>1 DEF ControlInv
<1>8. CountInv'
  <2>1. Outstanding' = Outstanding
    BY <1>1, <1>4 DEF Outstanding, ScopedReference
  <2> QED
    BY <1>1, <2>1 DEF CountInv, NoLeakedReference, WakelockBalanced
<1> QED
  BY <1>3, <1>5, <1>6, <1>7, <1>8

LEMMA AcknowledgeKeeps == ASSUME IInv, Acknowledge PROVE IInv'
<1> USE DEF IInv
<1>1. /\ UNCHANGED <<threadsRun, session, initPc, subHalReady, postPc, batch, nextId, scoped,
                     refCount, expired, timedOut, fmq, pending, sizePending, pendPc, wakePc, got,
                     lastRead>>
      /\ unacked # {} /\ acks' = Append(acks, unacked) /\ unacked' = {}
  BY DEF Acknowledge, initVars, postVars, wakeVars
<1>2. PendingEvents' = PendingEvents /\ Settled' = Settled
  BY <1>1 DEF PendingEvents, Settled, Chunk
<1> DEFINE n == Len(acks)
<1>3. /\ acks' \in Seq(SUBSET Events) /\ n \in Nat /\ DOMAIN acks = 1 .. n
      /\ DOMAIN acks' = 1 .. n + 1 /\ acks'[n + 1] = unacked /\ \A i \in 1 .. n : acks'[i] = acks[i]
  <2>1. acks \in Seq(SUBSET Events) /\ unacked \in SUBSET Events
    BY DEF TypeOK
  <2>2. /\ acks' \in Seq(SUBSET Events) /\ Len(acks') = n + 1 /\ acks'[n + 1] = unacked
        /\ \A i \in 1 .. n : acks'[i] = acks[i]
    BY <1>1, <2>1, AppendProperties
  <2> QED
    BY <2>1, <2>2, SeqFacts
<1> HIDE DEF n
<1>4. /\ n + 1 \in 1 .. n + 1 /\ \A i \in 1 .. n : i \in 1 .. n + 1 /\ i # n + 1
      /\ \A i \in 1 .. n + 1 : i \in 1 .. n \/ i = n + 1
  BY <1>3
<1>5. Acked' = Acked
  <2>1. Range(acks') = Range(acks) \cup {unacked}
    BY <1>3, <1>4 DEF Range
  <2>2. UNION Range(acks') = unacked \cup UNION Range(acks)
    BY <2>1
  <2> QED
    BY <1>1, <2>2 DEF Acked
<1>6. AckInv'
  <2>1. \A i \in 1 .. n + 1 : acks'[i] \cap (unacked' \cup got') = {}
    BY <1>1, <1>3, <1>4 DEF AckInv
  <2>2. ASSUME NEW i \in 1 .. n + 1, NEW k \in 1 .. n + 1, i # k
        PROVE  acks'[i] \cap acks'[k] = {}
    BY <1>3, <1>4, <2>2 DEF AckInv
  <2>3. got' \cap unacked' = {} /\ \A e \in Acked' : e.wake /\ e.id <= lastRead'
    BY <1>1, <1>5 DEF AckInv
  <2> QED
    BY <1>3, <2>1, <2>2, <2>3 DEF AckInv
<1>7. InTransit' = InTransit
  BY <1>1, <1>2, <1>5, SMTT(30) DEF InTransit, Acked
<1>8. TypeOK'
  BY <1>1, <1>2, <1>3, SMTT(30) DEF TypeOK
<1>9. PendingInv' /\ OrderInv' /\ SessionInv'
  BY <1>1, <1>2 DEF PendingInv, OrderInv, DeliveredInOrder, SessionInv
<1>10. ControlInv'
  <2>1. Wakeups(batch)' = Wakeups(batch)
    BY <1>1 DEF Wakeups
  <2> QED
    BY <1>1, <2>1 DEF ControlInv
<1>11. CountInv'
  <2>1. Outstanding' = Outstanding
    BY <1>1, <1>7 DEF Outstanding, ScopedReference
  <2> QED
    BY <1>1, <2>1 DEF CountInv, NoLeakedReference, WakelockBalanced
<1> QED
  BY <1>6, <1>8, <1>9, <1>10, <1>11
\* The references of the events acknowledged are given back.
LEMMA GivesBackKeeps == ASSUME IInv, WakelockAcknowledges PROVE IInv'
<1> USE DEF IInv
<1>1. /\ UNCHANGED <<threadsRun, session, initPc, subHalReady, postPc, batch, nextId, scoped,
                     expired, timedOut, fmq, pending, sizePending, pendPc, acks, unacked, lastRead>>
      /\ wakePc = "got" /\ wakePc' = "ready" /\ got' = {}
      /\ refCount' = Minus(refCount, Cardinality(got))
  BY DEF WakelockAcknowledges, initVars, postVars, frameworkVars
<1>2. PendingEvents' = PendingEvents /\ Settled' = Settled
  BY <1>1, SMTT(30) DEF PendingEvents, Settled, Chunk
<1>3. /\ Range(fmq) \subseteq Events /\ PendingEvents \subseteq Events /\ InTransit \subseteq Events
      /\ InTransit = Range(fmq) \cup (PendingEvents \ Settled) \cup Acked
      /\ got \subseteq Acked /\ got \subseteq Events
  BY TransitTyped DEF Acked, TypeOK
<1>4. Acked' = Acked \ got
  <2>1. \A e \in got : e \notin unacked /\ e \notin UNION Range(acks)
    BY DEF AckInv, Range
  <2> QED
    BY <1>1, <2>1 DEF Acked
<1>5. \A e \in got : e \notin Range(fmq) /\ e \notin PendingEvents \ Settled
  <2>1. \A e \in got : e.id <= lastRead
    BY <1>3 DEF AckInv
  <2>2. \A e \in Range(fmq) : lastRead < e.id
    BY DEF OrderInv, DeliveredInOrder, Range
  <2>3. \A e \in PendingEvents \ Settled : lastRead < e.id
    BY DEF OrderInv
  <2>4. lastRead \in Nat /\ \A e \in got : e.id \in Nat
    BY <1>3, IdType, ConstantsAssumption DEF TypeOK
  <2> QED
    BY <2>1, <2>2, <2>3, <2>4, SMTT(30)
<1>6. InTransit' = InTransit \ got
  <2>1. InTransit' = Range(fmq) \cup (PendingEvents \ Settled) \cup Acked'
    BY <1>1, <1>2 DEF InTransit, Acked
  <2> QED
    BY <1>3, <1>4, <1>5, <2>1
<1> DEFINE n == Cardinality(Wake(InTransit))
           g == Cardinality(got)
<1>7. Wake(got) = got
  BY <1>3 DEF Wake, AckInv
<1>8. Cardinality(Wake(InTransit')) = n - g /\ g <= n /\ g \in Nat /\ n \in Nat
  <2>1. got \in SUBSET InTransit /\ InTransit \in SUBSET Events
    BY <1>3
  <2>2. /\ Cardinality(Wake(InTransit \ got)) = n - Cardinality(Wake(got))
        /\ Cardinality(Wake(got)) <= n
    BY <2>1, SubsetCount
  <2>3. g \in Nat /\ n \in Nat
    BY <2>1, Finite
  <2> QED
    BY <1>6, <1>7, <2>2, <2>3
<1>9. Outstanding' = n - g + ScopedReference /\ Outstanding = n + ScopedReference
  <2>1. ScopedReference' = ScopedReference
    BY <1>1 DEF ScopedReference
  <2>2. Outstanding' = Cardinality(Wake(InTransit')) + ScopedReference'
    BY DEF Outstanding, Wake
  <2> QED
    BY <1>8, <2>1, <2>2, TransitTyped
<1> HIDE DEF n, g
<1>10. refCount \in Nat /\ ScopedReference \in Nat /\ refCount' = IF g <= refCount THEN refCount - g ELSE 0
  BY <1>1, <1>8, MinFacts, Zenon DEF TypeOK, g, ScopedReference
<1>11. TypeOK'
  <2>1. refCount' \in Nat /\ got' \subseteq Events /\ wakePc' \in ThreadStates
    BY <1>1, <1>8, <1>10, SMTT(30) DEF ThreadStates
  <2> QED
    BY <1>1, <1>2, <2>1, SMTT(30) DEF TypeOK
<1>12. PendingInv' /\ OrderInv' /\ SessionInv'
  BY <1>1, <1>2, SMTT(30) DEF PendingInv, OrderInv, DeliveredInOrder, SessionInv
<1>13. AckInv'
  BY <1>1, <1>4, SMTT(30) DEF AckInv
<1>14. ControlInv'
  <2>1. Wakeups(batch)' = Wakeups(batch)
    BY <1>1 DEF Wakeups
  <2> QED
    BY <1>1, <2>1 DEF ControlInv
<1>15. CountInv'
  BY <1>1, <1>8, <1>9, <1>10 DEF CountInv, NoLeakedReference, WakelockBalanced
<1> QED
  BY <1>11, <1>12, <1>13, <1>14, <1>15, SMTT(30)

LEMMA ReadEventKeeps == ASSUME IInv, ReadEvent PROVE IInv'
<1> USE DEF IInv
<1> DEFINE h == Head(fmq)
<1>1. /\ UNCHANGED <<threadsRun, session, initPc, subHalReady, postPc, batch, nextId, scoped,
                     refCount, expired, timedOut, pending, sizePending, pendPc, wakePc, got, acks>>
      /\ fmq # <<>> /\ fmq' = Tail(fmq) /\ lastRead' = h.id
      /\ unacked' = unacked \cup {e \in {h} : e.wake}
  BY DEF ReadEvent, initVars, postVars, wakeVars
<1>2. PendingEvents' = PendingEvents /\ Settled' = Settled
  BY <1>1 DEF PendingEvents, Settled, Chunk
<1>3. /\ h \in Events /\ fmq' \in EventSeqs /\ Range(fmq) = {h} \cup Range(fmq')
      /\ Len(fmq') = Len(fmq) - 1 /\ Len(fmq) \in Nat /\ h = fmq[1] /\ 1 \in DOMAIN fmq
  BY <1>1, TailFacts, SeqFacts, SMTT(30) DEF TypeOK, EventSeqs
<1>4. Ascending(fmq') /\ \A e \in Range(fmq') : h.id < e.id
  <2>1. Ascending(fmq) /\ fmq \in EventSeqs
    BY DEF OrderInv, DeliveredInOrder, Ascending, TypeOK
  <2> QED
    BY <1>1, <2>1, TailAscends
<1>5. lastRead < h.id /\ lastRead \in Nat /\ h.id \in Nat /\ h.id \in 0 .. MAX_EVENTS
  <2>1. lastRead < h.id
    BY <1>3 DEF OrderInv, DeliveredInOrder
  <2>2. lastRead \in Nat /\ MAX_EVENTS \in Nat
    BY ConstantsAssumption DEF TypeOK
  <2>3. h.id \in 1 .. MAX_EVENTS
    BY <1>3 DEF Events
  <2> QED
    BY <2>1, <2>2, <2>3, SMTT(30)
<1> HIDE DEF h
<1>6. \A e \in Acked : e.wake /\ e.id <= lastRead /\ e.id \in Nat
  BY TransitTyped, IdType DEF AckInv
<1>7. h \notin Acked
  BY <1>5, <1>6
<1>8. Acked' = Acked \cup {e \in {h} : e.wake}
  BY <1>1 DEF Acked
<1>9. AckInv'
  <2>1. \A e \in Acked' : e.wake /\ e.id <= lastRead'
    BY <1>1, <1>5, <1>6, <1>8, SMTT(30)
  <2>2. h \notin got /\ \A i \in DOMAIN acks : h \notin acks[i]
    BY <1>7 DEF Acked, Range
  <2> QED
    BY <1>1, <2>1, <2>2 DEF AckInv
<1>10. OrderInv'
  <2>1. DeliveredInOrder'
    BY <1>1, <1>4 DEF DeliveredInOrder, Ascending, Range
  <2>2. \A e \in PendingEvents \ Settled : h.id < e.id /\ \A f \in Range(fmq') : f.id < e.id
    BY <1>3 DEF OrderInv
  <2>3. h.id < nextId /\ \A e \in Range(fmq') \cup PendingEvents \cup Range(batch) : e.id < nextId
    BY <1>3 DEF OrderInv
  <2>4. postPc \in {"check", "post"} =>
          \A e \in Range(batch) :
            h.id < e.id /\ \A f \in Range(fmq') \cup PendingEvents : f.id < e.id
    BY <1>3 DEF OrderInv
  <2> QED
    BY <1>1, <1>2, <2>1, <2>2, <2>3, <2>4, SMTT(30) DEF OrderInv
<1>11. Wake(InTransit') = Wake(InTransit)
  <2>1. /\ InTransit = Range(fmq) \cup (PendingEvents \ Settled) \cup Acked
        /\ InTransit' = Range(fmq') \cup (PendingEvents \ Settled) \cup Acked'
    BY <1>1, <1>2, SMTT(30) DEF InTransit, Acked
  <2> QED
    BY <1>3, <1>8, <2>1 DEF Wake
<1>12. TypeOK'
  <2>1. unacked' \subseteq Events
    BY <1>1, <1>3 DEF TypeOK
  <2>2. Len(fmq') <= QUANTUM_COUNT
    BY <1>3, ConstantsAssumption, SMTT(30) DEF TypeOK
  <2> QED
    BY <1>1, <1>2, <1>3, <1>5, <2>1, <2>2, SMTT(30) DEF TypeOK
<1>13. PendingInv' /\ SessionInv'
  BY <1>1, <1>2, <1>3, SMTT(30) DEF PendingInv, SessionInv
<1>14. ControlInv'
  <2>1. Wakeups(batch)' = Wakeups(batch)
    BY <1>1 DEF Wakeups
  <2> QED
    BY <1>1, <2>1 DEF ControlInv
<1>15. CountInv'
  <2>1. Outstanding' = Outstanding
    BY <1>1, <1>11, Zenon DEF Outstanding, ScopedReference, Wake
  <2> QED
    BY <1>1, <2>1 DEF CountInv, NoLeakedReference, WakelockBalanced
<1> QED
  BY <1>9, <1>10, <1>12, <1>13, <1>14, <1>15, SMTT(30)

LEMMA SwapKeeps == ASSUME IInv, SwapQueues PROVE IInv'
<1> USE DEF IInv
<1>1. /\ UNCHANGED <<threadsRun, subHalReady, postPc, batch, nextId, scoped, refCount, expired,
                     pendPc, wakePc, got>>
      /\ initPc = "swap" /\ initPc' \in {"idle", "subHal"} /\ session' = session + 1
      /\ fmq' = <<>> /\ pending' = <<>> /\ sizePending' = 0 /\ acks' = <<>> /\ unacked' = {}
      /\ lastRead' = 0 /\ timedOut' = FALSE
  BY DEF SwapQueues, postVars
<1>2. /\ ~threadsRun /\ pendPc = "none" /\ wakePc = "none" /\ got = {} /\ refCount = 0
      /\ scoped = "none" /\ postPc # "post"
  BY <1>1 DEF ControlInv
<1>3. Range(fmq') = {} /\ Range(acks') = {} /\ PendingEvents' = {} /\ Acked' = {}
  BY <1>1, <1>2, EmptyFacts, SMTT(30) DEF PendingEvents, Acked
<1>4. session' \in 0 .. MAX_INITS
  BY <1>1, ConstantsAssumption DEF TypeOK, ControlInv
<1>5. fmq' \in EventSeqs /\ pending' \in Seq(EventSeqs) /\ acks' \in Seq(SUBSET Events) /\ Len(fmq') = 0
  BY <1>1, EmptyFacts DEF EventSeqs
<1>6. TypeOK'
  <2>1. sizePending' = Cardinality(PendingEvents')
    BY <1>1, <1>3, FS_EmptySet, SMTT(30)
  <2>2. 0 <= MAX_PENDING /\ 0 <= QUANTUM_COUNT /\ 0 \in 0 .. MAX_EVENTS
    BY ConstantsAssumption
  <2>3. UNCHANGED <<threadsRun, subHalReady, postPc, batch, nextId, scoped, refCount, expired,
                    pendPc, wakePc, got>>
    BY <1>1
  <2> QED
    BY <1>1, <1>4, <1>5, <2>1, <2>2, <2>3, Zenon DEF TypeOK
<1>7. PendingInv'
  BY <1>1, <1>2, EmptyFacts, SMTT(30) DEF PendingInv, Sorted
<1>8. OrderInv'
  <2>1. \A e \in Range(batch) : 0 < e.id
    <3>1. \A e \in Events : 0 < e.id
      BY ConstantsAssumption DEF Events
    <3> QED
      BY <3>1, TransitTyped
  <2>2. 0 < nextId
    BY ConstantsAssumption DEF TypeOK
  <2>3. DeliveredInOrder'
    BY <1>1, EmptyFacts, SMTT(30) DEF DeliveredInOrder
  <2> QED
    BY <1>1, <1>3, <2>1, <2>2, <2>3, SMTT(30) DEF OrderInv
<1>9. AckInv'
  BY <1>1, <1>2, <1>3, EmptyFacts, SMTT(30) DEF AckInv
<1>10. ControlInv'
  BY <1>1, <1>2 DEF ControlInv
<1>11. SessionInv'
  BY <1>1, <1>2, <1>3 DEF SessionInv
<1>12. CountInv'
  <2>1. InTransit' = {}
    BY <1>1, <1>2, <1>3 DEF InTransit
  <2>2. Wake(InTransit') = {} /\ Cardinality({}) = 0
    BY <2>1, FS_EmptySet DEF Wake
  <2>3. Outstanding' = 0
    <3>1. Outstanding' = Cardinality(Wake(InTransit')) + ScopedReference'
      BY DEF Outstanding, Wake
    <3>2. ScopedReference' = 0
      BY <1>1, <1>2 DEF ScopedReference
    <3> QED
      BY <2>2, <3>1, <3>2, SMTT(30)
  <2> QED
    BY <1>1, <1>2, <2>3 DEF CountInv, NoLeakedReference, WakelockBalanced
<1> QED
  BY <1>6, <1>7, <1>8, <1>9, <1>10, <1>11, <1>12, SMTT(30)
-----------------------------------------------------------------------------
(***************************************************************************)
(* The pending-writes thread                                               *)
(***************************************************************************)
LEMMA PopsKeeps == ASSUME IInv, PendingPops PROVE IInv'
<1> USE DEF IInv
<1>1. /\ UNCHANGED <<threadsRun, session, initPc, subHalReady, postPc, batch, nextId, scoped,
                     refCount, expired, timedOut, fmq, wakePc, got, acks, unacked, lastRead>>
      /\ pendPc = "wrote" /\ pendPc' = "ready" /\ sizePending' = sizePending - Len(Chunk)
  BY DEF PendingPops, WrittenSize, initVars, postVars, wakeVars, frameworkVars
<1>2. /\ pending' \in Queues /\ Sorted(pending')
      /\ PendingEvents' = PendingEvents \ Range(Chunk)
  BY PopFacts, SMTT(30)
<1>3. /\ Chunk \in EventSeqs /\ Ascending(Chunk) /\ Len(Chunk) \in Nat
      /\ Range(Chunk) \subseteq PendingEvents /\ PendingEvents \subseteq Events
  BY <1>1, ChunkFacts, TransitTyped, SMTT(30) DEF PendingInv
<1>4. Settled = Range(Chunk) /\ Settled' = {} /\ Acked' = Acked
  BY <1>1 DEF Settled, Acked
<1>5. PendingEvents' \ Settled' = PendingEvents \ Settled /\ PendingEvents' \subseteq PendingEvents
  BY <1>2, <1>4
<1>6. InTransit' = InTransit
  BY <1>1, <1>5, SMTT(30) DEF InTransit
<1>7. TypeOK'
  <2>1. Cardinality(PendingEvents') = Cardinality(PendingEvents) - Cardinality(Range(Chunk))
    BY <1>2, <1>3, SubsetCount, Zenon
  <2>2. Len(Chunk) = Cardinality(Range(Chunk))
    BY <1>3, SeqCount
  <2>3. Cardinality(PendingEvents) \in Nat
    BY <1>3, Finite, SMTT(30)
  <2>4. sizePending' = Cardinality(PendingEvents') /\ sizePending' <= MAX_PENDING
    BY <1>1, <1>3, <2>1, <2>2, <2>3, ConstantsAssumption, SMTT(30) DEF TypeOK
  <2> QED
    BY <1>1, <1>2, <2>4, SMTT(30) DEF TypeOK, Queues, ThreadStates
<1>8. PendingInv' /\ AckInv'
  BY <1>1, <1>2, <1>4, SMTT(30) DEF PendingInv, AckInv
<1>9. OrderInv'
  BY <1>1, <1>5, SMTT(30) DEF OrderInv, DeliveredInOrder
<1>10. SessionInv'
  BY <1>1, <1>5, ZenonT(30) DEF SessionInv
<1>11. ControlInv'
  <2>1. Wakeups(batch)' = Wakeups(batch)
    BY <1>1 DEF Wakeups
  <2> QED
    BY <1>1, <2>1 DEF ControlInv
<1>12. CountInv'
  <2>1. Outstanding' = Outstanding
    BY <1>1, <1>6 DEF Outstanding, ScopedReference
  <2> QED
    BY <1>1, <2>1 DEF CountInv, NoLeakedReference, WakelockBalanced
<1> QED
  BY <1>7, <1>8, <1>9, <1>10, <1>11, <1>12, SMTT(30)

\* The ids tell the events of the pending queue from all that is before them.
LEMMA PendingApart ==
  ASSUME IInv
  PROVE  /\ (PendingEvents \ Settled) \cap Range(fmq) = {}
         /\ (PendingEvents \ Settled) \cap Acked = {}
<1> USE DEF IInv
<1>1. /\ lastRead \in Nat /\ \A e \in PendingEvents \cup Acked : e.id \in Nat
  BY TransitTyped, IdType, ConstantsAssumption, SMTT(30) DEF TypeOK
<1>2. \A e \in PendingEvents \ Settled : lastRead < e.id /\ \A f \in Range(fmq) : f.id < e.id
  BY DEF OrderInv
<1>3. \A e \in Acked : e.id <= lastRead
  BY DEF AckInv
<1> QED
  BY <1>1, <1>2, <1>3, SMTT(30)

LEMMA WritesKeeps == ASSUME IInv, PendingWrites PROVE IInv'
<1> USE DEF IInv
<1> DEFINE C == Range(Chunk)
<1>1. /\ UNCHANGED <<threadsRun, session, initPc, subHalReady, postPc, batch, nextId, scoped,
                     expired, timedOut, pending, sizePending, wakePc, got, acks, unacked, lastRead>>
      /\ pendPc = "writing" /\ pendPc' = "wrote" /\ pending # <<>>
  BY DEF PendingWrites, PendingInv, initVars, postVars, frameworkVars
<1>2. /\ Chunk \in EventSeqs /\ Ascending(Chunk) /\ Len(Chunk) \in Nat
      /\ C \subseteq PendingEvents
      /\ \A e \in C, f \in PendingEvents \ C : e.id < f.id
  BY <1>1, ChunkFacts, SMTT(30)
<1>3. /\ Range(fmq) \subseteq Events /\ PendingEvents \subseteq Events /\ InTransit \subseteq Events
      /\ InTransit = Range(fmq) \cup (PendingEvents \ Settled) \cup Acked
      /\ Cardinality(Wake(InTransit)) \in Nat
      /\ Outstanding = Cardinality(Wake(InTransit)) + ScopedReference
      /\ ScopedReference \in 0 .. 1
  BY TransitTyped
<1>4. /\ Settled = {} /\ Settled' = C /\ PendingEvents' = PendingEvents /\ Acked' = Acked
      /\ ScopedReference' = ScopedReference /\ Wakeups(batch)' = Wakeups(batch)
  BY <1>1 DEF Settled, Chunk, PendingEvents, Acked, ScopedReference, Wakeups
<1>5. /\ InTransit' = Range(fmq') \cup (PendingEvents \ C) \cup Acked
      /\ Outstanding' = Cardinality(Wake(InTransit')) + ScopedReference
  BY <1>4 DEF InTransit, Acked, Outstanding, Wake
<1> HIDE DEF C
<1>6. PendingInv' /\ AckInv'
  BY <1>1, <1>4 DEF PendingInv, AckInv
<1>7. CASE Len(fmq) + Len(Chunk) <= QUANTUM_COUNT /\ fmq' = fmq \o Chunk /\ UNCHANGED refCount
  <2>1. fmq \in EventSeqs /\ Ascending(fmq) /\ Before(fmq, Chunk) /\ \A e \in Range(fmq) : lastRead < e.id
    BY <1>2, <1>4, SMTT(30) DEF TypeOK, OrderInv, DeliveredInOrder, Ascending, Before, C, Range
  <2>2. /\ fmq' \in EventSeqs /\ Len(fmq') = Len(fmq) + Len(Chunk)
        /\ Range(fmq') = Range(fmq) \cup C /\ Ascending(fmq')
    BY <1>2, <1>7, <2>1, ConcatFacts, SMTT(30) DEF C
  <2>3. InTransit' = InTransit
    BY <1>2, <1>3, <1>4, <1>5, <2>2, SMTT(30)
  <2>4. TypeOK'
    BY <1>1, <1>4, <1>7, <2>2, SMTT(30) DEF TypeOK
  <2>5. OrderInv'
    <3>1. \A e \in PendingEvents : lastRead < e.id /\ \A f \in Range(fmq) : f.id < e.id
      BY <1>4, SMTT(30) DEF OrderInv
    <3>2. DeliveredInOrder'
      <4>1. \A e \in Range(fmq') : lastRead < e.id
        BY <1>2, <2>1, <2>2, <3>1, SMTT(30)
      <4> QED
        BY <1>1, <2>2, <4>1 DEF DeliveredInOrder, Ascending, Range
    <3>3. \A e \in PendingEvents \ C : lastRead < e.id /\ \A f \in Range(fmq') : f.id < e.id
      BY <1>2, <2>2, <3>1
    <3>4. Range(fmq') \cup PendingEvents = Range(fmq) \cup PendingEvents
      BY <1>2, <2>2, SMTT(30)
    <3> QED
      BY <1>1, <1>4, <3>2, <3>3, <3>4, SMTT(30) DEF OrderInv
  <2>6. SessionInv'
    BY <1>1, <1>2, <1>4, <2>2, SMTT(30) DEF SessionInv
  <2>7. ControlInv'
    BY <1>1, <1>4, <1>7 DEF ControlInv
  <2>8. CountInv'
    BY <1>1, <1>3, <1>5, <1>7, <2>3, Zenon DEF CountInv, NoLeakedReference, WakelockBalanced
  <2> QED
    BY <1>6, <2>4, <2>5, <2>6, <2>7, <2>8, SMTT(30)
<1>8. CASE UNCHANGED fmq /\ refCount' = Minus(refCount, DroppedReferences)
  <2> DEFINE n == Cardinality(Wake(InTransit))
             w == Cardinality(Wake(C))
  <2>1. C \subseteq InTransit /\ InTransit' = InTransit \ C
    BY <1>2, <1>3, <1>4, <1>5, <1>8, PendingApart, SMTT(30)
  <2>2. Cardinality(Wake(InTransit')) = n - w /\ w <= n
    BY <1>3, <2>1, SubsetCount, Zenon
  <2>3. DroppedReferences = w
    BY <1>2, SeqCount, SMTT(30) DEF DroppedReferences, C
  <2>4. n \in Nat /\ w \in Nat /\ refCount \in Nat
    BY <1>2, <1>3, Finite DEF TypeOK
  <2> HIDE DEF n, w
  <2>5. refCount' = IF w <= refCount THEN refCount - w ELSE 0
    BY <1>8, <2>3, <2>4, MinFacts, Zenon
  <2>6. refCount' \in Nat
    BY <2>4, <2>5, SMTT(30)
  <2>7. TypeOK'
    BY <1>1, <1>4, <1>8, <2>6, SMTT(30) DEF TypeOK
  <2>8. OrderInv'
    <3>1. DeliveredInOrder'
      BY <1>1, <1>8, Zenon DEF OrderInv, DeliveredInOrder
    <3>2. \A e \in PendingEvents \ C : lastRead < e.id /\ \A f \in Range(fmq) : f.id < e.id
      BY <1>4, SMTT(30) DEF OrderInv
    <3> QED
      BY <1>1, <1>4, <1>8, <3>1, <3>2, SMTT(30) DEF OrderInv
  <2>9. SessionInv'
    BY <1>1, <1>4, <1>8, SMTT(30) DEF SessionInv
  <2>10. ControlInv'
    BY <1>1, <1>4, <1>8, SMTT(30) DEF ControlInv
  <2>11. Outstanding' = n - w + ScopedReference /\ Outstanding = n + ScopedReference
    BY <1>3, <1>5, <2>2, SMTT(30) DEF n
  <2>12. CountInv'
    BY <1>1, <1>3, <2>2, <2>4, <2>5, <2>11, SMTT(30) DEF CountInv, NoLeakedReference, WakelockBalanced
  <2> QED
    BY <1>6, <2>7, <2>8, <2>9, <2>10, <2>12
<1> QED
  BY <1>7, <1>8 DEF PendingWrites
-----------------------------------------------------------------------------
(***************************************************************************)
(* postEventsToMessageQueue                                                *)
(***************************************************************************)
Written(n) == SubSeq(batch, 1, n)
Left(n) == SubSeq(batch, n + 1, Len(batch))
Queued(n) == IF Left(n) # <<>> /\ sizePending + Len(Left(n)) <= MAX_PENDING THEN Range(Left(n)) ELSE {}

\* How the batch is divided, and what it is not to be confused with.
LEMMA BatchFacts ==
  ASSUME IInv, NEW n \in {Direct, 0}
  PROVE  /\ Written(n) \in EventSeqs /\ Left(n) \in EventSeqs /\ Ascending(Written(n)) /\ Ascending(Left(n))
         /\ Range(batch) = Range(Written(n)) \cup Range(Left(n)) /\ Before(Written(n), Left(n))
         /\ Len(fmq) + Len(Written(n)) <= QUANTUM_COUNT /\ Len(Left(n)) \in Nat
         /\ pending # <<>> => Range(Written(n)) = {}
<1> USE DEF IInv
<1>1. Len(batch) \in Nat /\ Len(fmq) \in Nat /\ batch \in EventSeqs /\ Ascending(batch)
      /\ QUANTUM_COUNT \in Nat /\ Len(fmq) <= QUANTUM_COUNT
  BY SeqFacts, ConstantsAssumption DEF TypeOK, EventSeqs, OrderInv
<1>2. /\ n \in 0 .. Len(batch) /\ Len(fmq) + n <= QUANTUM_COUNT
      /\ pending # <<>> => n = 0
  <2>1. QUANTUM_COUNT - Len(fmq) \in Nat
    BY <1>1
  <2>2. Min({Len(batch), QUANTUM_COUNT - Len(fmq)})
          = IF Len(batch) <= QUANTUM_COUNT - Len(fmq) THEN Len(batch) ELSE QUANTUM_COUNT - Len(fmq)
    BY <1>1, <2>1, MinFacts, SMTT(30)
  <2> QED
    BY <1>1, <2>1, <2>2 DEF Direct
<1>3. /\ Written(n) \in EventSeqs /\ Left(n) \in EventSeqs /\ Len(Written(n)) = n
      /\ Len(Left(n)) = Len(batch) - n
      /\ Range(batch) = Range(Written(n)) \cup Range(Left(n))
      /\ Ascending(Written(n)) /\ Ascending(Left(n)) /\ Before(Written(n), Left(n))
  BY <1>1, <1>2, SplitFacts, SMTT(30) DEF Written, Left
<1>4. ASSUME pending # <<>>
      PROVE  Range(Written(n)) = {}
  <2>1. Written(n) = <<>>
    BY <1>2, <1>3, <1>4, EmptySeq, SMTT(30) DEF EventSeqs
  <2> QED
    BY <2>1, EmptyFacts
<1> QED
  BY <1>1, <1>2, <1>3, <1>4, SMTT(30)

LEMMA BatchApart ==
  ASSUME IInv, postPc = "post"
  PROVE  /\ \A e \in Range(batch) :
              lastRead < e.id /\ \A f \in Range(fmq) \cup PendingEvents : f.id < e.id
         /\ Range(batch) \cap (Range(fmq) \cup PendingEvents \cup Acked) = {}
         /\ Range(batch) \subseteq Events
<1> USE DEF IInv
<1>1. \A e \in Range(batch) :
        lastRead < e.id /\ \A f \in Range(fmq) \cup PendingEvents : f.id < e.id
  BY SMTT(30) DEF OrderInv
<1>2. Range(batch) \subseteq Events /\ Acked \subseteq Events /\ lastRead \in Nat
  BY TransitTyped, ConstantsAssumption, SMTT(30) DEF TypeOK
<1>3. \A e \in Acked : e.id <= lastRead /\ e.id \in Nat
  BY <1>2, IdType DEF AckInv
<1>4. \A e \in Range(batch) : e.id \in Nat
  BY <1>2, IdType
<1>5. \A e \in Range(batch) : e \notin Range(fmq) \cup PendingEvents
  BY <1>1, <1>4, SMTT(30)
<1>6. \A e \in Range(batch) : e \notin Acked
  BY <1>1, <1>2, <1>3, <1>4, SMTT(30)
<1> QED
  BY <1>1, <1>2, <1>5, <1>6, SMTT(30)

\* What a posted batch does to the queues.
LEMMA PostMoves ==
  ASSUME IInv, postEventsToMessageQueue, NEW n \in {Direct, 0}, fmq' = fmq \o Written(n),
         IF Left(n) # <<>> /\ sizePending + Len(Left(n)) <= MAX_PENDING
         THEN /\ pending' = Append(pending, Left(n)) /\ sizePending' = sizePending + Len(Left(n))
              /\ pendPc' = Woken(pendPc)
         ELSE UNCHANGED <<pending, sizePending, pendPc>>
  PROVE  /\ fmq' \in EventSeqs /\ Len(fmq') <= QUANTUM_COUNT /\ Ascending(fmq')
         /\ Range(fmq') = Range(fmq) \cup Range(Written(n))
         /\ pending' \in Queues /\ Sorted(pending') /\ PendingEvents' = PendingEvents \cup Queued(n)
         /\ Settled' = Settled /\ (pendPc' = "wrote" <=> pendPc = "wrote")
         /\ pendPc' = "writing" => pendPc = "writing"
         /\ pending # <<>> => pending' # <<>>
         /\ sizePending' = Cardinality(PendingEvents') /\ sizePending' <= MAX_PENDING
         /\ pendPc' \in ThreadStates \cup {"writing", "wrote"}
<1> USE DEF IInv
<1>1. postPc = "post"
  BY DEF postEventsToMessageQueue
<1>2. /\ Written(n) \in EventSeqs /\ Left(n) \in EventSeqs /\ Ascending(Written(n)) /\ Ascending(Left(n))
      /\ Range(batch) = Range(Written(n)) \cup Range(Left(n)) /\ Before(Written(n), Left(n))
      /\ Len(fmq) + Len(Written(n)) <= QUANTUM_COUNT /\ Len(Left(n)) \in Nat
  BY BatchFacts, SMTT(30)
<1>3. /\ \A e \in Range(batch) :
           lastRead < e.id /\ \A f \in Range(fmq) \cup PendingEvents : f.id < e.id
      /\ Range(batch) \cap (Range(fmq) \cup PendingEvents \cup Acked) = {}
      /\ Range(batch) \subseteq Events
  BY <1>1, BatchApart, SMTT(30)
<1>4. /\ fmq' \in EventSeqs /\ Len(fmq') <= QUANTUM_COUNT /\ Ascending(fmq')
      /\ Range(fmq') = Range(fmq) \cup Range(Written(n))
  <2>1. fmq \in EventSeqs /\ Ascending(fmq)
    BY DEF TypeOK, OrderInv, DeliveredInOrder, Ascending
  <2>2. Before(fmq, Written(n))
    BY <1>2, <1>3, SMTT(30) DEF Before
  <2>3. /\ fmq' \in EventSeqs /\ Len(fmq') = Len(fmq) + Len(Written(n)) /\ Ascending(fmq')
        /\ Range(fmq') = Range(fmq) \cup Range(Written(n))
    BY <1>2, <2>1, <2>2, ConcatFacts, SMTT(30)
  <2> QED
    BY <1>2, <2>3, SMTT(30)
<1>5. pending \in Queues /\ Sorted(pending) /\ AllOf(pending) = PendingEvents
      /\ AllOf(pending') = PendingEvents'
  BY SMTT(30) DEF TypeOK, Queues, PendingInv, AllOf, PendingEvents
<1>6. CASE Left(n) # <<>> /\ sizePending + Len(Left(n)) <= MAX_PENDING
  <2>1. /\ pending' = Append(pending, Left(n)) /\ sizePending' = sizePending + Len(Left(n))
        /\ pendPc' = Woken(pendPc) /\ Queued(n) = Range(Left(n))
    BY <1>6, SMTT(30) DEF Queued
  <2>2. \A e \in AllOf(pending), f \in Range(Left(n)) : e.id < f.id
    BY <1>2, <1>3, <1>5, SMTT(30)
  <2>3. /\ pending' \in Queues /\ Sorted(pending') /\ pending' # <<>>
        /\ AllOf(pending') = AllOf(pending) \cup Range(Left(n))
        /\ pending # <<>> => Head(pending') = Head(pending)
    BY <1>2, <1>5, <1>6, <2>1, <2>2, AppendQueue, SMTT(30)
  <2>4. /\ pendPc' = "wrote" <=> pendPc = "wrote"
        /\ pendPc' = "writing" => pendPc = "writing"
        /\ pendPc' \in ThreadStates \cup {"writing", "wrote"}
    BY <2>1 DEF Woken, TypeOK, ThreadStates
  <2>5. Settled' = Settled
    <3>1. CASE pendPc = "wrote"
      <4>1. Head(pending') = Head(pending)
        BY <2>3, <3>1, SMTT(30) DEF PendingInv
      <4> QED
        BY <2>4, <3>1, <4>1, Zenon DEF Settled, Chunk
    <3>2. CASE pendPc # "wrote"
      BY <2>4, <3>2 DEF Settled
    <3> QED
      BY <3>1, <3>2
  <2>6. sizePending' = Cardinality(PendingEvents') /\ sizePending' <= MAX_PENDING
    <3>1. Cardinality(PendingEvents \cup Range(Left(n))) = Cardinality(PendingEvents) + Cardinality(Range(Left(n)))
      <4>1. /\ PendingEvents \in SUBSET Events /\ Range(Left(n)) \in SUBSET Events
            /\ PendingEvents \cap Range(Left(n)) = {}
        BY <1>2, <1>3, TransitTyped, Zenon
      <4> QED
        BY <4>1, DisjointCount, Zenon
    <3>2. Len(Left(n)) = Cardinality(Range(Left(n)))
      BY <1>2, SeqCount, SMTT(30)
    <3> QED
      BY <1>5, <1>6, <2>1, <2>3, <3>1, <3>2, Zenon DEF TypeOK
  <2> QED
    BY <1>4, <1>5, <2>1, <2>3, <2>4, <2>5, <2>6, SMTT(30)
<1>7. CASE ~(Left(n) # <<>> /\ sizePending + Len(Left(n)) <= MAX_PENDING)
  <2>1. UNCHANGED <<pending, sizePending, pendPc>> /\ Queued(n) = {}
    BY <1>7, SMTT(30) DEF Queued
  <2>2. PendingEvents' = PendingEvents /\ Settled' = Settled
    BY <2>1 DEF PendingEvents, Settled, Chunk
  <2> QED
    BY <1>4, <1>5, <2>1, <2>2, SMTT(30) DEF TypeOK
<1> QED
  BY <1>6, <1>7, SMTT(30)
\* The references taken for a batch are those of the events that stay.
LEMMA PostCounts ==
  ASSUME IInv, postEventsToMessageQueue, NEW n \in {Direct, 0}, fmq' = fmq \o Written(n)
  PROVE  LET new == Range(Written(n)) \cup Queued(n)
             fits == sizePending + Len(Left(n)) <= MAX_PENDING
             taken == IF scoped # "none" THEN Wakeups(batch) ELSE 0
         IN /\ new \subseteq Range(batch) /\ Cardinality(Wake(new)) \in Nat /\ taken \in Nat
            /\ Left(n) = <<>> \/ fits => taken = Cardinality(Wake(new))
            /\ ~(Left(n) = <<>> \/ fits) =>
                 /\ OverflowReferences(Left(n)) \in Nat
                 /\ taken = Cardinality(Wake(new)) + OverflowReferences(Left(n))
<1> USE DEF IInv
<1> DEFINE new == Range(Written(n)) \cup Queued(n)
           fits == sizePending + Len(Left(n)) <= MAX_PENDING
           taken == IF scoped # "none" THEN Wakeups(batch) ELSE 0
<1>1. /\ Written(n) \in EventSeqs /\ Left(n) \in EventSeqs /\ Ascending(Written(n)) /\ Ascending(Left(n))
      /\ Range(batch) = Range(Written(n)) \cup Range(Left(n)) /\ Before(Written(n), Left(n))
      /\ batch \in EventSeqs /\ Ascending(batch) /\ Range(batch) \subseteq Events
  BY BatchFacts, TransitTyped, Zenon DEF TypeOK, OrderInv
<1>2. Wakeups(batch) = Cardinality(Wake(Range(batch))) /\ Wakeups(Left(n)) = Cardinality(Wake(Range(Left(n))))
  BY <1>1, SeqCount, Zenon
<1>3. taken = Wakeups(batch)
  BY Zenon DEF postEventsToMessageQueue, ControlInv
<1>4. Queued(n) \subseteq Range(Left(n))
  BY DEF Queued
<1>5. new \subseteq Range(batch)
  BY <1>1, <1>4, SMTT(30)
<1>6. Cardinality(Wake(new)) \in Nat /\ Cardinality(Wake(Range(batch))) \in Nat
      /\ Cardinality(Wake(Range(Left(n)))) \in Nat
  BY <1>1, <1>5, Finite
<1>7. CASE Left(n) = <<>> \/ fits
  <2>1. Queued(n) = Range(Left(n))
    BY <1>7, EmptyFacts, SMTT(30) DEF Queued
  <2> QED
    BY <1>1, <1>2, <1>3, <1>5, <1>6, <1>7, <2>1, Zenon
<1>8. CASE ~(Left(n) = <<>> \/ fits)
  <2>1. Queued(n) = {}
    BY <1>8 DEF Queued
  <2>2. Range(Written(n)) \cap Range(Left(n)) = {}
    <3>1. \A e \in Range(Written(n)) : e.id \in Nat
      BY <1>1, IdType
    <3> QED
      BY <1>1, <3>1, SMTT(30) DEF Before
  <2>3. Range(Written(n)) \in SUBSET Events /\ Range(Left(n)) \in SUBSET Events
    BY <1>1, SMTT(30)
  <2>4. Cardinality(Wake(Range(batch)))
          = Cardinality(Wake(Range(Written(n)))) + Cardinality(Wake(Range(Left(n))))
    <3>1. Cardinality(Wake(Range(Written(n)) \cup Range(Left(n))))
            = Cardinality(Wake(Range(Written(n)))) + Cardinality(Wake(Range(Left(n))))
      BY <2>2, <2>3, DisjointCount, Zenon
    <3> QED
      BY <1>1, <3>1, Zenon
  <2>5. new = Range(Written(n))
    BY <2>1
  <2>6. OverflowReferences(Left(n)) = Cardinality(Wake(Range(Left(n))))
    BY <1>2, SMTT(30) DEF OverflowReferences
  <2> HIDE DEF new, fits, taken
  <2>7. taken = Cardinality(Wake(new)) + OverflowReferences(Left(n))
    BY <1>2, <1>3, <2>4, <2>5, <2>6, SMTT(30)
  <2>8. OverflowReferences(Left(n)) \in Nat /\ taken \in Nat
    BY <1>2, <1>3, <1>6, <2>6, SMTT(30)
  <2> QED
    BY <1>5, <1>6, <1>8, <2>7, <2>8, SMTT(30) DEF new, fits, taken
<1> QED
  BY <1>7, <1>8, Zenon

LEMMA PostKeeps == ASSUME IInv, postEventsToMessageQueue PROVE IInv'
<1> USE DEF IInv
<1>1. /\ UNCHANGED <<threadsRun, session, initPc, subHalReady, batch, nextId, scoped, timedOut,
                     got, acks, unacked, lastRead>>
      /\ postPc = "post" /\ postPc' = "release"
  BY Zenon DEF postEventsToMessageQueue, initVars, frameworkVars
<1>2. Acked' = Acked /\ ScopedReference' = ScopedReference /\ Wakeups(batch)' = Wakeups(batch)
  BY <1>1 DEF Acked, ScopedReference, Wakeups
<1>3. CASE UNCHANGED <<fmq, pending, sizePending, pendPc, refCount, expired, wakePc>>
  <2>1. PendingEvents' = PendingEvents /\ Settled' = Settled /\ InTransit' = InTransit
    BY <1>1, <1>3, SameEvents, SMTT(30)
  <2>2. TypeOK'
    BY <1>1, <1>3, <2>1, SMTT(30) DEF TypeOK
  <2>3. PendingInv' /\ OrderInv' /\ AckInv' /\ SessionInv'
    BY <1>1, <1>2, <1>3, <2>1, Zenon DEF PendingInv, OrderInv, DeliveredInOrder, AckInv, SessionInv
  <2>4. ControlInv'
    BY <1>1, <1>3, Zenon DEF ControlInv
  <2>5. Outstanding' = Outstanding
    BY <1>2, <2>1 DEF Outstanding
  <2>6. CountInv'
    BY <1>1, <1>3, <2>5, SMTT(30) DEF CountInv, NoLeakedReference, WakelockBalanced
  <2> QED
    BY <2>2, <2>3, <2>4, <2>6, SMTT(30)
<1> DEFINE Fits(n) == sizePending + Len(Left(n)) <= MAX_PENDING
           taken == IF scoped # "none" THEN Wakeups(batch) ELSE 0
           New(n) == Range(Written(n)) \cup Queued(n)
<1>4. ASSUME NEW n \in {Direct, 0}, threadsRun, fmq' = fmq \o Written(n),
             IF Left(n) # <<>> /\ Fits(n)
             THEN /\ pending' = Append(pending, Left(n)) /\ sizePending' = sizePending + Len(Left(n))
                  /\ pendPc' = Woken(pendPc)
             ELSE UNCHANGED <<pending, sizePending, pendPc>>,
             refCount' = IF Left(n) = <<>> \/ Fits(n)
                           THEN refCount + taken
                           ELSE Minus(refCount + taken, OverflowReferences(Left(n))),
             expired' = IF taken > 0 THEN FALSE ELSE expired,
             wakePc' = IF taken > 0 /\ refCount = 0 THEN Woken(wakePc) ELSE wakePc
      PROVE  IInv'
  <2>1. /\ fmq' \in EventSeqs /\ Len(fmq') <= QUANTUM_COUNT /\ Ascending(fmq')
        /\ Range(fmq') = Range(fmq) \cup Range(Written(n))
        /\ pending' \in Queues /\ Sorted(pending') /\ PendingEvents' = PendingEvents \cup Queued(n)
        /\ Settled' = Settled /\ (pendPc' = "wrote" <=> pendPc = "wrote")
        /\ pendPc' = "writing" => pendPc = "writing"
        /\ pending # <<>> => pending' # <<>>
        /\ sizePending' = Cardinality(PendingEvents') /\ sizePending' <= MAX_PENDING
        /\ pendPc' \in ThreadStates \cup {"writing", "wrote"}
    BY <1>4, PostMoves, Zenon
  <2>2. /\ \A e \in Range(batch) :
             lastRead < e.id /\ \A f \in Range(fmq) \cup PendingEvents : f.id < e.id
        /\ Range(batch) \cap (Range(fmq) \cup PendingEvents \cup Acked) = {}
        /\ Range(batch) \subseteq Events
    BY <1>1, BatchApart
  <2>3. /\ New(n) \subseteq Range(batch) /\ Cardinality(Wake(New(n))) \in Nat /\ taken \in Nat
        /\ Left(n) = <<>> \/ Fits(n) => taken = Cardinality(Wake(New(n)))
        /\ ~(Left(n) = <<>> \/ Fits(n)) =>
             /\ OverflowReferences(Left(n)) \in Nat
             /\ taken = Cardinality(Wake(New(n))) + OverflowReferences(Left(n))
    BY <1>4, PostCounts, Zenon
  <2>4. /\ Range(batch) = Range(Written(n)) \cup Range(Left(n)) /\ Before(Written(n), Left(n))
        /\ pending # <<>> => Range(Written(n)) = {}
        /\ Queued(n) \subseteq Range(Left(n))
    BY <1>4, BatchFacts, SMTT(30) DEF Queued
  <2> HIDE DEF Fits, taken
  <2>5. refCount \in Nat /\ refCount' = refCount + Cardinality(Wake(New(n))) /\ refCount' \in Nat
    <3>1. CASE Left(n) = <<>> \/ Fits(n)
      BY <1>4, <2>3, <3>1, SMTT(30) DEF TypeOK
    <3>2. CASE ~(Left(n) = <<>> \/ Fits(n))
      <4> DEFINE m == refCount + taken
                 o == OverflowReferences(Left(n))
                 w == Cardinality(Wake(New(n)))
      <4>1. refCount' = Minus(m, o)
        BY <1>4, <3>2, SMTT(30)
      <4>2. w \in Nat /\ o \in Nat /\ taken = w + o /\ refCount \in Nat
        BY <2>3, <3>2 DEF TypeOK
      <4> HIDE DEF o, w
      <4>3. m = refCount + w + o /\ m \in Nat
        BY <4>2
      <4> HIDE DEF m
      <4>4. refCount' = IF o <= m THEN m - o ELSE 0
        BY <4>1, <4>2, <4>3, MinFacts, Zenon
      <4>5. refCount' = refCount + w
        BY <4>2, <4>3, <4>4, SMTT(30)
      <4> QED
        BY <4>2, <4>5, SMTT(30) DEF w
    <3> QED
      BY <3>1, <3>2, SMTT(30)
  <2>6. expired' \in BOOLEAN /\ wakePc' \in {wakePc, Woken(wakePc)}
    BY <1>4, ZenonT(30) DEF TypeOK
  <2>7. wakePc' \in ThreadStates \cup {"reading", "got"} /\ (wakePc' # "got" => wakePc # "got")
    BY <2>6 DEF Woken, TypeOK, ThreadStates
  <2>8. TypeOK'
    BY <1>1, <2>1, <2>5, <2>6, <2>7, Zenon DEF TypeOK, Queues
  <2>9. PendingInv' /\ AckInv'
    BY <1>1, <1>2, <2>1, Zenon DEF PendingInv, AckInv
  <2>10. OrderInv'
    <3>1. DeliveredInOrder'
      <4>1. \A e \in Range(fmq') : lastRead < e.id
        <5>1. \A e \in Range(fmq) : lastRead < e.id
          BY ZenonT(30) DEF OrderInv, DeliveredInOrder, Range
        <5> QED
          BY <2>1, <2>2, <2>4, <5>1, SMTT(30)
      <4> QED
        BY <1>1, <2>1, <4>1, ZenonT(30) DEF DeliveredInOrder, Ascending, Range
    <3>2. \A e \in PendingEvents' \ Settled : lastRead < e.id /\ \A f \in Range(fmq') : f.id < e.id
      <4> SUFFICES ASSUME NEW e \in PendingEvents' \ Settled
                   PROVE  lastRead < e.id /\ \A f \in Range(fmq') : f.id < e.id
        BY SMTT(30)
      <4>1. CASE e \in PendingEvents
        <5>1. pending # <<>>
          BY <4>1, EmptyFacts, Zenon DEF PendingEvents
        <5> QED
          BY <2>1, <2>4, <4>1, <5>1, SMTT(30) DEF OrderInv
      <4>2. CASE e \in Queued(n)
        BY <2>1, <2>2, <2>4, <4>2, SMTT(30) DEF Before
      <4> QED
        BY <2>1, <4>1, <4>2, SMTT(30)
    <3>3. \A e \in Range(fmq') \cup PendingEvents' \cup Range(batch) : e.id < nextId
      BY <2>1, <2>4, Zenon DEF OrderInv
    <3> QED
      BY <1>1, <2>1, <3>1, <3>2, <3>3, Zenon DEF OrderInv
  <2>11. SessionInv'
    <3>1. \A e \in Range(batch) : e.session = session
      BY <1>1 DEF SessionInv
    <3> QED
      BY <1>1, <2>1, <2>4, <3>1, Zenon DEF SessionInv
  <2>12. ControlInv'
    BY <1>1, <1>2, <1>4, <2>7, Zenon DEF ControlInv
  <2>13. CountInv'
    <3>1. /\ InTransit = Range(fmq) \cup (PendingEvents \ Settled) \cup Acked
          /\ InTransit' = Range(fmq') \cup (PendingEvents' \ Settled') \cup Acked'
          /\ InTransit \subseteq Events
      BY TransitTyped, Zenon DEF InTransit, Acked
    <3>2. Settled \subseteq PendingEvents
      BY ChunkFacts DEF Settled, PendingInv
    <3>3. InTransit' = InTransit \cup New(n) /\ InTransit \cap New(n) = {}
      BY <1>2, <2>1, <2>2, <2>3, <3>1, <3>2, Zenon
    <3>4. Cardinality(Wake(InTransit')) = Cardinality(Wake(InTransit)) + Cardinality(Wake(New(n)))
      <4>1. InTransit \in SUBSET Events /\ New(n) \in SUBSET Events
        BY <2>2, <2>3, <3>1, Zenon
      <4> HIDE DEF New
      <4>2. Cardinality(Wake(InTransit \cup New(n))) = Cardinality(Wake(InTransit)) + Cardinality(Wake(New(n)))
        BY <3>3, <4>1, DisjointCount, Zenon
      <4> QED
        BY <3>3, <4>2, Zenon
    <3> DEFINE t == Cardinality(Wake(InTransit))
               w == Cardinality(Wake(New(n)))
    <3>5. t \in Nat /\ w \in Nat /\ ScopedReference \in 0 .. 1 /\ Outstanding = t + ScopedReference
      BY <2>3, TransitTyped, Zenon
    <3>6. Outstanding' = t + w + ScopedReference
      <4>1. Outstanding' = Cardinality(Wake(InTransit')) + ScopedReference'
        BY DEF Outstanding, Wake
      <4> QED
        BY <1>2, <3>4, <4>1, SMTT(30)
    <3>7. refCount' = refCount + w
      BY <2>5
    <3> HIDE DEF t, w
    <3> QED
      BY <1>1, <2>5, <3>5, <3>6, <3>7, SMTT(30) DEF CountInv, NoLeakedReference, WakelockBalanced
  <2> QED
    BY <2>8, <2>9, <2>10, <2>11, <2>12, <2>13, SMTT(30)
<1> QED
  BY <1>3, <1>4, Zenon DEF postEventsToMessageQueue, Left, Written
-----------------------------------------------------------------------------
LEMMA InitHolds == Init => IInv
<1> SUFFICES ASSUME Init PROVE IInv
  OBVIOUS
<1>1. Range(fmq) = {} /\ Range(acks) = {} /\ Range(batch) = {} /\ PendingEvents = {} /\ Acked = {}
      /\ InTransit = {}
  BY EmptyFacts DEF Init, PendingEvents, Acked, InTransit
<1>2. TypeOK
  <2>1. /\ batch \in EventSeqs /\ fmq \in EventSeqs /\ pending \in Seq(EventSeqs)
        /\ acks \in Seq(SUBSET Events) /\ Len(fmq) = 0
    BY EmptyFacts, SMTT(30) DEF Init, EventSeqs
  <2>2. sizePending = Cardinality(PendingEvents)
    BY <1>1, FS_EmptySet DEF Init
  <2>3. /\ 0 <= MAX_PENDING /\ 0 <= QUANTUM_COUNT /\ 0 \in 0 .. MAX_EVENTS
        /\ 0 \in 0 .. MAX_INITS /\ 1 \in 1 .. MAX_EVENTS + 1
    BY ConstantsAssumption, SMTT(30)
  <2> QED
    BY <2>1, <2>2, <2>3, Zenon DEF Init, TypeOK, ThreadStates
<1>3. PendingInv /\ AckInv
  BY <1>1, EmptyFacts, SMTT(30) DEF Init, PendingInv, Sorted, AckInv
<1>4. OrderInv
  BY <1>1, EmptyFacts, SMTT(30) DEF Init, OrderInv, DeliveredInOrder
<1>5. ControlInv /\ SessionInv
  BY <1>1 DEF Init, ControlInv, SessionInv
<1>6. CountInv
  <2>1. Cardinality({}) = 0
    BY FS_EmptySet
  <2>2. Outstanding = 0
    BY <1>1, <2>1 DEF Init, Outstanding, ScopedReference
  <2> QED
    BY <2>2 DEF Init, CountInv, NoLeakedReference, WakelockBalanced
<1> QED
  BY <1>2, <1>3, <1>4, <1>5, <1>6, SMTT(30) DEF IInv

LEMMA StepHolds == IInv /\ [Next]_vars => IInv'
<1> SUFFICES ASSUME IInv, [Next]_vars PROVE IInv'
  OBVIOUS
<1>1. CASE UNCHANGED vars
  <2>1. /\ UNCHANGED <<threadsRun, session, initPc, subHalReady, postPc, batch, nextId, scoped,
                       refCount, expired, timedOut, fmq, pending, sizePending>>
        /\ UNCHANGED <<pendPc, wakePc, got, acks, unacked, lastRead>>
    BY <1>1, SMTT(30) DEF vars, initVars, postVars, wakeVars, frameworkVars
  <2>2. Quiet
    BY <2>1 DEF Quiet, IInv, PendingInv
  <2>3. PendingInv' /\ OrderInv' /\ AckInv' /\ InTransit' = InTransit /\ PendingEvents' = PendingEvents
    BY <2>2, QuietKeeps, SMTT(30)
  <2>4. TypeOK'
    BY <2>1, <2>3 DEF IInv, TypeOK
  <2>5. ControlInv' /\ SessionInv'
    BY <2>1, <2>3, Zenon DEF IInv, ControlInv, SessionInv, Wakeups
  <2>6. Outstanding' = Outstanding
    BY <2>1, <2>3, SMTT(30) DEF Outstanding, ScopedReference
  <2>7. CountInv'
    BY <2>1, <2>6, SMTT(30) DEF IInv, CountInv, NoLeakedReference, WakelockBalanced
  <2> QED
    BY <2>3, <2>4, <2>5, <2>7, SMTT(30) DEF IInv
<1>2. CASE QuietStep
  BY <1>2, QuietSteps, QuietKeeps, QuietTyped, QuietControl, QuietSession, QuietCount, SMTT(30) DEF IInv
<1>3. CASE \E b \in Batches : createScopedWakelock(b)
  BY <1>3, CreateKeeps
<1>4. CASE postEventsToMessageQueue \/ releaseScopedWakelock
  BY <1>4, PostKeeps, ReleaseKeeps
<1>5. CASE PendingWrites \/ PendingPops
  BY <1>5, WritesKeeps, PopsKeeps
<1>6. CASE WakelockReads \/ WakelockAcknowledges
  BY <1>6, ReadsKeeps, GivesBackKeeps, SMTT(30)
<1>7. CASE SwapQueues \/ ReadEvent \/ Acknowledge
  BY <1>7, SwapKeeps, ReadEventKeeps, AcknowledgeKeeps
<1> QED
  BY <1>1, <1>2, <1>3, <1>4, <1>5, <1>6, <1>7, SMTT(30)
     DEF Next, PostThread, PendingThread, WakelockThread, InitThread, QuietStep

LEMMA Inductive == Spec => []IInv
  BY InitHolds, StepHolds, PTL DEF Spec

\* The state is well typed; in particular mSizePendingWriteEventsQueue is the
\* number of events in mPendingWriteEventsQueue and both queues keep to their
\* capacities.
THEOREM ProxyTyped == Spec => []TypeOK
<1>1. IInv => TypeOK
  BY DEF IInv
<1> QED
  BY <1>1, Inductive, PTL

\* Between the start of the threads and a timeout of the wake lock,
\* mWakelockRefCount is the number of wake-up events on their way to the
\* framework's acknowledgement and the reference of a poster.
THEOREM AlwaysBalanced == Spec => []WakelockBalanced
<1>1. IInv => WakelockBalanced
  BY DEF IInv, CountInv
<1> QED
  BY <1>1, Inductive, PTL

\* At no time are there references that no acknowledgement will give back:
\* not after a timeout, with a ScopedWakelock from before it, or across
\* initialize.
THEOREM NeverLeaked == Spec => []NoLeakedReference
<1>1. IInv => NoLeakedReference
  BY SMTT(30) DEF IInv, CountInv
<1> QED
  BY <1>1, Inductive, PTL

\* postEventsToMessageQueue and handlePendingWrites together write the event
\* FMQ in the order of the posts.
THEOREM AlwaysInOrder == Spec => []DeliveredInOrder
<1>1. IInv => DeliveredInOrder
  BY SMTT(30) DEF IInv, OrderInv
<1> QED
  BY <1>1, Inductive, PTL

\* A batch that the poll thread has read for one framework is not written for
\* the next.
THEOREM NeverStale == Spec => []NoStaleSession
<1>1. IInv => NoStaleSession
  BY DEF IInv, SessionInv, NoStaleSession
<1> QED
  BY <1>1, Inductive, PTL
=============================================================================
