--------------------------- MODULE HalProxyInvariant ---------------------------
(***************************************************************************)
(* The inductive invariant of HalProxy, for any capacities of the two      *)
(* queues, any batches and any number of events and sessions; what its     *)
(* operators compute; and that the steps which move no event between the   *)
(* queues preserve it.                                                     *)
(***************************************************************************)
EXTENDS HalProxy, SequenceTheorems, FiniteSetTheorems, TLAPS

Ascending(s) == \A i, j \in DOMAIN s : i < j => s[i].id < s[j].id
Before(s, t) == \A e \in Range(s), f \in Range(t) : e.id < f.id
Sorted(q) ==
  /\ \A i \in DOMAIN q : q[i] # <<>> /\ Ascending(q[i])
  /\ \A i, k \in DOMAIN q : i < k => Before(q[i], q[k])

AllOf(q) == UNION {Range(q[i]) : i \in DOMAIN q}
Wake(S) == {e \in S : e.wake}
Acked == unacked \cup got \cup UNION Range(acks)

\* The pending queue is in order, and holds the chunk that is being written.
PendingInv == Sorted(pending) /\ (pendPc \in {"writing", "wrote"} => pending # <<>>)

\* The events are in the order of their ids: what the framework has read, the
\* FMQ, the pending queue without a chunk already taken from it, and the batch
\* that is still to be posted.
OrderInv ==
  /\ DeliveredInOrder /\ Ascending(batch)
  /\ \A e \in PendingEvents \ Settled : lastRead < e.id /\ \A f \in Range(fmq) : f.id < e.id
  /\ lastRead < nextId
  /\ \A e \in Range(fmq) \cup PendingEvents \cup Range(batch) : e.id < nextId
  /\ postPc \in {"check", "post"} =>
       \A e \in Range(batch) :
         lastRead < e.id /\ \A f \in Range(fmq) \cup PendingEvents : f.id < e.id

\* No event is acknowledged twice, and none before it was read.
AckInv ==
  /\ \A e \in Acked : e.wake /\ e.id <= lastRead
  /\ got \cap unacked = {}
  /\ \A i \in DOMAIN acks :
       /\ acks[i] \cap (unacked \cup got) = {}
       /\ \A k \in DOMAIN acks : i # k => acks[i] \cap acks[k] = {}

\* What initialize can rely on at each of its steps.
ControlInv ==
  /\ wakePc # "got" => got = {}
  /\ postPc = "idle" => scoped = "none"
  /\ postPc = "post" /\ scoped = "none" => Wakeups(batch) = 0
  /\ initPc \in {"notify", "join", "disable", "swap", "subHal", "start"} => ~threadsRun
  /\ ~threadsRun /\ initPc \notin {"notify", "join"} =>
       pendPc = "none" /\ wakePc = "none" /\ refCount = 0 /\ scoped # "live"
  /\ initPc \in {"swap", "subHal", "start"} => scoped = "none" /\ postPc # "post"
  /\ initPc \in {"subHal", "start"} =>
       fmq = <<>> /\ pending = <<>> /\ acks = <<>> /\ unacked = {}
  /\ threadsRun /\ ~timedOut => scoped # "stale"
  /\ initPc \in {"stop", "notify", "join", "disable", "swap"} => session < MAX_INITS

\* A batch of an earlier session is only found where it will be dropped.
SessionInv ==
  /\ \A e \in Range(fmq) \cup PendingEvents : e.session = session
  /\ postPc = "post" \/ (postPc = "check" /\ (threadsRun \/ initPc = "start")) =>
       \A e \in Range(batch) : e.session = session

CountInv == NoLeakedReference /\ WakelockBalanced

IInv == /\ TypeOK /\ PendingInv /\ OrderInv /\ AckInv /\ ControlInv /\ SessionInv /\ CountInv
-----------------------------------------------------------------------------
(***************************************************************************)
(* Sequences and the events in them                                        *)
(***************************************************************************)
LEMMA SeqFacts ==
  ASSUME NEW S, NEW s \in Seq(S)
  PROVE  /\ DOMAIN s = 1 .. Len(s) /\ Len(s) \in Nat /\ Range(s) \subseteq S
         /\ \A i \in 1 .. Len(s) : s[i] \in Range(s) /\ s[i] \in S
         /\ \A e \in Range(s) : \E i \in 1 .. Len(s) : e = s[i]
<1>1. DOMAIN s = 1 .. Len(s) /\ Len(s) \in Nat
  BY LenProperties
<1>2. \A i \in 1 .. Len(s) : s[i] \in S
  BY ElementOfSeq
<1> QED
  BY <1>1, <1>2 DEF Range

LEMMA EmptyFacts ==
  /\ Range(<<>>) = {} /\ DOMAIN <<>> = {} /\ Ascending(<<>>) /\ Len(<<>>) = 0
  /\ \A S : <<>> \in Seq(S)
<1>1. DOMAIN <<>> = {} /\ Len(<<>>) = 0 /\ \A S : <<>> \in Seq(S)
  BY EmptySeq
<1> QED
  BY <1>1 DEF Range, Ascending

LEMMA TailFacts ==
  ASSUME NEW S, NEW s \in Seq(S), s # <<>>
  PROVE  /\ Head(s) \in S /\ Head(s) = s[1] /\ 1 \in DOMAIN s
         /\ Tail(s) \in Seq(S) /\ Len(Tail(s)) = Len(s) - 1
         /\ \A i \in DOMAIN Tail(s) : Tail(s)[i] = s[i + 1] /\ i + 1 \in DOMAIN s
         /\ Range(s) = {Head(s)} \cup Range(Tail(s))
<1>1. /\ Head(s) \in S /\ Head(s) = s[1] /\ Tail(s) \in Seq(S) /\ Len(Tail(s)) = Len(s) - 1
      /\ Len(s) \in Nat \ {0} /\ \A i \in 1 .. Len(Tail(s)) : Tail(s)[i] = s[i + 1]
  BY HeadTailProperties, LenProperties, EmptySeq
<1>2. DOMAIN s = 1 .. Len(s) /\ DOMAIN Tail(s) = 1 .. Len(s) - 1
  BY <1>1, LenProperties
<1>3. \A i \in 1 .. Len(s) : i = 1 \/ i - 1 \in 1 .. Len(s) - 1
  BY <1>1
<1>4. ASSUME NEW e \in Range(s)
      PROVE  e \in {Head(s)} \cup Range(Tail(s))
  <2>1. PICK i \in 1 .. Len(s) : e = s[i]
    BY <1>2 DEF Range
  <2>2. CASE i = 1
    BY <1>1, <2>1, <2>2
  <2>3. CASE i - 1 \in 1 .. Len(s) - 1
    <3>1. Tail(s)[i - 1] = s[(i - 1) + 1] /\ (i - 1) + 1 = i
      BY <1>1, <2>1, <2>3
    <3> QED
      BY <1>2, <2>1, <2>3, <3>1, Zenon DEF Range
  <2> QED
    BY <1>3, <2>2, <2>3
<1>5. \A i \in DOMAIN Tail(s) : Tail(s)[i] = s[i + 1] /\ i + 1 \in DOMAIN s
  BY <1>1, <1>2
<1>6. {Head(s)} \cup Range(Tail(s)) \subseteq Range(s)
  BY <1>1, <1>2, <1>5 DEF Range
<1> QED
  BY <1>1, <1>2, <1>4, <1>5, <1>6

LEMMA TailAscends ==
  ASSUME NEW s \in EventSeqs, s # <<>>, Ascending(s)
  PROVE  Ascending(Tail(s)) /\ \A e \in Range(Tail(s)) : Head(s).id < e.id
<1>1. /\ Head(s) = s[1] /\ 1 \in DOMAIN s
      /\ \A i \in DOMAIN Tail(s) : Tail(s)[i] = s[i + 1] /\ i + 1 \in DOMAIN s
      /\ DOMAIN Tail(s) = 1 .. Len(Tail(s))
  BY TailFacts, SeqFacts DEF EventSeqs
<1>2. \A i, j \in 1 .. Len(Tail(s)) : 1 < i + 1 /\ (i < j => i + 1 < j + 1)
  OBVIOUS
<1> QED
  BY <1>1, <1>2 DEF Ascending, Range

LEMMA ConcatFacts ==
  ASSUME NEW s \in EventSeqs, NEW t \in EventSeqs
  PROVE  /\ s \o t \in EventSeqs /\ Len(s \o t) = Len(s) + Len(t)
         /\ Range(s \o t) = Range(s) \cup Range(t)
         /\ Ascending(s) /\ Ascending(t) /\ Before(s, t) => Ascending(s \o t)
<1> DEFINE m == Len(s)
           n == Len(t)
<1>1. /\ s \o t \in EventSeqs /\ Len(s \o t) = m + n /\ m \in Nat /\ n \in Nat
      /\ DOMAIN s = 1 .. m /\ DOMAIN t = 1 .. n /\ DOMAIN (s \o t) = 1 .. m + n
  BY ConcatProperties, SeqFacts DEF EventSeqs
<1>2. \A i \in 1 .. m + n : (s \o t)[i] = IF i <= m THEN s[i] ELSE t[i - m]
  BY ConcatProperties DEF EventSeqs
<1> HIDE DEF m, n
<1>3. \A i \in 1 .. m + n : \/ i \in 1 .. m /\ (s \o t)[i] = s[i]
                            \/ i > m /\ i - m \in 1 .. n /\ (s \o t)[i] = t[i - m]
  BY <1>1, <1>2
<1>4. Range(s \o t) \subseteq Range(s) \cup Range(t)
  BY <1>1, <1>3 DEF Range
<1>5. ASSUME NEW e \in Range(s)
      PROVE  e \in Range(s \o t)
  <2>1. PICK i \in 1 .. m : e = s[i]
    BY <1>1 DEF Range
  <2>2. i \in 1 .. m + n /\ (s \o t)[i] = s[i]
    BY <1>1, <1>2
  <2> QED
    BY <1>1, <2>1, <2>2 DEF Range
<1>6. ASSUME NEW e \in Range(t)
      PROVE  e \in Range(s \o t)
  <2>1. PICK i \in 1 .. n : e = t[i]
    BY <1>1 DEF Range
  <2>2. m + i \in 1 .. m + n /\ (s \o t)[m + i] = t[(m + i) - m] /\ (m + i) - m = i
    BY <1>1, <1>2
  <2> QED
    BY <1>1, <2>1, <2>2, SMTT(30) DEF Range
<1>7. ASSUME Ascending(s), Ascending(t), Before(s, t), NEW i \in 1 .. m + n,
             NEW j \in 1 .. m + n, i < j
      PROVE  (s \o t)[i].id < (s \o t)[j].id
  <2>1. CASE j \in 1 .. m /\ (s \o t)[j] = s[j]
    <3>1. i \in 1 .. m /\ (s \o t)[i] = s[i]
      BY <1>1, <1>2, <1>7, <2>1
    <3> QED
      BY <1>1, <1>7, <2>1, <3>1 DEF Ascending
  <2>2. CASE j > m /\ j - m \in 1 .. n /\ (s \o t)[j] = t[j - m]
    <3>1. CASE i \in 1 .. m /\ (s \o t)[i] = s[i]
      BY <1>1, <1>7, <2>2, <3>1, Zenon DEF Before, Range
    <3>2. CASE i > m /\ i - m \in 1 .. n /\ (s \o t)[i] = t[i - m]
      <4>1. i - m < j - m
        BY <1>1, <1>7
      <4> QED
        BY <1>1, <1>7, <2>2, <3>2, <4>1, Zenon DEF Ascending
    <3> QED
      BY <1>3, <3>1, <3>2, Zenon
  <2> QED
    BY <1>3, <2>1, <2>2, Zenon
<1>8. Ascending(s) /\ Ascending(t) /\ Before(s, t) => Ascending(s \o t)
  BY <1>1, <1>7, Zenon DEF Ascending
<1> QED
  BY <1>1, <1>4, <1>5, <1>6, <1>8 DEF m, n

\* s cut in two, after its first n elements.
IsCut(s, a, b, n) ==
  /\ n \in Nat /\ Len(b) \in Nat /\ Len(a) = n /\ Len(s) = n + Len(b)
  /\ \A i \in 1 .. n : a[i] = s[i]
  /\ \A i \in 1 .. Len(b) : b[i] = s[n + i]

\* The two parts have the elements and the order of the whole.
LEMMA CutFacts ==
  ASSUME NEW s \in EventSeqs, NEW a \in EventSeqs, NEW b \in EventSeqs, NEW n,
         IsCut(s, a, b, n)
  PROVE  /\ Range(s) = Range(a) \cup Range(b)
         /\ Ascending(s) => Ascending(a) /\ Ascending(b) /\ Before(a, b)
<1> DEFINE k == Len(b)
<1>0. /\ n \in Nat /\ k \in Nat /\ Len(b) = k /\ Len(a) = n /\ Len(s) = n + k
      /\ \A i \in 1 .. n : a[i] = s[i]
      /\ \A i \in 1 .. k : b[i] = s[n + i]
  BY DEF IsCut
<1> HIDE DEF k
<1>1. DOMAIN s = 1 .. n + k /\ DOMAIN a = 1 .. n /\ DOMAIN b = 1 .. k
  BY <1>0, SeqFacts DEF EventSeqs
<1>2. /\ \A i \in 1 .. n : i \in 1 .. n + k /\ \A j \in 1 .. k : i < n + j
      /\ \A i \in 1 .. k : n + i \in 1 .. n + k /\ \A j \in 1 .. k : i < j => n + i < n + j
      /\ \A i \in 1 .. n + k : i \in 1 .. n \/ (i - n \in 1 .. k /\ n + (i - n) = i)
  BY <1>0
<1>3. ASSUME NEW e \in Range(s)
      PROVE  e \in Range(a) \cup Range(b)
  <2>1. PICK i \in 1 .. n + k : e = s[i]
    BY <1>1 DEF Range
  <2>2. CASE i \in 1 .. n
    BY <1>0, <1>1, <2>1, <2>2 DEF Range
  <2>3. CASE i - n \in 1 .. k /\ n + (i - n) = i
    BY <1>0, <1>1, <2>1, <2>3, Zenon DEF Range
  <2> QED
    BY <1>2, <2>2, <2>3
<1>4. Range(a) \subseteq Range(s) /\ Range(b) \subseteq Range(s)
  BY <1>0, <1>1, <1>2 DEF Range
<1>5. ASSUME Ascending(s)
      PROVE  Ascending(a) /\ Ascending(b) /\ Before(a, b)
  <2>0. \A i, j \in 1 .. n + k : i < j => s[i].id < s[j].id
    BY <1>1, <1>5 DEF Ascending
  <2>1. Ascending(a)
    <3>1. \A i, j \in 1 .. n : i < j => a[i].id < a[j].id
      BY <1>0, <1>2, <2>0
    <3> QED
      BY <1>1, <3>1 DEF Ascending
  <2>2. Ascending(b)
    <3>1. \A i, j \in 1 .. k : i < j => s[n + i].id < s[n + j].id
      BY <1>2, <2>0
    <3>2. \A i, j \in 1 .. k : i < j => b[i].id < b[j].id
      BY <1>0, <3>1
    <3> QED
      BY <1>1, <3>2 DEF Ascending
  <2>3. \A i \in 1 .. n, j \in 1 .. k : a[i].id < b[j].id
    <3>1. \A i \in 1 .. n, j \in 1 .. k : s[i].id < s[n + j].id
      BY <1>2, <2>0
    <3> QED
      BY <1>0, <3>1
  <2>4. Before(a, b)
    BY <1>0, <1>1, <2>3 DEF Before, Range
  <2> QED
    BY <2>1, <2>2, <2>4
<1> QED
  BY <1>3, <1>4, <1>5

LEMMA SplitFacts ==
  ASSUME NEW s \in EventSeqs, NEW n \in 0 .. Len(s)
  PROVE  LET a == SubSeq(s, 1, n)
             b == SubSeq(s, n + 1, Len(s))
         IN /\ a \in EventSeqs /\ b \in EventSeqs /\ Len(a) = n /\ Len(b) = Len(s) - n
            /\ Range(s) = Range(a) \cup Range(b)
            /\ Ascending(s) => Ascending(a) /\ Ascending(b) /\ Before(a, b)
<1> DEFINE a == SubSeq(s, 1, n)
           b == SubSeq(s, n + 1, Len(s))
           k == Len(s) - n
<1>1. Len(s) \in Nat /\ \A i \in 1 .. Len(s) : s[i] \in Events
  BY SeqFacts DEF EventSeqs
<1>2. n \in Nat /\ k \in Nat /\ Len(s) = n + k /\ n + 1 \in Int /\ Len(s) \in Int
  BY <1>1
<1>3. (\A i \in 1 .. n : s[i] \in Events) /\ (\A i \in n + 1 .. Len(s) : s[i] \in Events)
  BY <1>1, <1>2
<1>4. /\ a \in Seq(Events) /\ Len(a) = (IF 1 <= n THEN n - 1 + 1 ELSE 0)
      /\ \A i \in 1 .. n - 1 + 1 : a[i] = s[1 + i - 1]
  BY <1>2, <1>3, SubSeqProperties
<1>5. /\ b \in Seq(Events)
      /\ Len(b) = (IF n + 1 <= Len(s) THEN Len(s) - (n + 1) + 1 ELSE 0)
      /\ \A i \in 1 .. Len(s) - (n + 1) + 1 : b[i] = s[(n + 1) + i - 1]
  BY <1>2, <1>3, SubSeqProperties
<1> HIDE DEF a, b
<1>6. Len(a) = n /\ \A i \in 1 .. n : a[i] = s[i]
  BY <1>2, <1>4
<1>7. Len(s) - (n + 1) + 1 = k /\ \A i \in 1 .. k : (n + 1) + i - 1 = n + i
  BY <1>2
<1>8. Len(b) = k /\ \A i \in 1 .. k : b[i] = s[n + i]
  <2>1. Len(b) = k
    <3>1. CASE n + 1 <= Len(s)
      BY <1>5, <1>7, <3>1
    <3>2. CASE ~(n + 1 <= Len(s))
      <4>1. Len(s) \in Nat /\ n \in Nat /\ n <= Len(s)
        BY <1>1
      <4>2. n = Len(s)
        BY <3>2, <4>1
      <4>3. k = 0
        BY <4>1, <4>2
      <4> QED
        BY <1>5, <3>2, <4>3
    <3> QED
      BY <3>1, <3>2
  <2>2. \A i \in 1 .. k : b[i] = s[(n + 1) + i - 1]
    BY <1>5, <1>7, Zenon
  <2> QED
    BY <1>7, <2>1, <2>2
<1> HIDE DEF k
<1>9. a \in EventSeqs /\ b \in EventSeqs
  BY <1>4, <1>5 DEF EventSeqs
<1>10. /\ Range(s) = Range(a) \cup Range(b)
       /\ Ascending(s) => Ascending(a) /\ Ascending(b) /\ Before(a, b)
  <2>1. IsCut(s, a, b, n)
    BY <1>2, <1>6, <1>8 DEF IsCut
  <2> QED
    BY <1>9, <2>1, CutFacts
<1> QED
  BY <1>6, <1>8, <1>9, <1>10 DEF a, b, k
-----------------------------------------------------------------------------
(***************************************************************************)
(* Counting                                                                *)
(***************************************************************************)
LEMMA MinFacts ==
  ASSUME NEW m \in Nat, NEW n \in Nat
  PROVE  /\ Min({m, n}) = (IF m <= n THEN m ELSE n)
         /\ Minus(m, n) = (IF n <= m THEN m - n ELSE 0)
<1>1. Min({m, n}) = (IF m <= n THEN m ELSE n)
  <2>1. \E x \in {m, n} : \A y \in {m, n} : x <= y
    OBVIOUS
  <2>2. Min({m, n}) \in {m, n} /\ \A y \in {m, n} : Min({m, n}) <= y
    BY <2>1 DEF Min
  <2> QED
    BY <2>2
<1> QED
  BY <1>1 DEF Minus

LEMMA EventsFinite == IsFiniteSet(Events)
<1> DEFINE B == BOOLEAN
           I == 1 .. MAX_EVENTS
           J == 0 .. MAX_INITS
           T == B \X (I \X J)
           f == [e \in Events |-> <<e.wake, <<e.id, e.session>>>>]
<1>1. IsFiniteSet(B)
  <2>1. BOOLEAN = {TRUE, FALSE}
    BY Zenon
  <2>2. IsFiniteSet({TRUE} \cup {FALSE})
    BY FS_Singleton, FS_Union, Zenon
  <2>3. {TRUE} \cup {FALSE} = {TRUE, FALSE}
    OBVIOUS
  <2> QED
    BY <2>1, <2>2, <2>3, Zenon
<1>2. IsFiniteSet(I) /\ IsFiniteSet(J)
  BY ConstantsAssumption, FS_Interval
<1>3. IsFiniteSet(T)
  <2>1. IsFiniteSet(I \X J)
    BY <1>2, FS_Product, Zenon
  <2> HIDE DEF B, I, J
  <2> QED
    BY <1>1, <2>1, FS_Product
<1>4. f \in Injection(Events, T)
  <2>1. f \in [Events -> T]
    BY DEF Events
  <2>2. ASSUME NEW d \in Events, NEW e \in Events, f[d] = f[e]
        PROVE  d = e
    <3>1. d.wake = e.wake /\ d.id = e.id /\ d.session = e.session
      BY <2>2
    <3> QED
      BY <3>1 DEF Events
  <2> HIDE DEF f, T
  <2> QED
    BY <2>1, <2>2 DEF Injection, IsInjective
<1> HIDE DEF f, T
<1> QED
  BY <1>3, <1>4, FS_Injection

LEMMA Finite ==
  ASSUME NEW S \in SUBSET Events
  PROVE  /\ IsFiniteSet(S) /\ IsFiniteSet(Wake(S))
         /\ Cardinality(S) \in Nat /\ Cardinality(Wake(S)) \in Nat
<1>1. Wake(S) \subseteq Events
  BY DEF Wake
<1> QED
  BY <1>1, EventsFinite, FS_Subset, FS_CardinalityType

LEMMA DisjointCount ==
  ASSUME NEW S \in SUBSET Events, NEW T \in SUBSET Events, S \cap T = {}
  PROVE  /\ Cardinality(S \cup T) = Cardinality(S) + Cardinality(T)
         /\ Cardinality(Wake(S \cup T)) = Cardinality(Wake(S)) + Cardinality(Wake(T))
<1>1. /\ IsFiniteSet(S) /\ IsFiniteSet(T) /\ IsFiniteSet(Wake(S)) /\ IsFiniteSet(Wake(T))
      /\ Cardinality(S) \in Nat /\ Cardinality(T) \in Nat
      /\ Cardinality(Wake(S)) \in Nat /\ Cardinality(Wake(T)) \in Nat
  BY Finite
<1>2. Wake(S \cup T) = Wake(S) \cup Wake(T) /\ Wake(S) \cap Wake(T) = {}
  BY DEF Wake
<1>3. Cardinality(S \cap T) = 0 /\ Cardinality(Wake(S) \cap Wake(T)) = 0
  <2>1. Cardinality({}) = 0
    BY FS_EmptySet
  <2> QED
    BY <1>2, <2>1, Zenon
<1>4. Cardinality(S \cup T) = Cardinality(S) + Cardinality(T) - Cardinality(S \cap T)
  BY <1>1, FS_Union
<1>5. Cardinality(Wake(S) \cup Wake(T))
        = Cardinality(Wake(S)) + Cardinality(Wake(T)) - Cardinality(Wake(S) \cap Wake(T))
  BY <1>1, FS_Union
<1>6. Cardinality(S \cup T) = Cardinality(S) + Cardinality(T)
  BY <1>1, <1>3, <1>4
<1>7. Cardinality(Wake(S) \cup Wake(T)) = Cardinality(Wake(S)) + Cardinality(Wake(T))
  BY <1>1, <1>2, <1>3, <1>5
<1> QED
  BY <1>2, <1>6, <1>7, Zenon

LEMMA SubsetCount ==
  ASSUME NEW S \in SUBSET Events, NEW T \in SUBSET S
  PROVE  /\ Cardinality(S \ T) = Cardinality(S) - Cardinality(T)
         /\ Cardinality(Wake(S \ T)) = Cardinality(Wake(S)) - Cardinality(Wake(T))
         /\ Cardinality(Wake(T)) <= Cardinality(Wake(S))
<1>1. /\ S \ T \in SUBSET Events /\ T \in SUBSET Events /\ (S \ T) \cap T = {}
      /\ (S \ T) \cup T = S
  OBVIOUS
<1>2. /\ Cardinality(S) = Cardinality(S \ T) + Cardinality(T)
      /\ Cardinality(Wake(S)) = Cardinality(Wake(S \ T)) + Cardinality(Wake(T))
  BY <1>1, DisjointCount
<1>3. /\ Cardinality(S \ T) \in Nat /\ Cardinality(T) \in Nat
      /\ Cardinality(Wake(S \ T)) \in Nat /\ Cardinality(Wake(T)) \in Nat
  BY <1>1, Finite
<1> QED
  BY <1>2, <1>3

\* No event is twice in an ascending sequence.
LEMMA SeqCount ==
  ASSUME NEW s \in EventSeqs, Ascending(s)
  PROVE  /\ Wakeups(s) = Cardinality(Wake(Range(s)))
         /\ Len(s) = Cardinality(Range(s))
<1>1. /\ DOMAIN s = 1 .. Len(s) /\ Len(s) \in Nat /\ Range(s) \subseteq Events
      /\ \A i \in 1 .. Len(s) : s[i] \in Range(s) /\ s[i].id \in Nat
      /\ \A e \in Range(s) : \E i \in 1 .. Len(s) : e = s[i]
  <2>1. /\ DOMAIN s = 1 .. Len(s) /\ Len(s) \in Nat /\ Range(s) \subseteq Events
        /\ \A i \in 1 .. Len(s) : s[i] \in Range(s) /\ s[i] \in Events
        /\ \A e \in Range(s) : \E i \in 1 .. Len(s) : e = s[i]
    BY SeqFacts DEF EventSeqs
  <2>2. \A e \in Events : e.id \in Nat
    BY ConstantsAssumption DEF Events
  <2> QED
    BY <2>1, <2>2
<1>2. \A i, j \in 1 .. Len(s) : s[i] = s[j] => i = j
  <2> SUFFICES ASSUME NEW i \in 1 .. Len(s), NEW j \in 1 .. Len(s), s[i] = s[j], i # j
               PROVE  FALSE
    OBVIOUS
  <2>1. i < j \/ j < i
    BY <1>1
  <2>2. s[i].id < s[j].id \/ s[j].id < s[i].id
    BY <1>1, <2>1 DEF Ascending
  <2> QED
    BY <1>1, <2>2
<1>0. /\ IsFiniteSet(1 .. Len(s))
      /\ Cardinality(1 .. Len(s)) = (IF 1 > Len(s) THEN 0 ELSE Len(s) - 1 + 1)
  <2>1. 1 \in Int /\ Len(s) \in Int
    BY <1>1
  <2> QED
    BY <2>1, FS_Interval
<1>3. ASSUME NEW D \in SUBSET (1 .. Len(s)), NEW R, R = {s[i] : i \in D}
      PROVE  Cardinality(D) = Cardinality(R)
  <2> DEFINE f == [i \in D |-> s[i]]
  <2>2. IsFiniteSet(D)
    BY <1>0, FS_Subset, Zenon
  <2>3. f \in [D -> R] /\ (\A i, j \in D : f[i] = f[j] => i = j)
        /\ \A e \in R : \E i \in D : f[i] = e
    BY <1>2, <1>3
  <2> HIDE DEF f
  <2>4. f \in Bijection(D, R)
    BY <2>3 DEF Bijection, Injection, Surjection, IsInjective
  <2>5. ExistsBijection(D, R)
    BY <2>4 DEF ExistsBijection
  <2> QED
    BY <2>2, <2>5, FS_Bijection
<1>4. Cardinality(1 .. Len(s)) = Len(s)
  BY <1>1, <1>0
<1>5. Range(s) = {s[i] : i \in 1 .. Len(s)}
  BY <1>1 DEF Range
<1>6. Wake(Range(s)) = {s[i] : i \in {j \in 1 .. Len(s) : s[j].wake}}
  BY <1>5 DEF Wake
<1> QED
  BY <1>1, <1>3, <1>4, <1>5, <1>6, Zenon DEF Wakeups
-----------------------------------------------------------------------------
(***************************************************************************)
(* The pending queue                                                       *)
(***************************************************************************)
Queues == Seq(EventSeqs)

LEMMA IdType == \A e \in Events : e.id \in Nat
  BY ConstantsAssumption DEF Events

LEMMA AllOfFacts ==
  ASSUME NEW q \in Queues
  PROVE  /\ AllOf(q) \subseteq Events /\ DOMAIN q = 1 .. Len(q) /\ Len(q) \in Nat
         /\ \A i \in 1 .. Len(q) : q[i] \in EventSeqs /\ Range(q[i]) \subseteq AllOf(q)
         /\ \A e \in AllOf(q) : \E i \in 1 .. Len(q) : e \in Range(q[i])
<1>1. DOMAIN q = 1 .. Len(q) /\ Len(q) \in Nat /\ \A i \in 1 .. Len(q) : q[i] \in EventSeqs
  BY SeqFacts DEF Queues
<1>2. \A s \in EventSeqs : Range(s) \subseteq Events
  BY SeqFacts DEF EventSeqs
<1> QED
  BY <1>1, <1>2 DEF AllOf

LEMMA AppendQueue ==
  ASSUME NEW q \in Queues, NEW s \in EventSeqs
  PROVE  /\ Append(q, s) \in Queues /\ Append(q, s) # <<>>
         /\ AllOf(Append(q, s)) = AllOf(q) \cup Range(s)
         /\ q # <<>> => Head(Append(q, s)) = Head(q)
         /\ Sorted(q) /\ s # <<>> /\ Ascending(s)
              /\ (\A e \in AllOf(q), f \in Range(s) : e.id < f.id) => Sorted(Append(q, s))
<1> DEFINE r == Append(q, s)
           n == Len(q)
<1>1. /\ r \in Queues /\ r # <<>> /\ Len(r) = n + 1 /\ r[n + 1] = s /\ n \in Nat
      /\ \A i \in 1 .. n : r[i] = q[i]
  BY AppendProperties, LenProperties DEF Queues
<1>2. q # <<>> => Head(r) = Head(q)
  BY HeadTailAppend DEF Queues
<1>3. DOMAIN q = 1 .. n /\ DOMAIN r = 1 .. n + 1
  BY <1>1, AllOfFacts
<1> HIDE DEF r, n
<1>4. \A i \in 1 .. n + 1 : i \in 1 .. n \/ i = n + 1
  BY <1>1
<1>5. \A i \in 1 .. n : i \in 1 .. n + 1 /\ ~(n + 1 < i)
  BY <1>1
<1>6. AllOf(r) = AllOf(q) \cup Range(s)
  <2>1. n + 1 \in 1 .. n + 1
    BY <1>1
  <2>2. ASSUME NEW e \in AllOf(r) PROVE e \in AllOf(q) \cup Range(s)
    BY <1>1, <1>3, <1>4 DEF AllOf
  <2>3. Range(s) \subseteq AllOf(r)
    BY <1>1, <1>3, <2>1 DEF AllOf
  <2>4. AllOf(q) \subseteq AllOf(r)
    BY <1>1, <1>3, <1>5 DEF AllOf
  <2> QED
    BY <2>2, <2>3, <2>4
<1>7. ASSUME Sorted(q), s # <<>>, Ascending(s), \A e \in AllOf(q), f \in Range(s) : e.id < f.id
      PROVE  Sorted(r)
  <2>1. \A i \in DOMAIN r : r[i] # <<>> /\ Ascending(r[i])
    BY <1>1, <1>3, <1>4, <1>7 DEF Sorted
  <2>2. \A i \in 1 .. n : Before(q[i], s)
    BY <1>3, <1>7 DEF Before, AllOf
  <2>3. ASSUME NEW i \in 1 .. n + 1, NEW k \in 1 .. n + 1, i < k
        PROVE  Before(r[i], r[k])
    <3>1. i \in 1 .. n
      BY <1>1, <2>3
    <3>2. CASE k = n + 1
      BY <1>1, <2>2, <3>1, <3>2
    <3>3. CASE k \in 1 .. n
      BY <1>1, <1>3, <1>7, <2>3, <3>1, <3>3 DEF Sorted
    <3> QED
      BY <1>4, <3>2, <3>3
  <2> QED
    BY <1>3, <2>1, <2>3 DEF Sorted
<1> QED
  BY <1>1, <1>2, <1>6, <1>7 DEF r

LEMMA TailQueue ==
  ASSUME NEW q \in Queues, q # <<>>, Sorted(q)
  PROVE  /\ Tail(q) \in Queues /\ Sorted(Tail(q)) /\ Head(q) \in EventSeqs /\ Head(q) # <<>>
         /\ Ascending(Head(q))
         /\ AllOf(q) = Range(Head(q)) \cup AllOf(Tail(q))
         /\ \A e \in Range(Head(q)), f \in AllOf(Tail(q)) : e.id < f.id
<1> DEFINE t == Tail(q)
           h == Head(q)
<1>1. /\ h \in EventSeqs /\ h = q[1] /\ 1 \in DOMAIN q /\ t \in Queues
      /\ \A i \in DOMAIN t : t[i] = q[i + 1] /\ i + 1 \in DOMAIN q
      /\ Range(q) = {h} \cup Range(t)
  BY TailFacts DEF Queues
<1>2. DOMAIN t = 1 .. Len(t)
  BY <1>1, AllOfFacts
<1> HIDE DEF t, h
<1>3. h # <<>> /\ Ascending(h)
  BY <1>1 DEF Sorted
<1>4. AllOf(q) = Range(h) \cup AllOf(t)
  <2>1. AllOf(q) = UNION {Range(s) : s \in Range(q)} /\ AllOf(t) = UNION {Range(s) : s \in Range(t)}
    BY DEF AllOf, Range
  <2> QED
    BY <1>1, <2>1
<1>5. \A i, k \in DOMAIN t : 1 < i + 1 /\ (i < k => i + 1 < k + 1)
  BY <1>2
<1>6. Sorted(t)
  BY <1>1, <1>5 DEF Sorted
<1>7. \A i \in DOMAIN t : Before(h, t[i])
  BY <1>1, <1>5 DEF Sorted
<1>8. \A e \in Range(h), f \in AllOf(t) : e.id < f.id
  BY <1>7 DEF Before, AllOf
<1> QED
  BY <1>1, <1>3, <1>4, <1>6, <1>8 DEF t, h

\* The first chunk is erased from the vector at the head of the queue.
LEMMA CutQueue ==
  ASSUME NEW q \in Queues, q # <<>>, Sorted(q), NEW n \in Nat, n < Len(Head(q))
  PROVE  LET r == [q EXCEPT ![1] = SubSeq(@, n + 1, Len(@))]
             c == SubSeq(Head(q), 1, n)
         IN r \in Queues /\ Sorted(r) /\ AllOf(r) = AllOf(q) \ Range(c)
<1> DEFINE c == SubSeq(Head(q), 1, n)
           d == SubSeq(Head(q), n + 1, Len(Head(q)))
           r == [q EXCEPT ![1] = SubSeq(@, n + 1, Len(@))]
<1>1. /\ Head(q) \in EventSeqs /\ Ascending(Head(q)) /\ Head(q) = q[1] /\ 1 \in DOMAIN q
      /\ AllOf(q) = Range(Head(q)) \cup AllOf(Tail(q))
      /\ \A e \in Range(Head(q)), f \in AllOf(Tail(q)) : e.id < f.id
  BY TailQueue, TailFacts DEF Queues
<1>2. Len(Head(q)) \in Nat /\ n \in 0 .. Len(Head(q))
  BY <1>1, SeqFacts DEF EventSeqs
<1>3. /\ c \in EventSeqs /\ d \in EventSeqs /\ Len(d) = Len(Head(q)) - n
      /\ Range(Head(q)) = Range(c) \cup Range(d)
      /\ Ascending(c) /\ Ascending(d) /\ Before(c, d)
  BY <1>1, <1>2, SplitFacts
<1>4. d # <<>>
  <2>1. Len(d) # 0
    BY <1>2, <1>3
  <2> QED
    BY <2>1, EmptyFacts, Zenon
<1>5. r = [q EXCEPT ![1] = d]
  BY <1>1
<1>6. DOMAIN r = DOMAIN q /\ r[1] = d /\ \A i \in DOMAIN q : i # 1 => r[i] = q[i]
  BY <1>1, <1>5
<1>7. r \in Queues
  BY <1>1, <1>3, <1>5, ExceptSeq, SeqFacts DEF Queues
<1> HIDE DEF r, c, d
<1>8. Range(d) \subseteq Range(q[1])
  BY <1>1, <1>3
<1>9. Sorted(r)
  <2>1. \A i \in DOMAIN r : r[i] # <<>> /\ Ascending(r[i])
    BY <1>3, <1>4, <1>6 DEF Sorted
  <2>2. ASSUME NEW i \in DOMAIN q, NEW k \in DOMAIN q, i < k
        PROVE  Before(r[i], r[k])
    <3>1. k # 1 /\ Before(q[i], q[k])
      <4>1. DOMAIN q = 1 .. Len(q)
        BY AllOfFacts
      <4> QED
        BY <2>2, <4>1 DEF Sorted
    <3>2. CASE i = 1
      BY <1>6, <1>8, <3>1, <3>2 DEF Before
    <3>3. CASE i # 1
      BY <1>6, <3>1, <3>3
    <3> QED
      BY <3>2, <3>3
  <2> QED
    BY <1>6, <2>1, <2>2 DEF Sorted
<1>10. AllOf(r) = Range(d) \cup AllOf(Tail(q))
  <2>1. AllOf(r) = Range(d) \cup UNION {Range(q[i]) : i \in DOMAIN q \ {1}}
    BY <1>1, <1>6 DEF AllOf
  <2>2. AllOf(Tail(q)) = UNION {Range(q[i]) : i \in DOMAIN q \ {1}}
    <3>1. /\ DOMAIN Tail(q) = 1 .. Len(q) - 1 /\ DOMAIN q = 1 .. Len(q) /\ Len(q) \in Nat
          /\ \A i \in DOMAIN Tail(q) : Tail(q)[i] = q[i + 1]
      BY TailFacts, SeqFacts DEF Queues
    <3>2. \A i \in 1 .. Len(q) - 1 : i + 1 \in DOMAIN q \ {1}
      BY <3>1
    <3>3. \A i \in DOMAIN q \ {1} : i - 1 \in 1 .. Len(q) - 1 /\ (i - 1) + 1 = i
      BY <3>1
    <3>4. \A i \in DOMAIN q \ {1} : Tail(q)[i - 1] = q[i]
      BY <3>1, <3>3
    <3> QED
      BY <3>1, <3>2, <3>3, <3>4 DEF AllOf
  <2> QED
    BY <2>1, <2>2
<1>11. \A e \in Range(c) : e \notin Range(d) /\ e \notin AllOf(Tail(q))
  <2>1. \A e \in Range(c) : e.id \in Nat
    BY <1>3, SeqFacts, IdType DEF EventSeqs
  <2>2. \A e \in Range(c) : (\A f \in Range(d) : e.id < f.id) /\ \A f \in AllOf(Tail(q)) : e.id < f.id
    BY <1>1, <1>3 DEF Before
  <2> QED
    BY <2>1, <2>2
<1>12. AllOf(r) = AllOf(q) \ Range(c)
  BY <1>1, <1>3, <1>10, <1>11
<1> QED
  BY <1>7, <1>9, <1>12, Zenon DEF r, c
LEMMA ChunkFacts ==
  ASSUME TypeOK, PendingInv, pending # <<>>
  PROVE  /\ Chunk \in EventSeqs /\ Ascending(Chunk) /\ Len(Chunk) <= QUANTUM_COUNT
         /\ Len(Chunk) \in Nat /\ Range(Chunk) \subseteq PendingEvents
         /\ \A e \in Range(Chunk), f \in PendingEvents \ Range(Chunk) : e.id < f.id
<1> DEFINE h == Head(pending)
           n == Min({Len(h), QUANTUM_COUNT})
           d == SubSeq(h, n + 1, Len(h))
<1>1. /\ h \in EventSeqs /\ Ascending(h) /\ AllOf(pending) = Range(h) \cup AllOf(Tail(pending))
      /\ \A e \in Range(h), f \in AllOf(Tail(pending)) : e.id < f.id
  BY TailQueue DEF TypeOK, PendingInv, Queues
<1>2. Len(h) \in Nat /\ QUANTUM_COUNT \in Nat
  BY <1>1, SeqFacts, ConstantsAssumption DEF EventSeqs
<1>3. n \in 0 .. Len(h) /\ n <= QUANTUM_COUNT
  <2>1. n = IF Len(h) <= QUANTUM_COUNT THEN Len(h) ELSE QUANTUM_COUNT
    BY <1>2, MinFacts
  <2> QED
    BY <1>2, <2>1
<1>4. Chunk = SubSeq(h, 1, n)
  BY DEF Chunk
<1>5. /\ Chunk \in EventSeqs /\ Ascending(Chunk) /\ Len(Chunk) = n /\ Before(Chunk, d)
      /\ Range(h) = Range(Chunk) \cup Range(d)
  BY <1>1, <1>3, <1>4, SplitFacts, Zenon
<1> HIDE DEF h, n, d
<1>6. PendingEvents = AllOf(pending)
  BY DEF PendingEvents, AllOf
<1>7. \A e \in Range(Chunk), f \in PendingEvents \ Range(Chunk) : e.id < f.id
  BY <1>1, <1>5, <1>6 DEF Before
<1> QED
  BY <1>1, <1>2, <1>3, <1>5, <1>6, <1>7, SMTT(30)

LEMMA PopFacts ==
  ASSUME TypeOK, PendingInv, PendingPops
  PROVE  /\ pending' \in Queues /\ Sorted(pending')
         /\ PendingEvents' = PendingEvents \ Range(Chunk)
<1> DEFINE h == Head(pending)
<1>1. pending \in Queues /\ pending # <<>> /\ Sorted(pending)
  BY DEF TypeOK, PendingInv, Queues, PendingPops
<1>2. /\ h \in EventSeqs /\ AllOf(pending) = Range(h) \cup AllOf(Tail(pending))
      /\ Tail(pending) \in Queues /\ Sorted(Tail(pending))
      /\ \A e \in Range(h), f \in AllOf(Tail(pending)) : e.id < f.id
  BY <1>1, TailQueue
<1>3. Len(h) \in Nat /\ QUANTUM_COUNT \in Nat /\ h = pending[1]
  BY <1>1, <1>2, SeqFacts, TailFacts, ConstantsAssumption DEF EventSeqs, Queues
<1>4. PendingEvents = AllOf(pending) /\ PendingEvents' = AllOf(pending')
  BY DEF PendingEvents, AllOf
<1>5. CASE Len(h) > QUANTUM_COUNT
  <2>1. pending' = [pending EXCEPT ![1] = SubSeq(@, QUANTUM_COUNT + 1, Len(@))]
    BY <1>5 DEF PendingPops
  <2>2. Chunk = SubSeq(h, 1, QUANTUM_COUNT)
    BY <1>3, <1>5, MinFacts DEF Chunk
  <2>3. QUANTUM_COUNT < Len(h)
    BY <1>3, <1>5
  <2> QED
    BY <1>1, <1>3, <1>4, <2>1, <2>2, <2>3, CutQueue, Zenon
<1>6. CASE ~(Len(h) > QUANTUM_COUNT)
  <2>1. pending' = Tail(pending)
    BY <1>6 DEF PendingPops
  <2>2. Chunk = h
    <3>1. Chunk = SubSeq(h, 1, Len(h))
      BY <1>3, <1>6, MinFacts, SMTT(30) DEF Chunk
    <3>2. SubSeq(h, 1, Len(h)) = h
      BY <1>2, SubSeqFull DEF EventSeqs
    <3> QED
      BY <3>1, <3>2
  <2>3. \A e \in Range(h) : e.id \in Nat
    BY <1>2, SeqFacts, IdType DEF EventSeqs
  <2>4. AllOf(Tail(pending)) = AllOf(pending) \ Range(h)
    BY <1>2, <2>3
  <2> QED
    BY <1>2, <1>4, <2>1, <2>2, <2>4
<1> QED
  BY <1>5, <1>6
-----------------------------------------------------------------------------
(***************************************************************************)
(* Steps that move no event                                                *)
(***************************************************************************)
Quiet ==
  /\ UNCHANGED <<fmq, pending, sizePending, acks, unacked, got, lastRead, nextId, batch, session>>
  /\ pendPc' = "wrote" <=> pendPc = "wrote"
  /\ pendPc' = "writing" => pending # <<>>
  /\ postPc' \in {"check", "post"} => postPc \in {"check", "post"}

QuietStep == \/ postEvents \/ PendingCheck \/ PendingWaits \/ WakelockCheck \/ WakelockWaits
             \/ TimeoutPasses \/ initialize \/ ClearThreadsRun \/ NotifyThreads \/ JoinThreads
             \/ disableAllSensors \/ InitializeSubHal \/ StartThreads

LEMMA QuietSteps == ASSUME IInv, QuietStep PROVE Quiet
<1>1. pendPc = "writing" => pending # <<>>
  BY DEF IInv, PendingInv
<1>2. CASE postEvents
  BY <1>1, <1>2 DEF postEvents, Quiet, frameworkVars, initVars
<1>3. CASE PendingCheck \/ PendingWaits
  BY <1>1, <1>3 DEF PendingCheck, PendingWaits, Quiet, frameworkVars, initVars, postVars
<1>4. CASE WakelockCheck \/ WakelockWaits \/ TimeoutPasses
  BY <1>1, <1>4 DEF WakelockCheck, WakelockWaits, TimeoutPasses, Quiet, frameworkVars, initVars,
                    postVars
<1>5. CASE initialize \/ ClearThreadsRun \/ NotifyThreads
  BY <1>1, <1>5 DEF initialize, ClearThreadsRun, NotifyThreads, Woken, Quiet, frameworkVars,
                    postVars
<1>6. CASE JoinThreads
  BY <1>1, <1>6 DEF JoinThreads, Quiet, frameworkVars, postVars
<1>7. CASE disableAllSensors \/ InitializeSubHal
  BY <1>1, <1>7 DEF disableAllSensors, InitializeSubHal, Quiet, frameworkVars, postVars
<1>8. CASE StartThreads
  <2>1. pendPc # "wrote"
    BY <1>8 DEF StartThreads, IInv, ControlInv
  <2> QED
    BY <1>1, <1>8, <2>1 DEF StartThreads, Quiet, frameworkVars, postVars
<1> QED
  BY <1>2, <1>3, <1>4, <1>5, <1>6, <1>7, <1>8, SMTT(30) DEF QuietStep

LEMMA SameEvents ==
  ASSUME UNCHANGED <<fmq, pending, acks, unacked, got>>, pendPc' = "wrote" <=> pendPc = "wrote"
  PROVE  /\ PendingEvents' = PendingEvents /\ Settled' = Settled /\ InTransit' = InTransit
         /\ Acked' = Acked
<1>1. PendingEvents' = PendingEvents /\ Settled' = Settled /\ Acked' = Acked
  BY DEF PendingEvents, Settled, Chunk, Acked
<1> QED
  BY <1>1 DEF InTransit

LEMMA QuietKeeps ==
  ASSUME IInv, Quiet
  PROVE  PendingInv' /\ OrderInv' /\ AckInv' /\ InTransit' = InTransit
         /\ PendingEvents' = PendingEvents
<1>1. /\ PendingEvents' = PendingEvents /\ Settled' = Settled /\ InTransit' = InTransit
      /\ Acked' = Acked
  BY SameEvents DEF Quiet
<1>2. PendingInv'
  BY DEF IInv, PendingInv, Quiet
<1>3. OrderInv'
  BY <1>1, SMTT(30) DEF IInv, OrderInv, DeliveredInOrder, Quiet
<1>4. AckInv'
  BY <1>1 DEF IInv, AckInv, Quiet
<1> QED
  BY <1>1, <1>2, <1>3, <1>4

LEMMA QuietTyped == ASSUME IInv, QuietStep PROVE TypeOK'
<1> USE DEF IInv
<1>1. PendingEvents' = PendingEvents /\ UNCHANGED <<fmq, pending, sizePending, acks, unacked, got,
                                                    lastRead, nextId, batch, session>>
  BY QuietSteps, QuietKeeps DEF Quiet
<1>2. /\ 0 \in Nat
      /\ \A pc \in ThreadStates \cup {"writing", "wrote"} : Woken(pc) \in ThreadStates \cup {"writing", "wrote"}
      /\ \A pc \in ThreadStates \cup {"reading", "got"} : Woken(pc) \in ThreadStates \cup {"reading", "got"}
  BY DEF Woken, ThreadStates
<1>3. CASE postEvents
  BY <1>1, <1>3 DEF postEvents, TypeOK, initVars, wakeVars
<1>4. CASE PendingCheck \/ PendingWaits
  BY <1>1, <1>4 DEF PendingCheck, PendingWaits, TypeOK, initVars, postVars, wakeVars, ThreadStates
<1>5. CASE WakelockCheck
  <2>1. /\ refCount' \in Nat /\ scoped' \in {"none", "live", "stale"} /\ timedOut' \in BOOLEAN
        /\ wakePc' \in ThreadStates \cup {"reading", "got"}
    <3>1. CASE resetSharedWakelock /\ wakePc' \in {"exited", wakePc} /\ timedOut' \in {timedOut, TRUE}
      BY <3>1, Zenon DEF resetSharedWakelock, TypeOK, ThreadStates
    <3>2. CASE wakePc' \in {"dozing", "reading"} /\ UNCHANGED <<refCount, scoped, timedOut>>
      BY <3>2 DEF TypeOK, ThreadStates
    <3> QED
      BY <1>5, <3>1, <3>2, Zenon DEF WakelockCheck
  <2>2. UNCHANGED <<threadsRun, initPc, subHalReady, postPc, expired, pendPc>>
    BY <1>5 DEF WakelockCheck, initVars, postVars
  <2> QED
    BY <1>1, <2>1, <2>2 DEF TypeOK
<1>6. CASE WakelockWaits \/ TimeoutPasses
  <2>1. CASE WakelockWaits
    BY <1>1, <2>1 DEF WakelockWaits, TypeOK, initVars, postVars, wakeVars, ThreadStates
  <2>2. CASE TimeoutPasses
    BY <1>1, <2>2, SMTT(30) DEF TimeoutPasses, TypeOK, initVars, postVars
  <2> QED
    BY <1>6, <2>1, <2>2, SMTT(30)
<1>7. CASE initialize \/ ClearThreadsRun \/ NotifyThreads
  <2>1. /\ threadsRun' \in {threadsRun, FALSE} /\ initPc' \in {"stop", "notify", "join"}
        /\ pendPc' \in {pendPc, Woken(pendPc)} /\ wakePc' \in {wakePc, Woken(wakePc)}
        /\ UNCHANGED <<subHalReady, postPc, scoped, refCount, expired, timedOut>>
    BY <1>7, Zenon DEF initialize, ClearThreadsRun, NotifyThreads, postVars, wakeVars
  <2>2. /\ threadsRun' \in BOOLEAN
        /\ pendPc' \in ThreadStates \cup {"writing", "wrote"}
        /\ wakePc' \in ThreadStates \cup {"reading", "got"}
    BY <1>2, <2>1, Zenon DEF TypeOK
  <2> QED
    BY <1>1, <2>1, <2>2 DEF TypeOK
<1>8. CASE JoinThreads
  BY <1>1, <1>2, <1>8 DEF JoinThreads, resetSharedWakelock, TypeOK, postVars, ThreadStates
<1>9. CASE disableAllSensors \/ InitializeSubHal
  BY <1>1, <1>9, Zenon DEF disableAllSensors, InitializeSubHal, TypeOK, postVars, wakeVars
<1>10. CASE StartThreads
  BY <1>1, <1>10 DEF StartThreads, TypeOK, postVars, wakeVars, ThreadStates
<1> QED
  BY <1>3, <1>4, <1>5, <1>6, <1>7, <1>8, <1>9, <1>10, SMTT(30) DEF QuietStep

LEMMA QuietControl == ASSUME IInv, QuietStep PROVE ControlInv'
<1> USE DEF IInv
<1>1. UNCHANGED <<fmq, pending, acks, unacked, got, batch, session>> /\ Wakeups(batch)' = Wakeups(batch)
  BY QuietSteps DEF Quiet, Wakeups
<1>2. CASE postEvents
  <2>1. postPc' = "post" /\ scoped = "none" => Wakeups(batch) = 0
    <3>1. Wakeups(batch) > 0 => Wakeups(batch) # 0
      OBVIOUS
    <3>2. Wakeups(batch) \in Nat
      <4>1. batch \in EventSeqs /\ Ascending(batch) /\ Range(batch) \subseteq Events
        BY SeqFacts, Zenon DEF TypeOK, OrderInv, EventSeqs
      <4> QED
        BY <4>1, SeqCount, Finite
    <3> QED
      BY <1>2, <3>2 DEF postEvents
  <2> QED
    BY <1>1, <1>2, <2>1 DEF postEvents, ControlInv, initVars, wakeVars
<1>3. CASE PendingCheck \/ PendingWaits
  BY <1>1, <1>3, SMTT(30) DEF PendingCheck, PendingWaits, ControlInv, initVars, postVars, wakeVars
<1>4. CASE WakelockCheck
  BY <1>1, <1>4, SMTT(30) DEF WakelockCheck, resetSharedWakelock, ControlInv, initVars, postVars
<1>5. CASE WakelockWaits \/ TimeoutPasses
  BY <1>1, <1>5, SMTT(30) DEF WakelockWaits, TimeoutPasses, ControlInv, initVars, postVars, wakeVars
<1>6. CASE initialize \/ ClearThreadsRun \/ NotifyThreads
  BY <1>1, <1>6, SMTT(30) DEF initialize, ClearThreadsRun, NotifyThreads, Woken, ControlInv, postVars,
                    wakeVars
<1>7. CASE JoinThreads
  BY <1>1, <1>7, SMTT(30) DEF JoinThreads, resetSharedWakelock, ControlInv, postVars
<1>8. CASE disableAllSensors \/ InitializeSubHal \/ StartThreads
  BY <1>1, <1>8 DEF disableAllSensors, InitializeSubHal, StartThreads, SubHalMutexFree, ControlInv,
                    postVars, wakeVars
<1> QED
  BY <1>2, <1>3, <1>4, <1>5, <1>6, <1>7, <1>8, SMTT(30) DEF QuietStep

LEMMA QuietSession == ASSUME IInv, QuietStep PROVE SessionInv'
<1> USE DEF IInv
<1>1. PendingEvents' = PendingEvents /\ UNCHANGED <<fmq, batch, session>>
  BY QuietSteps, QuietKeeps DEF Quiet
<1>2. \/ postPc' = "post" \/ (postPc' = "check" /\ (threadsRun' \/ initPc' = "start"))
        => postPc = "post" \/ (postPc = "check" /\ (threadsRun \/ initPc = "start"))
  <2>1. CASE postEvents
    BY <2>1 DEF postEvents, initVars
  <2>2. CASE PendingCheck \/ PendingWaits \/ WakelockCheck \/ WakelockWaits \/ TimeoutPasses
    BY <2>2 DEF PendingCheck, PendingWaits, WakelockCheck, WakelockWaits, TimeoutPasses, initVars,
                postVars
  <2>3. CASE initialize \/ ClearThreadsRun \/ NotifyThreads \/ JoinThreads
    BY <2>3 DEF initialize, ClearThreadsRun, NotifyThreads, JoinThreads, postVars
  <2>4. CASE disableAllSensors \/ InitializeSubHal \/ StartThreads
    BY <2>4 DEF disableAllSensors, InitializeSubHal, StartThreads, SubHalMutexFree, postVars
  <2> QED
    BY <2>1, <2>2, <2>3, <2>4 DEF QuietStep
<1> QED
  BY <1>1, <1>2 DEF SessionInv

LEMMA TransitTyped ==
  ASSUME TypeOK
  PROVE  /\ Range(fmq) \subseteq Events /\ PendingEvents \subseteq Events
         /\ Range(batch) \subseteq Events /\ Acked \subseteq Events
         /\ UNION Range(acks) \subseteq Events
         /\ InTransit \subseteq Events /\ InTransit = Range(fmq) \cup (PendingEvents \ Settled) \cup Acked
         /\ Cardinality(Wake(InTransit)) \in Nat /\ Outstanding \in Nat
         /\ Outstanding = Cardinality(Wake(InTransit)) + ScopedReference
         /\ ScopedReference \in 0 .. 1
<1>1. Range(fmq) \subseteq Events /\ Range(batch) \subseteq Events
  BY SeqFacts DEF TypeOK, EventSeqs
<1>2. PendingEvents \subseteq Events
  BY AllOfFacts DEF TypeOK, PendingEvents, AllOf, Queues
<1>3. Acked \subseteq Events /\ UNION Range(acks) \subseteq Events
  <2>1. Range(acks) \subseteq SUBSET Events
    BY SeqFacts DEF TypeOK
  <2>2. UNION Range(acks) \subseteq Events
    BY <2>1
  <2>3. got \subseteq Events /\ unacked \subseteq Events
    BY DEF TypeOK
  <2> QED
    BY <2>2, <2>3 DEF Acked
<1>4. InTransit = Range(fmq) \cup (PendingEvents \ Settled) \cup Acked
  BY DEF InTransit, Acked
<1>5. InTransit \subseteq Events
  BY <1>1, <1>2, <1>3, <1>4
<1>6. Cardinality(Wake(InTransit)) \in Nat
  BY <1>5, Finite
<1>7. Outstanding = Cardinality(Wake(InTransit)) + ScopedReference
  BY DEF Outstanding, Wake
<1>8. ScopedReference \in 0 .. 1
  BY DEF ScopedReference
<1> QED
  BY <1>1, <1>2, <1>3, <1>4, <1>5, <1>6, <1>7, <1>8, SMTT(30)

LEMMA QuietCount == ASSUME IInv, QuietStep PROVE CountInv'
<1> USE DEF IInv
<1> DEFINE n == Cardinality(Wake(InTransit))
<1>1. InTransit' = InTransit /\ n \in Nat /\ Outstanding = n + ScopedReference /\ refCount \in Nat
  BY QuietSteps, QuietKeeps, TransitTyped DEF TypeOK
<1>2. Outstanding' = n + ScopedReference'
  BY <1>1 DEF Outstanding, Wake
<1> HIDE DEF n
<1>3. CASE /\ UNCHANGED <<refCount, scoped>>
           /\ threadsRun' /\ ~timedOut' => threadsRun /\ ~timedOut
  BY <1>1, <1>2, <1>3 DEF CountInv, NoLeakedReference, WakelockBalanced, ScopedReference
<1>4. CASE refCount' = 0 /\ ~(threadsRun' /\ ~timedOut')
  BY <1>1, <1>2, <1>4 DEF CountInv, NoLeakedReference, WakelockBalanced, ScopedReference
<1>5. CASE postEvents
  BY <1>3, <1>5 DEF postEvents, initVars, wakeVars
<1>6. CASE PendingCheck \/ PendingWaits \/ WakelockWaits \/ TimeoutPasses
  BY <1>3, <1>6 DEF PendingCheck, PendingWaits, WakelockWaits, TimeoutPasses, initVars, wakeVars
<1>7. CASE WakelockCheck
  BY <1>3, <1>4, <1>7 DEF WakelockCheck, resetSharedWakelock, initVars
<1>8. CASE JoinThreads
  BY <1>4, <1>8, SMTT(30) DEF JoinThreads, resetSharedWakelock, ControlInv
<1>9. CASE initialize \/ ClearThreadsRun \/ NotifyThreads \/ disableAllSensors \/ InitializeSubHal
  BY <1>3, <1>9 DEF initialize, ClearThreadsRun, NotifyThreads, disableAllSensors,
                    InitializeSubHal, wakeVars
<1>10. CASE StartThreads
  <2>1. /\ refCount = 0 /\ scoped = "none" /\ fmq = <<>> /\ pending = <<>> /\ acks = <<>>
        /\ unacked = {} /\ got = {} /\ UNCHANGED <<refCount, scoped>>
    BY <1>10 DEF StartThreads, ControlInv, wakeVars
  <2>2. Range(fmq) = {} /\ Range(acks) = {} /\ PendingEvents = {}
    BY <2>1, EmptyFacts DEF PendingEvents
  <2>3. InTransit = {}
    BY <2>1, <2>2 DEF InTransit
  <2>4. n = 0
    BY <2>3, FS_EmptySet DEF Wake, n
  <2> QED
    BY <1>1, <1>2, <2>1, <2>4, SMTT(30) DEF CountInv, NoLeakedReference, WakelockBalanced, ScopedReference
<1> QED
  BY <1>5, <1>6, <1>7, <1>8, <1>9, <1>10, SMTT(30) DEF QuietStep
-----------------------------------------------------------------------------
(***************************************************************************)
(* The poll thread                                                         *)
(***************************************************************************)
LEMMA NewBatch ==
  ASSUME TypeOK, NEW b \in Batches, createScopedWakelock(b)
  PROVE  /\ batch' \in EventSeqs /\ Ascending(batch')
         /\ nextId \in Nat /\ nextId' \in 1 .. MAX_EVENTS + 1 /\ nextId <= nextId'
         /\ \A e \in Range(batch') : nextId <= e.id /\ e.id < nextId' /\ e.session = session
<1> DEFINE Event(i) == [wake |-> b[i], id |-> nextId + i - 1, session |-> session]
           n == Len(b)
<1>1. n \in Nat /\ DOMAIN b = 1 .. n /\ \A i \in 1 .. n : b[i] \in BOOLEAN
  BY ConstantsAssumption, SeqFacts, SMTT(30)
<1>2. batch' = [i \in 1 .. n |-> Event(i)] /\ nextId' = nextId + n /\ nextId + n <= MAX_EVENTS + 1
  BY <1>1 DEF createScopedWakelock
<1>3. nextId \in Nat /\ nextId >= 1 /\ MAX_EVENTS \in Nat /\ session \in 0 .. MAX_INITS
  BY ConstantsAssumption DEF TypeOK
<1> HIDE DEF n
<1>4. \A i \in 1 .. n : /\ nextId + i - 1 \in 1 .. MAX_EVENTS /\ nextId <= nextId + i - 1
                        /\ nextId + i - 1 < nextId + n
  BY <1>1, <1>2, <1>3, SMTT(30)
<1>5. \A i \in 1 .. n : Event(i) \in Events
  BY <1>1, <1>3, <1>4 DEF Events
<1>6. batch' \in EventSeqs
  <2>1. batch' \in [1 .. n -> Events]
    BY <1>2, <1>5
  <2> QED
    BY <1>1, <2>1, SeqDef, SMTT(30) DEF EventSeqs
<1>7. Ascending(batch')
  <2>1. DOMAIN batch' = 1 .. n /\ \A i \in 1 .. n : batch'[i].id = nextId + i - 1
    BY <1>2
  <2>2. \A i, j \in 1 .. n : i < j => nextId + i - 1 < nextId + j - 1
    BY <1>1, <1>3, SMTT(30)
  <2> QED
    BY <2>1, <2>2 DEF Ascending
<1>8. \A e \in Range(batch') : nextId <= e.id /\ e.id < nextId' /\ e.session = session
  BY <1>2, <1>4 DEF Range
<1>9. nextId' \in 1 .. MAX_EVENTS + 1 /\ nextId <= nextId'
  BY <1>1, <1>2, <1>3, SMTT(30)
<1> QED
  BY <1>3, <1>6, <1>7, <1>8, <1>9, SMTT(30)

\* The poster's reference, or none.
LEMMA CreateCounts ==
  ASSUME IInv, NEW b \in Batches, createScopedWakelock(b)
  PROVE  /\ UNCHANGED <<initVars, timedOut, fmq, pending, sizePending, pendPc, got, frameworkVars>>
         /\ postPc = "idle" /\ postPc' = "check" /\ scoped = "none"
         /\ \/ /\ threadsRun /\ refCount' = refCount + 1 /\ scoped' = "live"
               /\ expired' = FALSE /\ wakePc' \in {Woken(wakePc), wakePc}
            \/ UNCHANGED <<scoped, refCount, expired, wakePc>>
<1>1. scoped = "none"
  BY DEF createScopedWakelock, IInv, ControlInv
<1> QED
  BY <1>1, SMTT(30) DEF createScopedWakelock, Acquires

LEMMA CreateKeeps == ASSUME IInv, NEW b \in Batches, createScopedWakelock(b) PROVE IInv'
<1> USE DEF IInv
<1>1. /\ batch' \in EventSeqs /\ Ascending(batch')
      /\ nextId \in Nat /\ nextId' \in 1 .. MAX_EVENTS + 1 /\ nextId <= nextId'
      /\ \A e \in Range(batch') : nextId <= e.id /\ e.id < nextId' /\ e.session = session
  BY NewBatch
<1>2. /\ UNCHANGED <<threadsRun, session, initPc, subHalReady, timedOut, fmq, pending, sizePending,
                     pendPc, got, acks, unacked, lastRead>>
      /\ postPc = "idle" /\ postPc' = "check" /\ scoped = "none"
  BY CreateCounts, Zenon DEF initVars, frameworkVars
<1>3. \/ /\ threadsRun /\ refCount' = refCount + 1 /\ scoped' = "live"
         /\ expired' = FALSE /\ wakePc' \in {Woken(wakePc), wakePc}
      \/ UNCHANGED <<scoped, refCount, expired, wakePc>>
  BY CreateCounts, Zenon
<1>4. /\ PendingEvents' = PendingEvents /\ Settled' = Settled /\ InTransit' = InTransit
      /\ Acked' = Acked
  BY <1>2, SameEvents, SMTT(30)
<1>5. TypeOK'
  <2>1. /\ refCount' \in Nat /\ scoped' \in {"none", "live", "stale"} /\ expired' \in BOOLEAN
        /\ wakePc' \in ThreadStates \cup {"reading", "got"}
    <3>1. /\ refCount \in Nat /\ scoped \in {"none", "live", "stale"} /\ expired \in BOOLEAN
          /\ wakePc \in ThreadStates \cup {"reading", "got"}
          /\ Woken(wakePc) \in ThreadStates \cup {"reading", "got"}
      BY DEF TypeOK, Woken, ThreadStates
    <3>2. refCount + 1 \in Nat
      BY <3>1, SMTT(30)
    <3> QED
      BY <1>3, <3>1, <3>2, Zenon
  <2> QED
    BY <1>1, <1>2, <1>4, <2>1, SMTT(30) DEF TypeOK
<1>6. PendingInv' /\ AckInv'
  BY <1>2, <1>4, ZenonT(30) DEF PendingInv, AckInv
<1>7. OrderInv'
  <2>1. /\ Range(fmq) \subseteq Events /\ PendingEvents \subseteq Events
        /\ Range(batch') \subseteq Events /\ lastRead \in Nat
    <3>1. Range(fmq) \subseteq Events /\ PendingEvents \subseteq Events
      BY TransitTyped, Zenon
    <3>2. Range(batch') \subseteq Events
      BY <1>1, SeqFacts, Zenon DEF EventSeqs
    <3>3. lastRead \in 0 .. MAX_EVENTS
      BY Zenon DEF TypeOK
    <3>4. lastRead \in Nat
      BY <3>3, ConstantsAssumption
    <3> QED
      BY <3>1, <3>2, <3>4, Zenon
  <2>2. \A e \in Range(batch') : e.id \in Nat
    BY <2>1, IdType
  <2>3. \A f \in Range(fmq) \cup PendingEvents : f.id \in Nat /\ f.id < nextId
    BY <2>1, IdType DEF OrderInv
  <2>4. nextId' \in Nat /\ lastRead < nextId
    BY <1>1, ConstantsAssumption DEF OrderInv
  <2>5. \A e \in Range(batch') :
          lastRead < e.id /\ \A f \in Range(fmq) \cup PendingEvents : f.id < e.id
    BY <1>1, <2>1, <2>2, <2>3, <2>4, SMTT(30)
  <2>6. \A e \in Range(fmq) \cup PendingEvents \cup Range(batch') : e.id < nextId'
    BY <1>1, <2>3, <2>4
  <2>7. lastRead < nextId'
    BY <1>1, <2>1, <2>4, SMTT(30)
  <2>8. DeliveredInOrder'
    BY <1>2, Zenon DEF OrderInv, DeliveredInOrder
  <2>9. \A e \in (PendingEvents \ Settled)' : lastRead' < e.id /\ \A f \in Range(fmq') : f.id < e.id
    BY <1>2, <1>4, Zenon DEF OrderInv
  <2> QED
    BY <1>1, <1>2, <1>4, <2>5, <2>6, <2>7, <2>8, <2>9, ZenonT(30) DEF OrderInv
<1>8. ControlInv'
  BY <1>2, <1>3 DEF ControlInv, Woken
<1>9. SessionInv'
  BY <1>1, <1>2, <1>4 DEF SessionInv
<1>10. CountInv'
  <2> DEFINE n == Cardinality(Wake(InTransit))
  <2>1. n \in Nat /\ Outstanding = n + ScopedReference /\ refCount \in Nat
    BY TransitTyped DEF TypeOK
  <2>2. Outstanding' = n + ScopedReference'
    BY <1>4 DEF Outstanding, Wake
  <2> HIDE DEF n
  <2> QED
    BY <1>2, <1>3, <2>1, <2>2, SMTT(30) DEF CountInv, NoLeakedReference, WakelockBalanced, ScopedReference
<1> QED
  BY <1>5, <1>6, <1>7, <1>8, <1>9, <1>10, SMTT(30)

LEMMA ReleaseKeeps == ASSUME IInv, releaseScopedWakelock PROVE IInv'
<1> USE DEF IInv
<1>1. /\ UNCHANGED <<threadsRun, session, initPc, subHalReady, nextId, expired, timedOut, fmq,
                     pending, sizePending, pendPc, wakePc, got, acks, unacked, lastRead>>
      /\ postPc = "release" /\ postPc' = "idle" /\ batch' = <<>> /\ scoped' = "none"
      /\ refCount' = Minus(refCount, ScopedReference)
  BY DEF releaseScopedWakelock, initVars, frameworkVars
<1>2. refCount \in Nat /\ ScopedReference \in Nat
  BY DEF TypeOK, ScopedReference
<1>3. refCount' = IF ScopedReference <= refCount THEN refCount - ScopedReference ELSE 0
  BY <1>1, <1>2, MinFacts, Zenon
<1>4. /\ PendingEvents' = PendingEvents /\ Settled' = Settled /\ InTransit' = InTransit
      /\ Acked' = Acked
  BY <1>1, SameEvents
<1>5. batch' \in EventSeqs /\ Range(batch') = {} /\ Ascending(batch')
  BY <1>1, EmptyFacts, SMTT(30) DEF EventSeqs
<1>6. TypeOK'
  BY <1>1, <1>2, <1>3, <1>4, <1>5, SMTT(30) DEF TypeOK
<1>7. PendingInv' /\ AckInv' /\ OrderInv' /\ SessionInv'
  BY <1>1, <1>4, <1>5, Zenon DEF PendingInv, AckInv, OrderInv, DeliveredInOrder, SessionInv
<1>8. ControlInv'
  BY <1>1, <1>2, <1>3, SMTT(30) DEF ControlInv
<1>9. CountInv'
  <2> DEFINE n == Cardinality(Wake(InTransit))
  <2>1. n \in Nat /\ Outstanding = n + ScopedReference
    BY TransitTyped
  <2>2. Outstanding' = n
    <3>1. ScopedReference' = 0
      BY <1>1 DEF ScopedReference
    <3> QED
      BY <1>4, <2>1, <3>1, SMTT(30) DEF Outstanding, Wake
  <2> HIDE DEF n
  <2> QED
    BY <1>1, <1>2, <1>3, <2>1, <2>2, SMTT(30) DEF CountInv, NoLeakedReference, WakelockBalanced
<1> QED
  BY <1>6, <1>7, <1>8, <1>9, SMTT(30)
=============================================================================
