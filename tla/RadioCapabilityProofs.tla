------------------------ MODULE RadioCapabilityProofs ------------------------
(* No transaction of RadioCapability completes on one phone alone, for every *)
(* number of sockets, sessions, restarts and stray requests.                 *)
EXTENDS RadioCapability, SequenceTheorems, FiniteSetTheorems, TLAPS

\* The APPLY of the current transaction, and what may stand behind it.
IsApply(r) == r.phase = "APPLY" /\ r.session = session /\ r.epoch = epoch
Behind(r) == IsApply(r) \/ r.phase \in {"FINISH", "INVALID"}

Indicates(a) == a.kind = "UNSOL" /\ IsCurrentAnswer(a)

\* The sockets whose indication ProxyController has received.
Received == {s \in applied : \A i \in 1 .. Len(answers[s]) : ~Indicates(answers[s][i])}

\* A session number is used once in the life of a system_server, and nothing
\* comes from a later one.
SessionInv ==
  /\ phase # "IDLE" => session < nextSession
  /\ \A s \in Sockets : \A i \in 1 .. Len(queue[s]) :
       /\ queue[s][i].epoch <= epoch
       /\ queue[s][i].epoch = epoch /\ queue[s][i].phase # "INVALID" =>
            queue[s][i].session < nextSession
  /\ \A s \in Sockets : \A i \in 1 .. Len(answers[s]) :
       /\ answers[s][i].epoch <= epoch
       /\ answers[s][i].epoch = epoch /\ answers[s][i].kind = "UNSOL" =>
            answers[s][i].session < nextSession

\* No START and no older APPLY follows the APPLY of the current transaction.
OrderInv ==
  \A s \in Sockets : \A i, j \in 1 .. Len(queue[s]) :
    i <= j /\ IsApply(queue[s][i]) => Behind(queue[s][j])

\* A socket that has applied remembers the session, and nothing that it still
\* has to handle makes it forget.
AppliedInv ==
  /\ applied \subseteq Sockets
  /\ \A s \in applied :
       /\ lastValid[s] /\ lastApply[s] = session
       /\ \A i \in 1 .. Len(queue[s]) : Behind(queue[s][i])

\* Only a socket that has applied has indicated, and only once.
IndicationInv ==
  \A s \in Sockets : \A i \in 1 .. Len(answers[s]) :
    Indicates(answers[s][i]) =>
      s \in applied /\ \A j \in 1 .. Len(answers[s]) : Indicates(answers[s][j]) => j = i

\* The counter is decremented once for each indication received.
CountInv ==
  /\ phase = "APPLY" => SIM_COUNT <= counter + Cardinality(Received)
  /\ CompletesTogether

IInv == TypeOK /\ SessionInv /\ OrderInv /\ AppliedInv /\ IndicationInv /\ CountInv
-----------------------------------------------------------------------------
(***************************************************************************)
(* What the operations on the queues do to their elements                  *)
(***************************************************************************)
LEMMA TailElements ==
  ASSUME NEW S, NEW q \in Seq(S), q # <<>>
  PROVE  /\ Head(q) \in S /\ Head(q) = q[1] /\ 1 \in 1 .. Len(q)
         /\ Tail(q) \in Seq(S) /\ Len(Tail(q)) = Len(q) - 1 /\ Len(q) \in Nat
         /\ \A i \in 1 .. Len(Tail(q)) : Tail(q)[i] = q[i + 1] /\ i + 1 \in 1 .. Len(q)
<1>1. /\ Head(q) \in S /\ Head(q) = q[1] /\ Tail(q) \in Seq(S) /\ Len(Tail(q)) = Len(q) - 1
      /\ Len(q) \in Nat \ {0} /\ \A i \in 1 .. Len(Tail(q)) : Tail(q)[i] = q[i + 1]
  BY HeadTailProperties, LenProperties, EmptySeq
<1> QED
  BY <1>1

LEMMA AppendElements ==
  ASSUME NEW S, NEW q \in Seq(S), NEW x \in S
  PROVE  /\ Append(q, x) \in Seq(S) /\ Len(Append(q, x)) = Len(q) + 1 /\ Len(q) \in Nat
         /\ Append(q, x)[Len(q) + 1] = x
         /\ \A i \in 1 .. Len(q) : Append(q, x)[i] = q[i]
  BY AppendProperties, LenProperties

LEMMA SocketsCounted == IsFiniteSet(Sockets) /\ Cardinality(Sockets) = SIM_COUNT
<1>1. 0 \in Int /\ SIM_COUNT - 1 \in Int /\ ~(0 > SIM_COUNT - 1)
  BY ConstantsAssumption
<1>2. /\ IsFiniteSet(0 .. SIM_COUNT - 1)
      /\ Cardinality(0 .. SIM_COUNT - 1) = IF 0 > SIM_COUNT - 1 THEN 0 ELSE (SIM_COUNT - 1) - 0 + 1
  BY <1>1, FS_Interval
<1> QED
  BY <1>1, <1>2, ConstantsAssumption DEF Sockets

LEMMA SocketSets ==
  ASSUME NEW S, NEW T, S \subseteq T, T \subseteq Sockets
  PROVE  /\ Cardinality(S) \in Nat /\ Cardinality(T) \in Nat
         /\ Cardinality(S) <= Cardinality(T)
<1>1. IsFiniteSet(T)
  BY SocketsCounted, FS_Subset
<1> QED
  BY <1>1, FS_Subset, FS_CardinalityType

\* The answers a handler gives are those of its request, and the indication,
\* if there is one, comes last.
LEMMA HandlerAnswers ==
  ASSUME TypeOK, NEW s \in Sockets, NEW r \in Requests, setRadioCapability(s, r)
  PROVE  /\ answers' \in [Sockets -> Seq(Answers)]
         /\ \A t \in Sockets \ {s} : answers'[t] = answers[t]
         /\ Len(answers[s]) \in Nat /\ Len(answers'[s]) \in Nat
         /\ Len(answers[s]) <= Len(answers'[s])
         /\ \A i \in 1 .. Len(answers[s]) : answers'[s][i] = answers[s][i]
         /\ \A i \in 1 .. Len(answers'[s]) : i \notin 1 .. Len(answers[s]) =>
              /\ answers'[s][i].session = r.session /\ answers'[s][i].epoch = r.epoch
              /\ answers'[s][i].kind = "UNSOL" =>
                   r.phase = "APPLY" /\ IsNewApply(s, r.session) /\ i = Len(answers'[s])
<1> DEFINE q == answers[s]
           one == Answer("RESPONSE", r)
           two == Indication(r)
           no == Answer("ERROR", r)
<1>1. q \in Seq(Answers) /\ Len(q) \in Nat
  BY LenProperties DEF TypeOK
<1>2. \A x : answers' = [answers EXCEPT ![s] = x] =>
               answers'[s] = x /\ \A t \in Sockets \ {s} : answers'[t] = answers[t]
  BY DEF TypeOK
<1>3. \A x \in Seq(Answers) : answers' = [answers EXCEPT ![s] = x] =>
                                answers' \in [Sockets -> Seq(Answers)]
  BY DEF TypeOK
<1>4. /\ r.phase \in Phases => one \in Answers
      /\ r.phase \notin Phases => no \in Answers
      /\ two \in Answers
  BY DEF Answer, Indication, Answers, Replies, Requests
<1>5. /\ one.session = r.session /\ one.epoch = r.epoch /\ one.kind # "UNSOL"
      /\ no.session = r.session /\ no.epoch = r.epoch /\ no.kind # "UNSOL"
      /\ two.session = r.session /\ two.epoch = r.epoch
  BY DEF Answer, Indication
<1>6. ASSUME NEW x \in Answers, x \in {one, no}, answers' = [answers EXCEPT ![s] = Append(q, x)]
      PROVE  /\ answers' \in [Sockets -> Seq(Answers)]
             /\ \A t \in Sockets \ {s} : answers'[t] = answers[t]
             /\ Len(answers[s]) \in Nat /\ Len(answers'[s]) \in Nat
             /\ Len(answers[s]) <= Len(answers'[s])
             /\ \A i \in 1 .. Len(answers[s]) : answers'[s][i] = answers[s][i]
             /\ \A i \in 1 .. Len(answers'[s]) : i \notin 1 .. Len(answers[s]) =>
                  /\ answers'[s][i].session = r.session /\ answers'[s][i].epoch = r.epoch
                  /\ answers'[s][i].kind # "UNSOL"
  <2>1. answers'[s] = Append(q, x) /\ \A t \in Sockets \ {s} : answers'[t] = answers[t]
    BY <1>2, <1>6, Zenon
  <2>2. /\ Append(q, x) \in Seq(Answers) /\ Len(Append(q, x)) = Len(q) + 1
        /\ Append(q, x)[Len(q) + 1] = x /\ \A i \in 1 .. Len(q) : Append(q, x)[i] = q[i]
    BY <1>1, AppendElements
  <2>3. \A i \in 1 .. Len(answers'[s]) : i \notin 1 .. Len(q) => answers'[s][i] = x
    BY <1>1, <2>1, <2>2
  <2> HIDE DEF one, no, two, q
  <2>4. x.session = r.session /\ x.epoch = r.epoch /\ x.kind # "UNSOL"
    BY <1>5, <1>6
  <2>5. answers' \in [Sockets -> Seq(Answers)]
    BY <1>3, <1>6, <2>2, Zenon
  <2>6. Len(answers'[s]) \in Nat /\ Len(q) <= Len(answers'[s])
    BY <1>1, <2>1, <2>2
  <2> QED
    BY <1>1, <2>1, <2>2, <2>3, <2>4, <2>5, <2>6 DEF q
<1>7. CASE r.phase = "APPLY" /\ IsNewApply(s, r.session)
           /\ answers' = [answers EXCEPT ![s] = q \o <<one, two>>]
  <2>1. q \o <<one, two>> = Append(Append(q, one), two)
    BY <1>1, <1>4, <1>7 DEF Phases
  <2>2. answers'[s] = Append(Append(q, one), two) /\ one \in Answers
        /\ \A t \in Sockets \ {s} : answers'[t] = answers[t]
    BY <1>2, <1>4, <1>7, <2>1, Zenon DEF Phases
  <2> HIDE DEF one, two, q
  <2>3. /\ Append(q, one) \in Seq(Answers) /\ Len(Append(q, one)) = Len(q) + 1
        /\ Append(q, one)[Len(q) + 1] = one /\ \A i \in 1 .. Len(q) : Append(q, one)[i] = q[i]
    BY <1>1, <2>2, AppendElements
  <2>4. /\ answers'[s] \in Seq(Answers) /\ Len(answers'[s]) = Len(q) + 2
        /\ answers'[s][Len(q) + 2] = two /\ answers'[s][Len(q) + 1] = one
        /\ \A i \in 1 .. Len(q) : answers'[s][i] = q[i]
    <3>1. /\ Append(Append(q, one), two) \in Seq(Answers)
          /\ Len(Append(Append(q, one), two)) = Len(Append(q, one)) + 1
          /\ Append(Append(q, one), two)[Len(Append(q, one)) + 1] = two
          /\ \A i \in 1 .. Len(Append(q, one)) : Append(Append(q, one), two)[i] = Append(q, one)[i]
      BY <1>4, <2>3, AppendElements
    <3> QED
      BY <1>1, <2>2, <2>3, <3>1
  <2>5. answers' \in [Sockets -> Seq(Answers)]
    BY <1>3, <1>7, <2>1, <2>2, <2>4, Zenon
  <2>6. \A i \in 1 .. Len(answers'[s]) : i \notin 1 .. Len(q) =>
          \/ answers'[s][i] = one
          \/ answers'[s][i] = two /\ i = Len(answers'[s])
    BY <1>1, <2>4
  <2>7. Len(answers'[s]) \in Nat /\ Len(q) <= Len(answers'[s])
    BY <1>1, <2>4
  <2> QED
    BY <1>1, <1>5, <1>7, <2>2, <2>4, <2>5, <2>6, <2>7 DEF q
<1>8. \/ \E x \in {one, no} : x \in Answers /\ answers' = [answers EXCEPT ![s] = Append(q, x)]
      \/ /\ r.phase = "APPLY" /\ IsNewApply(s, r.session)
         /\ answers' = [answers EXCEPT ![s] = q \o <<one, two>>]
  BY <1>4, Zenon DEF setRadioCapability, Phases, Requests, TypeOK
<1> QED
  BY <1>6, <1>7, <1>8, Zenon
-----------------------------------------------------------------------------
(***************************************************************************)
(* The shim's step                                                         *)
(***************************************************************************)
\* A handled request leaves the queue or, if it is retried, stays in it.
HandlerStep(s) ==
  /\ queue[s] # <<>> /\ setRadioCapability(s, Head(queue[s])) /\ RecordApply(s, Head(queue[s]))
  /\ queue' \in {queue, [queue EXCEPT ![s] = Tail(@)]}
  /\ UNCHANGED <<clientVars, stray>>

LEMMA ShimTyped ==
  ASSUME TypeOK, NEW s \in Sockets, HandlerStep(s)
  PROVE  TypeOK'
<1>1. queue[s] \in Seq(Requests) /\ Head(queue[s]) \in Requests /\ Tail(queue[s]) \in Seq(Requests)
  BY TailElements DEF TypeOK, HandlerStep
<1>2. queue' \in [Sockets -> Seq(Requests)]
  BY <1>1, Zenon DEF HandlerStep, TypeOK
<1>3. answers' \in [Sockets -> Seq(Answers)]
  BY <1>1, HandlerAnswers DEF HandlerStep
<1>4. lastApply' \in [Sockets -> Sessions] /\ lastValid' \in [Sockets -> BOOLEAN]
  BY <1>1, Zenon DEF HandlerStep, setRadioCapability, resetApplyDedupe, shimVars, TypeOK, Requests
<1>5. applied' \subseteq Sockets
  BY DEF HandlerStep, RecordApply, TypeOK
<1> QED
  BY <1>2, <1>3, <1>4, <1>5 DEF HandlerStep, clientVars, TypeOK

LEMMA ShimKeeps ==
  ASSUME IInv, NEW s \in Sockets, HandlerStep(s)
  PROVE  IInv'
<1> DEFINE r == queue[s][1]
<1> USE DEF IInv
<1>1. TypeOK'
  BY ShimTyped
<1>2. /\ queue[s] \in Seq(Requests) /\ queue[s] # <<>> /\ r = Head(queue[s]) /\ r \in Requests
      /\ 1 \in 1 .. Len(queue[s]) /\ Len(queue[s]) \in Nat
  BY TailElements DEF TypeOK, HandlerStep
<1>3. UNCHANGED <<phase, session, nextSession, epoch, counter, answered, stray>>
  BY DEF HandlerStep, clientVars
<1> HIDE DEF r
\* The queues: what is left of them was there before, in the same order.
<1>4. \E d \in {0, 1} : /\ Len(queue'[s]) = Len(queue[s]) - d
                        /\ \A i \in 1 .. Len(queue'[s]) : /\ queue'[s][i] = queue[s][i + d]
                                                          /\ i + d \in 1 .. Len(queue[s])
  <2>1. CASE queue' = queue
    BY <1>2, <2>1
  <2>2. CASE queue' = [queue EXCEPT ![s] = Tail(@)]
    <3>1. queue'[s] = Tail(queue[s])
      BY <2>2 DEF TypeOK
    <3> QED
      BY <1>2, <3>1, TailElements
  <2> QED
    BY <2>1, <2>2 DEF HandlerStep
<1>5. \A t \in Sockets \ {s} : queue'[t] = queue[t]
  BY DEF HandlerStep, TypeOK
<1>6. PICK d \in {0, 1} : /\ Len(queue'[s]) = Len(queue[s]) - d
                          /\ \A i \in 1 .. Len(queue'[s]) : /\ queue'[s][i] = queue[s][i + d]
                                                            /\ i + d \in 1 .. Len(queue[s])
  BY <1>4
<1>7. \A x : (IsApply(x)' <=> IsApply(x)) /\ (Behind(x)' <=> Behind(x))
             /\ (Indicates(x)' <=> Indicates(x))
  BY <1>3 DEF IsApply, Behind, Indicates, IsCurrentAnswer
<1>8. OrderInv'
  <2> SUFFICES ASSUME NEW t \in Sockets, NEW i \in 1 .. Len(queue'[t]),
                      NEW j \in 1 .. Len(queue'[t]), i <= j, IsApply(queue'[t][i])
               PROVE  Behind(queue'[t][j])
    BY <1>7 DEF OrderInv
  <2>1. CASE t # s
    BY <1>5, <2>1 DEF OrderInv
  <2>2. CASE t = s
    <3>1. i + d \in 1 .. Len(queue[s]) /\ j + d \in 1 .. Len(queue[s]) /\ i + d <= j + d
      BY <1>2, <1>6, <2>2, SMTT(30)
    <3> QED
      BY <1>6, <2>2, <3>1 DEF OrderInv
  <2> QED
    BY <2>1, <2>2
\* The socket's memory: it knows the session once it has applied.
<1>9. /\ applied' = IF IsApply(r) THEN applied \cup {s} ELSE applied
      /\ applied \subseteq Sockets
  BY <1>2 DEF HandlerStep, RecordApply, IsApply, TypeOK
<1>10. s \in applied => Behind(r) /\ (r.phase = "APPLY" => ~IsNewApply(s, r.session))
  BY <1>2 DEF AppliedInv, Behind, IsApply, IsNewApply, r
<1>11. /\ \A t \in Sockets \ {s} : lastValid'[t] = lastValid[t] /\ lastApply'[t] = lastApply[t]
       /\ s \in applied' => lastValid'[s] /\ lastApply'[s] = session
  <2>1. setRadioCapability(s, r)
    BY <1>2 DEF HandlerStep
  <2>2. \A t \in Sockets \ {s} : lastValid'[t] = lastValid[t] /\ lastApply'[t] = lastApply[t]
    BY <2>1 DEF setRadioCapability, resetApplyDedupe, shimVars, TypeOK
  <2>3. CASE IsApply(r)
    BY <2>1, <2>3 DEF setRadioCapability, IsNewApply, IsApply, Phases, shimVars, TypeOK
  <2>4. CASE ~IsApply(r) /\ s \in applied
    <3>1. r.phase \in {"FINISH", "INVALID"}
      BY <1>10, <2>4 DEF Behind
    <3>2. UNCHANGED shimVars
      BY <2>1, <3>1 DEF setRadioCapability, Phases
    <3> QED
      BY <2>2, <2>4, <3>2 DEF AppliedInv, shimVars
  <2> QED
    BY <1>9, <2>2, <2>3, <2>4
<1>12. AppliedInv'
  <2> SUFFICES ASSUME NEW t \in applied'
               PROVE  /\ lastValid'[t] /\ lastApply'[t] = session
                      /\ \A i \in 1 .. Len(queue'[t]) : Behind(queue'[t][i])
    BY <1>3, <1>7, <1>9 DEF AppliedInv
  <2>1. CASE t # s
    BY <1>5, <1>9, <1>11, <2>1 DEF AppliedInv
  <2>2. CASE t = s
    <3>1. \A i \in 1 .. Len(queue[s]) : Behind(queue[s][i])
      <4>1. CASE s \in applied
        BY <4>1 DEF AppliedInv
      <4>2. CASE IsApply(r)
        BY <1>2, <4>2 DEF OrderInv, r
      <4> QED
        BY <1>9, <2>2, <4>1, <4>2
    <3> QED
      BY <1>6, <1>11, <2>2, <3>1
  <2> QED
    BY <2>1, <2>2
\* The answers: a second indication of the session is never added.
<1>13. /\ \A t \in Sockets \ {s} : answers'[t] = answers[t]
       /\ Len(answers[s]) \in Nat /\ Len(answers'[s]) \in Nat
       /\ Len(answers[s]) <= Len(answers'[s])
       /\ \A i \in 1 .. Len(answers[s]) : answers'[s][i] = answers[s][i]
       /\ \A i \in 1 .. Len(answers'[s]) : i \notin 1 .. Len(answers[s]) =>
            /\ answers'[s][i].session = r.session /\ answers'[s][i].epoch = r.epoch
            /\ answers'[s][i].kind = "UNSOL" =>
                 r.phase = "APPLY" /\ IsNewApply(s, r.session) /\ i = Len(answers'[s])
  BY <1>2, HandlerAnswers DEF HandlerStep
<1>14. ASSUME NEW i \in 1 .. Len(answers'[s]), i \notin 1 .. Len(answers[s]),
              Indicates(answers'[s][i])
       PROVE  IsApply(r) /\ s \notin applied /\ s \in applied' /\ i = Len(answers'[s])
  <2>1. IsApply(r) /\ IsNewApply(s, r.session) /\ i = Len(answers'[s])
    BY <1>13, <1>14 DEF Indicates, IsCurrentAnswer, IsApply
  <2> QED
    BY <1>9, <1>10, <2>1 DEF IsApply
<1>15. IndicationInv'
  <2> SUFFICES ASSUME NEW t \in Sockets, NEW i \in 1 .. Len(answers'[t]),
                      Indicates(answers'[t][i])
               PROVE  t \in applied' /\ \A j \in 1 .. Len(answers'[t]) :
                                          Indicates(answers'[t][j]) => j = i
    BY <1>7 DEF IndicationInv
  <2>1. CASE t # s
    BY <1>9, <1>13, <2>1 DEF IndicationInv
  <2>2. CASE t = s /\ i \in 1 .. Len(answers[s])
    <3>1. Indicates(answers[s][i])
      BY <1>13, <2>2
    <3>2. s \in applied /\ \A j \in 1 .. Len(answers[s]) : Indicates(answers[s][j]) => j = i
      BY <2>2, <3>1 DEF IndicationInv
    <3> QED
      BY <1>9, <1>13, <1>14, <2>2, <3>2
  <2>3. CASE t = s /\ i \notin 1 .. Len(answers[s])
    <3>1. s \notin applied /\ s \in applied' /\ i = Len(answers'[s])
      BY <1>14, <2>3
    <3>2. \A j \in 1 .. Len(answers[s]) : ~Indicates(answers'[s][j])
      BY <1>13, <3>1 DEF IndicationInv
    <3> QED
      BY <1>14, <2>3, <3>1, <3>2
  <2> QED
    BY <2>1, <2>2, <2>3
<1>16. SessionInv'
  <2>1. /\ r.epoch <= epoch
        /\ r.epoch = epoch /\ r.phase # "INVALID" => r.session < nextSession
    BY <1>2 DEF SessionInv, r
  <2>2. \A t \in Sockets : \A i \in 1 .. Len(queue'[t]) :
          /\ queue'[t][i].epoch <= epoch
          /\ queue'[t][i].epoch = epoch /\ queue'[t][i].phase # "INVALID" =>
               queue'[t][i].session < nextSession
    <3> SUFFICES ASSUME NEW t \in Sockets, NEW i \in 1 .. Len(queue'[t])
                 PROVE  \E j \in 1 .. Len(queue[t]) : queue'[t][i] = queue[t][j]
      BY SMTT(30) DEF SessionInv
    <3>1. CASE t = s
      BY <1>6, <3>1
    <3>2. CASE t # s
      BY <1>5, <3>2
    <3> QED
      BY <3>1, <3>2
  <2>3. \A t \in Sockets : \A i \in 1 .. Len(answers'[t]) :
          /\ answers'[t][i].epoch <= epoch
          /\ answers'[t][i].epoch = epoch /\ answers'[t][i].kind = "UNSOL" =>
               answers'[t][i].session < nextSession
    <3> SUFFICES ASSUME NEW t \in Sockets, NEW i \in 1 .. Len(answers'[t])
                 PROVE  /\ answers'[t][i].epoch <= epoch
                        /\ answers'[t][i].epoch = epoch /\ answers'[t][i].kind = "UNSOL" =>
                             answers'[t][i].session < nextSession
      OBVIOUS
    <3>1. CASE t = s /\ i \notin 1 .. Len(answers[s])
      BY <1>13, <2>1, <3>1
    <3>2. CASE t # s \/ i \in 1 .. Len(answers[s])
      BY <1>13, <3>2 DEF SessionInv
    <3> QED
      BY <3>1, <3>2
  <2> QED
    BY <1>3, <2>2, <2>3 DEF SessionInv
<1>17. CountInv'
  <2>1. Received \subseteq Received' /\ applied' \subseteq Sockets
    <3>1. applied \subseteq applied' /\ applied' \subseteq Sockets
      BY <1>9
    <3>2. ASSUME NEW t \in Received, NEW i \in 1 .. Len(answers'[t])
          PROVE  ~Indicates(answers'[t][i])
      <4>1. t \in applied /\ t \in Sockets /\ \A j \in 1 .. Len(answers[t]) : ~Indicates(answers[t][j])
        BY <1>9, <3>2, SMTT(30) DEF Received
      <4>2. CASE t # s
        BY <1>13, <3>2, <4>1, <4>2, SMTT(30)
      <4>3. CASE t = s
        BY <1>13, <1>14, <3>2, <4>1, <4>3
      <4> QED
        BY <4>2, <4>3
    <3> QED
      BY <1>7, <3>1, <3>2 DEF Received
  <2>2. Received' \subseteq Sockets
    BY <2>1 DEF Received
  <2>3. Cardinality(Received) <= Cardinality(Received')
        /\ Cardinality(Received) \in Nat /\ Cardinality(Received') \in Nat
    BY <2>1, <2>2, SocketSets
  <2>4. phase = "APPLY" => SIM_COUNT <= counter + Cardinality(Received')
    BY <2>3, ConstantsAssumption DEF CountInv, TypeOK
  <2>5. CompletesTogether'
    BY <1>3, <1>9, <2>1 DEF CountInv, CompletesTogether
  <2> QED
    BY <1>3, <2>4, <2>5 DEF CountInv
<1> QED
  BY <1>1, <1>8, <1>12, <1>15, <1>16, <1>17
-----------------------------------------------------------------------------
(***************************************************************************)
(* ProxyController's steps                                                 *)
(***************************************************************************)
LEMMA SentToAll ==
  ASSUME TypeOK, NEW p \in Phases, NEW n \in Sessions, SendToAll(p, n)
  PROVE  /\ queue' \in [Sockets -> Seq(Requests)]
         /\ \A s \in Sockets :
              /\ Len(queue[s]) \in Nat /\ Len(queue'[s]) = Len(queue[s]) + 1
              /\ queue'[s][Len(queue[s]) + 1] = [phase |-> p, session |-> n, epoch |-> epoch]
              /\ \A i \in 1 .. Len(queue[s]) : queue'[s][i] = queue[s][i]
<1> DEFINE r == [phase |-> p, session |-> n, epoch |-> epoch]
<1>1. r \in Requests
  BY DEF TypeOK, Requests
<1>2. queue' = [s \in Sockets |-> Append(queue[s], r)]
  BY DEF SendToAll
<1> HIDE DEF r
<1>3. \A s \in Sockets : queue[s] \in Seq(Requests) /\ queue'[s] = Append(queue[s], r)
  BY <1>2 DEF TypeOK
<1>4. \A s \in Sockets :
        /\ Append(queue[s], r) \in Seq(Requests) /\ Len(Append(queue[s], r)) = Len(queue[s]) + 1
        /\ Len(queue[s]) \in Nat /\ Append(queue[s], r)[Len(queue[s]) + 1] = r
        /\ \A i \in 1 .. Len(queue[s]) : Append(queue[s], r)[i] = queue[s][i]
  BY <1>1, <1>3, AppendElements
<1>5. queue' \in [Sockets -> Seq(Requests)]
  BY <1>2, <1>4
<1> QED
  BY <1>3, <1>4, <1>5, SMTT(30) DEF r

\* The queues are left alone or get the current transaction's next request.
QueuesMove ==
  \/ UNCHANGED queue
  \/ /\ phase # "IDLE" /\ \E p \in {"APPLY", "FINISH"} : SendToAll(p, session)

LEMMA QueuesKeep ==
  ASSUME IInv, QueuesMove, UNCHANGED <<shimVars, session, nextSession, epoch, applied>>
  PROVE  /\ queue' \in [Sockets -> Seq(Requests)] /\ OrderInv' /\ AppliedInv'
         /\ \A s \in Sockets : \A i \in 1 .. Len(queue'[s]) :
              /\ queue'[s][i].epoch <= epoch
              /\ queue'[s][i].epoch = epoch /\ queue'[s][i].phase # "INVALID" =>
                   queue'[s][i].session < nextSession
<1> USE DEF IInv
<1>1. \A x : (IsApply(x)' <=> IsApply(x)) /\ (Behind(x)' <=> Behind(x))
  BY DEF IsApply, Behind
<1>2. CASE UNCHANGED queue
  BY <1>1, <1>2, Zenon DEF TypeOK, OrderInv, AppliedInv, SessionInv, shimVars
<1>3. CASE ~UNCHANGED queue
  <2>1. PICK p \in {"APPLY", "FINISH"} : SendToAll(p, session)
    BY <1>3 DEF QueuesMove
  <2> DEFINE r == [phase |-> p, session |-> session, epoch |-> epoch]
  <2>2. /\ queue' \in [Sockets -> Seq(Requests)]
        /\ \A s \in Sockets :
             /\ Len(queue[s]) \in Nat /\ Len(queue'[s]) = Len(queue[s]) + 1
             /\ queue'[s][Len(queue[s]) + 1] = r
             /\ \A i \in 1 .. Len(queue[s]) : queue'[s][i] = queue[s][i]
    BY <2>1, SentToAll, SMTT(30) DEF TypeOK, Phases
  <2>3. Behind(r) /\ r.epoch = epoch /\ r.session = session
    BY DEF Behind, IsApply
  <2> HIDE DEF r
  <2>4. \A s \in Sockets : \A i \in 1 .. Len(queue'[s]) :
          \/ i \in 1 .. Len(queue[s]) /\ queue'[s][i] = queue[s][i]
          \/ i = Len(queue[s]) + 1 /\ queue'[s][i] = r
    BY <2>2
  <2>5. OrderInv'
    <3> SUFFICES ASSUME NEW s \in Sockets, NEW i \in 1 .. Len(queue'[s]),
                        NEW j \in 1 .. Len(queue'[s]), i <= j, IsApply(queue'[s][i])
                 PROVE  Behind(queue'[s][j])
      BY <1>1 DEF OrderInv
    <3>1. CASE queue'[s][j] = r
      BY <2>3, <3>1
    <3>2. CASE queue'[s][j] # r
      <4>1. j \in 1 .. Len(queue[s]) /\ i \in 1 .. Len(queue[s])
        BY <2>2, <2>4, <3>2
      <4> QED
        BY <2>2, <4>1 DEF OrderInv
    <3> QED
      BY <3>1, <3>2
  <2>6. AppliedInv'
    BY <1>1, <2>3, <2>4 DEF AppliedInv, shimVars
  <2>7. session < nextSession /\ epoch <= epoch
    BY <1>3 DEF QueuesMove, SessionInv, TypeOK
  <2> QED
    BY <2>2, <2>3, <2>4, <2>5, <2>6, <2>7, SMTT(30) DEF SessionInv
<1> QED
  BY <1>2, <1>3

\* What a delivered answer does to the phase.
LEMMA DeliverMoves ==
  ASSUME TypeOK, NEW s \in Sockets, Deliver(s)
  PROVE  /\ QueuesMove /\ phase' \in Phases \cup {"IDLE"} /\ counter' \in 0 .. SIM_COUNT
         /\ answered' \subseteq Sockets
         /\ phase' # "IDLE" => phase # "IDLE"
         /\ \/ phase' \notin {"APPLY", "FINISH"}
            \/ phase' = phase /\ counter' = counter
            \/ phase' = phase /\ phase = "FINISH"
            \/ phase' = "APPLY" /\ counter' = SIM_COUNT
            \/ /\ Indicates(Head(answers[s])) /\ phase = "APPLY"
               /\ \/ phase' = phase /\ counter > 1 /\ counter' = counter - 1
                  \/ phase' = "FINISH" /\ ~(counter > 1)
<1> USE ConstantsAssumption DEF TypeOK, Phases
<1>1. CASE OnResponse(s, Head(answers[s]))
  <2>1. CASE counter > 1
    BY <1>1, <2>1 DEF OnResponse, CountsResponse, Countdown, QueuesMove
  <2>2. CASE ~(counter > 1)
    BY <1>1, <2>2 DEF OnResponse, CountsResponse, Countdown, QueuesMove
  <2> QED
    BY <2>1, <2>2
<1>2. CASE OnIndication(Head(answers[s]))
  <2>1. CASE counter > 1
    BY <1>2, <2>1 DEF OnIndication, CountsIndication, Countdown, QueuesMove, Indicates
  <2>2. CASE ~(counter > 1)
    BY <1>2, <2>2 DEF OnIndication, CountsIndication, Countdown, QueuesMove, Indicates
  <2> QED
    BY <2>1, <2>2
<1>3. CASE Ignored(s, Head(answers[s]))
  BY <1>3 DEF Ignored, QueuesMove
<1> QED
  BY <1>1, <1>2, <1>3 DEF Deliver
LEMMA DeliverKeeps ==
  ASSUME IInv, NEW s \in Sockets, Deliver(s)
  PROVE  IInv'
<1> USE DEF IInv
<1>1. UNCHANGED <<shimVars, session, nextSession, epoch, applied, stray>>
  BY DEF Deliver
<1>2. /\ answers[s] \in Seq(Answers) /\ answers[s] # <<>> /\ Head(answers[s]) = answers[s][1]
      /\ 1 \in 1 .. Len(answers[s]) /\ Len(answers[s]) \in Nat
      /\ answers'[s] = Tail(answers[s]) /\ \A t \in Sockets \ {s} : answers'[t] = answers[t]
      /\ answers'[s] \in Seq(Answers) /\ Len(answers'[s]) = Len(answers[s]) - 1
      /\ \A i \in 1 .. Len(answers'[s]) : /\ answers'[s][i] = answers[s][i + 1]
                                          /\ i + 1 \in 1 .. Len(answers[s])
  <2>1. answers[s] \in Seq(Answers) /\ answers[s] # <<>> /\ answers'[s] = Tail(answers[s])
        /\ \A t \in Sockets \ {s} : answers'[t] = answers[t]
    BY DEF Deliver, TypeOK
  <2> QED
    BY <2>1, TailElements
<1>3. \A x : Indicates(x)' <=> Indicates(x)
  BY <1>1 DEF Indicates, IsCurrentAnswer
<1>4. /\ queue' \in [Sockets -> Seq(Requests)] /\ OrderInv' /\ AppliedInv'
      /\ \A t \in Sockets : \A i \in 1 .. Len(queue'[t]) :
           /\ queue'[t][i].epoch <= epoch
           /\ queue'[t][i].epoch = epoch /\ queue'[t][i].phase # "INVALID" =>
                queue'[t][i].session < nextSession
  BY <1>1, DeliverMoves, QueuesKeep, SMTT(30)
<1>5. TypeOK'
  <2>1. answers' \in [Sockets -> Seq(Answers)]
    BY <1>2, SMTT(30) DEF Deliver, TypeOK
  <2> QED
    BY <1>1, <1>4, <2>1, DeliverMoves DEF TypeOK, shimVars
<1>6. SessionInv'
  <2>1. \A t \in Sockets : \A i \in 1 .. Len(answers'[t]) :
          /\ answers'[t][i].epoch <= epoch
          /\ answers'[t][i].epoch = epoch /\ answers'[t][i].kind = "UNSOL" =>
               answers'[t][i].session < nextSession
    <3> SUFFICES ASSUME NEW t \in Sockets, NEW i \in 1 .. Len(answers'[t])
                 PROVE  \E j \in 1 .. Len(answers[t]) : answers'[t][i] = answers[t][j]
      BY SMTT(30) DEF SessionInv
    <3>1. CASE t # s
      BY <1>2, <3>1
    <3>2. CASE t = s
      BY <1>2, <3>2, Zenon
    <3> QED
      BY <3>1, <3>2, SMTT(30)
  <2>2. phase' # "IDLE" => session < nextSession
    BY DeliverMoves DEF SessionInv
  <2> QED
    BY <1>1, <1>4, <2>1, <2>2 DEF SessionInv
<1>7. IndicationInv'
  <2> SUFFICES ASSUME NEW t \in Sockets, NEW i \in 1 .. Len(answers'[t]),
                      Indicates(answers'[t][i])
               PROVE  t \in applied /\ \A j \in 1 .. Len(answers'[t]) :
                                         Indicates(answers'[t][j]) => j = i
    BY <1>1, <1>3 DEF IndicationInv
  <2>1. CASE t # s
    BY <1>2, <2>1 DEF IndicationInv
  <2>2. CASE t = s
    <3>1. Indicates(answers[s][i + 1]) /\ i + 1 \in 1 .. Len(answers[s])
      BY <1>2, <2>2, Zenon
    <3>2. s \in applied
          /\ \A j \in 1 .. Len(answers[s]) : Indicates(answers[s][j]) => j = i + 1
      BY <3>1 DEF IndicationInv
    <3>3. ASSUME NEW j \in 1 .. Len(answers'[s]), Indicates(answers'[s][j])
          PROVE  j = i
      <4>1. Indicates(answers[s][j + 1]) /\ j + 1 \in 1 .. Len(answers[s])
        BY <1>2, <3>3
      <4>2. j + 1 = i + 1
        BY <3>2, <4>1
      <4> QED
        BY <1>2, <2>2, <4>2
    <3> QED
      BY <2>2, <3>2, <3>3
  <2> QED
    BY <2>1, <2>2, SMTT(30)
\* The counter and the indications received.
<1>8. /\ Received \subseteq Received' /\ Received' \subseteq Sockets
      /\ Indicates(Head(answers[s])) => s \in Received' /\ s \notin Received
  <2>1. applied \subseteq Sockets
    BY DEF TypeOK
  <2>2. Received \subseteq Received'
    <3> SUFFICES ASSUME NEW t \in Received, NEW i \in 1 .. Len(answers'[t])
                 PROVE  ~Indicates(answers'[t][i])
      BY <1>1, <1>3 DEF Received
    <3>1. t \in Sockets /\ \A j \in 1 .. Len(answers[t]) : ~Indicates(answers[t][j])
      BY <2>1 DEF Received
    <3>2. CASE t # s
      BY <1>2, <3>1, <3>2
    <3>3. CASE t = s
      BY <1>2, <3>1, <3>3, Zenon
    <3> QED
      BY <3>2, <3>3
  <2>3. ASSUME Indicates(answers[s][1])
        PROVE  s \in Received' /\ s \notin Received
    <3>1. s \in applied /\ \A j \in 1 .. Len(answers[s]) : Indicates(answers[s][j]) => j = 1
      BY <1>2, <2>3 DEF IndicationInv
    <3>2. \A i \in 1 .. Len(answers'[s]) : ~Indicates(answers'[s][i])
      <4> SUFFICES ASSUME NEW i \in 1 .. Len(answers'[s]), Indicates(answers'[s][i])
                   PROVE  FALSE
        OBVIOUS
      <4>1. Indicates(answers[s][i + 1]) /\ i + 1 \in 1 .. Len(answers[s]) /\ i + 1 # 1
        BY <1>2
      <4> QED
        BY <3>1, <4>1
    <3> QED
      BY <1>1, <1>2, <1>3, <2>3, <3>1, <3>2, Zenon DEF Received
  <2> QED
    BY <1>1, <1>2, <2>1, <2>2, <2>3 DEF Received
<1>9. CountInv'
  <2> DEFINE c == Cardinality(Received)
             d == Cardinality(Received')
  <2>1. c \in Nat /\ d \in Nat /\ c <= d /\ counter \in Nat /\ SIM_COUNT \in Nat
        /\ counter' \in Nat
    BY <1>5, <1>8, SocketSets, ConstantsAssumption DEF TypeOK
  <2>2. Indicates(Head(answers[s])) => c + 1 <= d
    <3> SUFFICES ASSUME Indicates(Head(answers[s])) PROVE c + 1 <= d
      OBVIOUS
    <3>1. IsFiniteSet(Received) /\ Received \cup {s} \subseteq Received'
      BY <1>8, SocketsCounted, FS_Subset
    <3>2. Cardinality(Received \cup {s}) = c + 1
      BY <1>8, <3>1, FS_AddElement, Zenon
    <3>3. Cardinality(Received \cup {s}) <= d
      BY <1>8, <3>1, SocketSets
    <3> QED
      BY <3>2, <3>3
  <2>3. ASSUME Indicates(Head(answers[s])), phase = "APPLY", ~(counter > 1)
        PROVE  applied = Sockets
    <3>1. SIM_COUNT <= d
      <4>1. SIM_COUNT <= counter + c
        BY <2>3 DEF CountInv
      <4> HIDE DEF c, d
      <4> QED
        BY <2>1, <2>2, <2>3, <4>1
    <3>2. Received' = Sockets
      BY <1>8, <3>1, <2>1, SocketsCounted, FS_Subset, SocketSets
    <3> QED
      BY <1>1, <3>2, Zenon DEF Received, TypeOK
  <2>4. phase = "APPLY" => SIM_COUNT <= counter + c
    BY DEF CountInv
  <2>5. phase' = "APPLY" => SIM_COUNT <= counter' + d
    <3> HIDE DEF c, d
    <3>1. phase' = "APPLY" =>
            \/ phase = "APPLY" /\ counter' = counter
            \/ counter' = SIM_COUNT
            \/ Indicates(Head(answers[s])) /\ phase = "APPLY" /\ counter' = counter - 1
      BY DeliverMoves
    <3>2. CASE phase = "APPLY" /\ counter' = counter
      BY <2>1, <2>4, <3>2
    <3>3. CASE counter' = SIM_COUNT
      BY <2>1, <3>3
    <3>4. CASE Indicates(Head(answers[s])) /\ phase = "APPLY" /\ counter' = counter - 1
      <4>1. SIM_COUNT <= counter + c /\ c + 1 <= d
        BY <2>2, <2>4, <3>4
      <4> QED
        BY <2>1, <3>4, <4>1
    <3> QED
      BY <3>1, <3>2, <3>3, <3>4
  <2>6. CompletesTogether'
    BY <1>1, <2>3, DeliverMoves DEF CountInv, CompletesTogether
  <2> QED
    BY <2>5, <2>6 DEF CountInv
<1> QED
  BY <1>4, <1>5, <1>6, <1>7, <1>9
LEMMA QueuedTyped ==
  ASSUME TypeOK
  PROVE  /\ \A s \in Sockets : \A i \in 1 .. Len(queue[s]) :
              queue[s][i].session \in Nat /\ queue[s][i].epoch \in Nat
         /\ \A s \in Sockets : \A i \in 1 .. Len(answers[s]) : answers[s][i].session \in Nat
<1>1. \A s \in Sockets : queue[s] \in Seq(Requests) /\ answers[s] \in Seq(Answers)
  BY DEF TypeOK
<1>2. /\ \A s \in Sockets : \A i \in 1 .. Len(queue[s]) : queue[s][i] \in Requests
      /\ \A s \in Sockets : \A i \in 1 .. Len(answers[s]) : answers[s][i] \in Answers
  BY <1>1, ElementOfSeq
<1>3. /\ \A r \in Requests : r.session \in Nat /\ r.epoch \in Nat
      /\ \A a \in Answers : a.session \in Nat
  BY ConstantsAssumption DEF Requests, Answers, Replies, Sessions
<1> QED
  BY <1>2, <1>3

LEMMA BeginKeeps == ASSUME IInv, Begin PROVE IInv'
<1> USE DEF IInv
<1>1. /\ session' = nextSession /\ nextSession' = nextSession + 1 /\ phase' = "START"
      /\ counter' = SIM_COUNT /\ answered' = {} /\ applied' = {} /\ nextSession \in Sessions
      /\ SendToAll("START", nextSession) /\ UNCHANGED <<shimVars, answers, epoch, stray>>
  BY ConstantsAssumption DEF Begin, Enter, TypeOK, Sessions
<1>2. nextSession \in Nat /\ epoch \in Nat
  BY ConstantsAssumption DEF TypeOK
<1> DEFINE r == [phase |-> "START", session |-> nextSession, epoch |-> epoch]
<1>3. /\ queue' \in [Sockets -> Seq(Requests)]
      /\ \A s \in Sockets :
           /\ Len(queue[s]) \in Nat /\ Len(queue'[s]) = Len(queue[s]) + 1
           /\ queue'[s][Len(queue[s]) + 1] = r
           /\ \A i \in 1 .. Len(queue[s]) : queue'[s][i] = queue[s][i]
  BY <1>1, SentToAll DEF Phases
<1>4. \A s \in Sockets : \A i \in 1 .. Len(queue'[s]) :
        \/ i \in 1 .. Len(queue[s]) /\ queue'[s][i] = queue[s][i]
        \/ queue'[s][i] = r
  BY <1>3
<1>5. r.phase = "START" /\ r.session = nextSession /\ r.epoch = epoch
  OBVIOUS
<1> HIDE DEF r
<1>6. TypeOK'
  <2>1. nextSession' \in 0 .. MAX_SESSION + 1 /\ counter' \in 0 .. SIM_COUNT
    BY <1>1, ConstantsAssumption DEF Sessions
  <2> QED
    BY <1>1, <1>3, <2>1 DEF TypeOK, Phases, shimVars
\* Nothing under way belongs to the new session.
<1>7. /\ (\A s \in Sockets : \A i \in 1 .. Len(queue[s]) : ~IsApply(queue[s][i]))'
      /\ (\A s \in Sockets : \A i \in 1 .. Len(answers[s]) : ~Indicates(answers[s][i]))'
  <2>1. ASSUME NEW s \in Sockets, NEW i \in 1 .. Len(queue'[s]), IsApply(queue[s][i])'
        PROVE  FALSE
    <3>1. /\ queue'[s][i].phase = "APPLY" /\ queue'[s][i].session = nextSession
          /\ queue'[s][i].epoch = epoch
      BY <1>1, <2>1, SMTT(30) DEF IsApply
    <3>2. i \in 1 .. Len(queue[s]) /\ queue'[s][i] = queue[s][i]
      BY <1>4, <1>5, <2>1, <3>1
    <3>3. nextSession < nextSession
      BY <3>1, <3>2 DEF SessionInv
    <3> QED
      BY <1>2, <3>3
  <2>2. ASSUME NEW s \in Sockets, NEW i \in 1 .. Len(answers'[s]), Indicates(answers[s][i])'
        PROVE  FALSE
    <3>1. /\ answers[s][i].kind = "UNSOL" /\ answers[s][i].session = nextSession
          /\ answers[s][i].epoch = epoch /\ i \in 1 .. Len(answers[s])
      BY <1>1, <2>2, SMTT(30) DEF Indicates, IsCurrentAnswer
    <3>2. nextSession < nextSession
      BY <3>1 DEF SessionInv
    <3> QED
      BY <1>2, <3>2
  <2> QED
    BY <2>1, <2>2
<1>8. OrderInv' /\ IndicationInv' /\ AppliedInv' /\ CountInv'
  BY <1>1, <1>7, Zenon DEF OrderInv, IndicationInv, AppliedInv, CountInv, CompletesTogether
<1>9. SessionInv'
  <2>1. \A s \in Sockets : \A i \in 1 .. Len(queue[s]) : queue[s][i].session \in Nat
    BY QueuedTyped
  <2>2. \A s \in Sockets : \A i \in 1 .. Len(answers[s]) : answers[s][i].session \in Nat
    BY QueuedTyped
  <2>3. session' < nextSession'
    BY <1>1, <1>2
  <2>4. \A s \in Sockets : \A i \in 1 .. Len(queue'[s]) :
          /\ queue'[s][i].epoch <= epoch
          /\ queue'[s][i].epoch = epoch /\ queue'[s][i].phase # "INVALID" =>
               queue'[s][i].session < nextSession + 1
    <3> SUFFICES ASSUME NEW s \in Sockets, NEW i \in 1 .. Len(queue'[s])
                 PROVE  /\ queue'[s][i].epoch <= epoch
                        /\ queue'[s][i].epoch = epoch /\ queue'[s][i].phase # "INVALID" =>
                             queue'[s][i].session < nextSession + 1
      OBVIOUS
    <3>1. CASE queue'[s][i] = r
      BY <1>2, <1>5, <3>1
    <3>2. CASE i \in 1 .. Len(queue[s]) /\ queue'[s][i] = queue[s][i]
      BY <1>2, <2>1, <3>2, SMTT(30) DEF SessionInv
    <3> QED
      BY <1>4, <3>1, <3>2
  <2>5. \A s \in Sockets : \A i \in 1 .. Len(answers[s]) :
          /\ answers[s][i].epoch <= epoch
          /\ answers[s][i].epoch = epoch /\ answers[s][i].kind = "UNSOL" =>
               answers[s][i].session < nextSession + 1
    BY <1>2, <2>2 DEF SessionInv
  <2> QED
    BY <1>1, <2>3, <2>4, <2>5, Zenon DEF SessionInv
<1> QED
  BY <1>6, <1>8, <1>9

LEMMA RestartKeeps == ASSUME IInv, Restart PROVE IInv'
<1> USE DEF IInv
<1>1. /\ epoch < MAX_RESTARTS /\ epoch' = epoch + 1 /\ phase' = "IDLE" /\ session' = 0
      /\ nextSession' = 0 /\ counter' = 0 /\ answered' = {} /\ applied' = {}
      /\ answers' = [s \in Sockets |-> <<>>] /\ UNCHANGED <<shimVars, queue, stray>>
  BY DEF Restart
<1>2. epoch \in Nat /\ \A s \in Sockets : \A i \in 1 .. Len(queue[s]) : queue[s][i].epoch \in Nat
  <2>1. epoch \in Nat
    BY ConstantsAssumption, SMTT(30) DEF TypeOK
  <2> QED
    BY <2>1, QueuedTyped
<1>3. \A s \in Sockets : \A i \in 1 .. Len(queue[s]) :
        queue[s][i].epoch <= epoch' /\ queue[s][i].epoch # epoch'
  BY <1>1, <1>2, SMTT(30) DEF SessionInv
<1>4. \A s \in Sockets : Len(answers'[s]) = 0 /\ answers'[s] \in Seq(Answers)
  BY <1>1, EmptySeq
<1>5. TypeOK'
  <2>1. /\ 0 \in Sessions /\ 0 \in 0 .. MAX_SESSION + 1 /\ 0 \in 0 .. SIM_COUNT
        /\ epoch' \in 0 .. MAX_RESTARTS
    BY <1>1, <1>2, ConstantsAssumption, SMTT(30) DEF Sessions
  <2> QED
    BY <1>1, <1>4, <2>1 DEF TypeOK, shimVars
<1>6. SessionInv'
  BY <1>1, <1>3, <1>4 DEF SessionInv
<1>7. OrderInv' /\ AppliedInv'
  BY <1>1, <1>3, Zenon DEF OrderInv, IsApply, AppliedInv
<1>8. IndicationInv' /\ CountInv'
  BY <1>1, <1>4 DEF IndicationInv, CountInv, CompletesTogether
<1> QED
  BY <1>5, <1>6, <1>7, <1>8

LEMMA StrayKeeps == ASSUME IInv, NEW s \in Sockets, StrayRequest(s) PROVE IInv'
<1> USE DEF IInv
<1> DEFINE r == [phase |-> "INVALID", session |-> session, epoch |-> epoch]
<1>1. /\ stray < MAX_STRAY /\ stray' = stray + 1 /\ queue' = [queue EXCEPT ![s] = Append(@, r)]
      /\ UNCHANGED <<shimVars, answers, clientVars, applied>>
  BY DEF StrayRequest
<1>2. r \in Requests /\ r.phase = "INVALID" /\ r.epoch = epoch
  BY DEF TypeOK, Requests
<1> HIDE DEF r
<1>3. /\ \A t \in Sockets \ {s} : queue'[t] = queue[t]
      /\ queue[s] \in Seq(Requests) /\ queue'[s] = Append(queue[s], r)
  BY <1>1 DEF TypeOK
<1>4. /\ queue'[s] \in Seq(Requests) /\ Len(queue'[s]) = Len(queue[s]) + 1 /\ Len(queue[s]) \in Nat
      /\ queue'[s][Len(queue[s]) + 1] = r
      /\ \A i \in 1 .. Len(queue[s]) : queue'[s][i] = queue[s][i]
  BY <1>2, <1>3, AppendElements
<1>5. \A t \in Sockets : \A i \in 1 .. Len(queue'[t]) :
        \/ i \in 1 .. Len(queue[t]) /\ queue'[t][i] = queue[t][i]
        \/ t = s /\ i = Len(queue[s]) + 1 /\ queue'[t][i] = r
  <2> TAKE t \in Sockets
  <2>1. CASE t = s
    BY <1>4, <2>1
  <2>2. CASE t # s
    BY <1>3, <2>2
  <2> QED
    BY <2>1, <2>2
<1>6. UNCHANGED <<phase, session, nextSession, epoch, counter, answered, lastValid, lastApply>>
  BY <1>1 DEF clientVars, shimVars
<1>7. \A x : (IsApply(x)' <=> IsApply(x)) /\ (Behind(x)' <=> Behind(x))
             /\ (Indicates(x)' <=> Indicates(x))
  BY <1>6 DEF IsApply, Behind, Indicates, IsCurrentAnswer
<1>8. Behind(r) /\ ~IsApply(r)
  BY <1>2 DEF Behind, IsApply
<1>9. TypeOK'
  <2>1. stray' \in 0 .. MAX_STRAY
    BY <1>1, ConstantsAssumption DEF TypeOK
  <2>2. queue' \in [Sockets -> Seq(Requests)]
    BY <1>1, <1>3, <1>4 DEF TypeOK
  <2> QED
    BY <1>1, <1>6, <2>1, <2>2 DEF TypeOK
<1>10. SessionInv'
  <2>1. epoch <= epoch
    BY ConstantsAssumption DEF TypeOK
  <2>2. \A t \in Sockets : \A i \in 1 .. Len(queue'[t]) :
          /\ queue'[t][i].epoch <= epoch
          /\ queue'[t][i].epoch = epoch /\ queue'[t][i].phase # "INVALID" =>
               queue'[t][i].session < nextSession
    BY <1>2, <1>5, <2>1, Zenon DEF SessionInv
  <2> QED
    BY <1>1, <1>6, <2>2, Zenon DEF SessionInv
<1>11. OrderInv'
  <2> SUFFICES ASSUME NEW t \in Sockets, NEW i \in 1 .. Len(queue'[t]),
                      NEW j \in 1 .. Len(queue'[t]), i <= j, IsApply(queue'[t][i])
               PROVE  Behind(queue'[t][j])
    BY <1>7, Zenon DEF OrderInv
  <2>1. CASE queue'[t][j] = r
    BY <1>8, <2>1, Zenon
  <2>2. CASE j \in 1 .. Len(queue[t]) /\ queue'[t][j] = queue[t][j]
    <3>1. i \in 1 .. Len(queue[t]) /\ queue'[t][i] = queue[t][i]
      BY <1>5, <1>8, SMTT(30)
    <3> QED
      BY <2>2, <3>1, SMTT(30) DEF OrderInv
  <2> QED
    BY <1>5, <2>1, <2>2, Zenon
<1>12. AppliedInv'
  BY <1>1, <1>5, <1>6, <1>7, <1>8 DEF AppliedInv
<1>13. IndicationInv'
  BY <1>1, <1>7, ZenonT(30) DEF IndicationInv
<1>14. CountInv'
  <2>1. Received' = Received
    BY <1>1, <1>7 DEF Received
  <2> QED
    BY <1>1, <1>6, <2>1 DEF CountInv, CompletesTogether
<1> QED
  BY <1>9, <1>10, <1>11, <1>12, <1>13, <1>14
-----------------------------------------------------------------------------
LEMMA InitHolds == Init => IInv
<1> SUFFICES ASSUME Init PROVE IInv
  OBVIOUS
<1>1. \A s \in Sockets : /\ Len(queue[s]) = 0 /\ Len(answers[s]) = 0
                         /\ queue[s] \in Seq(Requests) /\ answers[s] \in Seq(Answers)
  BY EmptySeq DEF Init
<1>2. /\ 0 \in Sessions /\ 0 \in 0 .. MAX_SESSION + 1 /\ 0 \in 0 .. MAX_RESTARTS
      /\ 0 \in 0 .. SIM_COUNT /\ 0 \in 0 .. MAX_STRAY
  BY ConstantsAssumption DEF Sessions
<1>3. TypeOK
  BY <1>1, <1>2 DEF Init, TypeOK
<1>4. SessionInv /\ OrderInv /\ AppliedInv
  BY <1>1 DEF Init, SessionInv, OrderInv, AppliedInv
<1>5. IndicationInv /\ CountInv
  BY <1>1 DEF Init, IndicationInv, CountInv, CompletesTogether
<1> QED
  BY <1>3, <1>4, <1>5 DEF IInv

LEMMA StepHolds == IInv /\ [Next]_vars => IInv'
<1> SUFFICES ASSUME IInv, [Next]_vars PROVE IInv'
  OBVIOUS
<1>1. CASE UNCHANGED vars
  <2> USE <1>1 DEF vars, shimVars, clientVars, IInv
  <2>1. TypeOK'
    BY DEF TypeOK
  <2>2. SessionInv'
    BY ZenonT(30) DEF SessionInv
  <2>3. OrderInv' /\ AppliedInv'
    BY DEF OrderInv, AppliedInv, Behind, IsApply
  <2>4. IndicationInv' /\ CountInv'
    BY ZenonT(30) DEF IndicationInv, CountInv, CompletesTogether, Received, Indicates, IsCurrentAnswer
  <2> QED
    BY <2>1, <2>2, <2>3, <2>4, SMTT(30)
<1>2. CASE Begin \/ Restart
  BY <1>2, BeginKeeps, RestartKeeps
<1>3. ASSUME NEW s \in Sockets, Handle(s) \/ HandleRetried(s)
      PROVE  IInv'
  <2>1. HandlerStep(s)
    BY <1>3, Zenon DEF HandlerStep, Handle, HandleRetried
  <2> QED
    BY <2>1, ShimKeeps
<1>4. ASSUME NEW s \in Sockets, Deliver(s) \/ StrayRequest(s)
      PROVE  IInv'
  BY <1>4, DeliverKeeps, StrayKeeps
<1> QED
  BY <1>1, <1>2, <1>3, <1>4 DEF Next

LEMMA Inductive == Spec => []IInv
  BY InitHolds, StepHolds, PTL DEF Spec

\* ProxyController moves on to FINISH only after every phone's APPLY was
\* handled: for any number of phones, retries, timeouts and restarts, the
\* shim's memory of the last session lets one indication through per socket.
THEOREM AlwaysCompletesTogether == Spec => []CompletesTogether
<1>1. IInv => CompletesTogether
  BY DEF IInv, CountInv
<1> QED
  BY <1>1, Inductive, PTL
=============================================================================
