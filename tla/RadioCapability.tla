---------------------------- MODULE RadioCapability ----------------------------
(***************************************************************************)
(* PART 1 of ril-shim/k50sv1_ril_shim.c: the synthetic radio-capability    *)
(* transaction.  The shim answers START, APPLY and FINISH itself, and      *)
(* remembers per socket the session of the last APPLY so that a retried    *)
(* one does not produce a second indication.  Its client, the framework's  *)
(* ProxyController, is external and is modelled from what the comments and *)
(* the handlers of that file rely on: one counter for both phones, a       *)
(* session counter that starts again at 0 when system_server restarts, and *)
(* a timeout that starts a transaction of its own.                         *)
(***************************************************************************)
EXTENDS Naturals, Sequences

CONSTANTS
  SIM_COUNT,     \* sockets
  MAX_SESSION,   \* bound on the session numbers of one system_server
  MAX_RESTARTS,  \* bound on the restarts of system_server
  MAX_STRAY,     \* bound on the malformed requests
  TIMEOUTS       \* ProxyController's 30 s timeout may fire

ASSUME ConstantsAssumption ==
  /\ SIM_COUNT \in Nat \ {0} /\ MAX_SESSION \in Nat /\ MAX_RESTARTS \in Nat
  /\ MAX_STRAY \in Nat /\ TIMEOUTS \in BOOLEAN

Sockets == 0 .. SIM_COUNT - 1
Sessions == 0 .. MAX_SESSION
Phases == {"START", "APPLY", "FINISH"}

VARIABLES
  lastApply,    \* sLastApplySession
  lastValid,    \* sLastApplySessionValid
  queue,        \* requests of a socket not yet dispatched to the shim
  answers,      \* responses and indications of a socket on their way up
  phase,        \* ProxyController: phase of the transaction, or "IDLE"
  session,      \* its session
  nextSession,  \* its session counter
  epoch,        \* which system_server this is
  counter,      \* mRadioAccessFamilyStatusCounter
  answered,     \* sockets whose request of this phase has been answered
  applied,      \* sockets whose APPLY of this transaction the shim handled
  stray         \* malformed requests sent

shimVars == <<lastApply, lastValid>>
clientVars == <<phase, session, nextSession, epoch, counter, answered>>
vars == <<shimVars, queue, answers, clientVars, applied, stray>>

Requests == [phase : Phases \cup {"INVALID"}, session : Sessions, epoch : 0 .. MAX_RESTARTS]
Replies(kind, phases) ==
  [kind : {kind}, phase : phases, session : Sessions, epoch : 0 .. MAX_RESTARTS]
Answers == Replies("RESPONSE", Phases) \cup Replies("ERROR", {"INVALID"})
             \cup Replies("UNSOL", {"UNSOL_RSP"})

TypeOK ==
  /\ lastApply \in [Sockets -> Sessions]
  /\ lastValid \in [Sockets -> BOOLEAN]
  /\ queue \in [Sockets -> Seq(Requests)] /\ answers \in [Sockets -> Seq(Answers)]
  /\ phase \in Phases \cup {"IDLE"}
  /\ session \in Sessions /\ nextSession \in 0 .. MAX_SESSION + 1
  /\ epoch \in 0 .. MAX_RESTARTS
  /\ counter \in 0 .. SIM_COUNT
  /\ answered \subseteq Sockets /\ applied \subseteq Sockets
  /\ stray \in 0 .. MAX_STRAY

Init ==
  /\ lastApply = [s \in Sockets |-> 0]
  /\ lastValid = [s \in Sockets |-> FALSE]
  /\ queue = [s \in Sockets |-> <<>>] /\ answers = [s \in Sockets |-> <<>>]
  /\ phase = "IDLE" /\ session = 0 /\ nextSession = 0 /\ epoch = 0
  /\ counter = 0 /\ answered = {} /\ applied = {} /\ stray = 0
-----------------------------------------------------------------------------
(***************************************************************************)
(* The shim                                                                *)
(***************************************************************************)
Answer(kind, r) == [kind |-> kind, phase |-> r.phase, session |-> r.session,
                    epoch |-> r.epoch]

Indication(r) == [Answer("UNSOL", r) EXCEPT !.phase = "UNSOL_RSP"]

\* Mutant: START leaves the remembered session alone.
resetApplyDedupe_None(s) == UNCHANGED lastValid

resetApplyDedupe(s) == lastValid' = [lastValid EXCEPT ![s] = FALSE]

\* Mutant: no memory of the last APPLY.
IsNewApply_Always(s, n) == TRUE

\* The test of shouldSendApplyUnsol.
IsNewApply(s, n) == ~lastValid[s] \/ lastApply[s] # n

\* The whole handler for the request r on socket s: the solicited response
\* first, then at most one indication.
setRadioCapability(s, r) ==
  \/ /\ r.phase \notin Phases
     /\ answers' = [answers EXCEPT ![s] = Append(@, Answer("ERROR", r))]
     /\ UNCHANGED shimVars
  \/ /\ r.phase = "START"
     /\ resetApplyDedupe(s)
     /\ answers' = [answers EXCEPT ![s] = Append(@, Answer("RESPONSE", r))]
     /\ UNCHANGED lastApply
  \/ /\ r.phase = "FINISH"
     /\ answers' = [answers EXCEPT ![s] = Append(@, Answer("RESPONSE", r))]
     /\ UNCHANGED shimVars
  \/ /\ r.phase = "APPLY" /\ IsNewApply(s, r.session)
     /\ lastApply' = [lastApply EXCEPT ![s] = r.session]
     /\ lastValid' = [lastValid EXCEPT ![s] = TRUE]
     /\ answers' = [answers EXCEPT ![s] =
                      @ \o <<Answer("RESPONSE", r), Indication(r)>>]
  \/ /\ r.phase = "APPLY" /\ ~IsNewApply(s, r.session)
     /\ answers' = [answers EXCEPT ![s] = Append(@, Answer("RESPONSE", r))]
     /\ UNCHANGED shimVars

\* applied records what has been carried out for the current transaction.
RecordApply(s, r) ==
  applied' = IF r.phase = "APPLY" /\ r.session = session /\ r.epoch = epoch
               THEN applied \cup {s} ELSE applied

Handle(s) ==
  /\ queue[s] # <<>>
  /\ setRadioCapability(s, Head(queue[s]))
  /\ RecordApply(s, Head(queue[s]))
  /\ queue' = [queue EXCEPT ![s] = Tail(@)]
  /\ UNCHANGED <<clientVars, stray>>

\* The same request is dispatched again: it is handled, and stays queued.
\* One retry at a time, while the earlier answers have not been read.
HandleRetried(s) ==
  /\ queue[s] # <<>> /\ answers[s] = <<>>
  /\ setRadioCapability(s, Head(queue[s]))
  /\ RecordApply(s, Head(queue[s]))
  /\ UNCHANGED <<queue, clientVars, stray>>
-----------------------------------------------------------------------------
(***************************************************************************)
(* ProxyController (external)                                              *)
(***************************************************************************)
SendToAll(p, n) ==
  queue' = [s \in Sockets |->
              Append(queue[s], [phase |-> p, session |-> n, epoch |-> epoch])]

Enter(p) == phase' = p /\ counter' = SIM_COUNT /\ answered' = {}

\* A transaction begins: the default data subscription moved, or the timeout
\* of the last transaction fired and the old capabilities are set again.
Begin ==
  /\ phase = "IDLE" \/ TIMEOUTS
  /\ nextSession <= MAX_SESSION
  /\ session' = nextSession /\ nextSession' = nextSession + 1
  /\ Enter("START") /\ SendToAll("START", nextSession)
  /\ applied' = {}
  /\ UNCHANGED <<shimVars, answers, epoch, stray>>

\* One phone less to wait for; the last one starts the next phase.
Countdown(next) ==
  IF counter > 1
  THEN counter' = counter - 1 /\ UNCHANGED <<phase, queue>>
  ELSE /\ phase' = next
       /\ IF next = "IDLE" THEN counter' = 0 /\ UNCHANGED queue
                           ELSE counter' = SIM_COUNT /\ SendToAll(next, session)

IsCurrentAnswer(a) == a.session = session /\ a.epoch = epoch

\* START and FINISH count the solicited responses, each once.
CountsResponse(s, a) ==
  /\ a.kind = "RESPONSE" /\ IsCurrentAnswer(a)
  /\ a.phase = phase /\ phase \in {"START", "FINISH"}
  /\ s \notin answered

\* APPLY counts the indications, whichever socket they come from.
CountsIndication(a) == a.kind = "UNSOL" /\ IsCurrentAnswer(a) /\ phase = "APPLY"

OnResponse(s, a) ==
  /\ CountsResponse(s, a)
  /\ Countdown(IF phase = "START" THEN "APPLY" ELSE "IDLE")
  /\ answered' = IF counter > 1 THEN answered \cup {s} ELSE {}

OnIndication(a) ==
  /\ CountsIndication(a)
  /\ Countdown("FINISH")
  /\ UNCHANGED answered

Ignored(s, a) ==
  /\ ~CountsResponse(s, a) /\ ~CountsIndication(a)
  /\ UNCHANGED <<queue, phase, counter, answered>>

Deliver(s) ==
  /\ answers[s] # <<>>
  /\ \/ OnResponse(s, Head(answers[s]))
     \/ OnIndication(Head(answers[s]))
     \/ Ignored(s, Head(answers[s]))
  /\ answers' = [answers EXCEPT ![s] = Tail(@)]
  /\ UNCHANGED <<shimVars, session, nextSession, epoch, applied, stray>>

\* system_server dies.  rilproxy and the shim's memory live on; what was on
\* its way to the old process is lost.
Restart ==
  /\ epoch < MAX_RESTARTS
  /\ epoch' = epoch + 1
  /\ phase' = "IDLE" /\ session' = 0 /\ nextSession' = 0
  /\ counter' = 0 /\ answered' = {} /\ applied' = {}
  /\ answers' = [s \in Sockets |-> <<>>]
  /\ UNCHANGED <<shimVars, queue, stray>>

\* A request with a phase the shim does not know.
StrayRequest(s) ==
  /\ stray < MAX_STRAY
  /\ stray' = stray + 1
  /\ queue' = [queue EXCEPT ![s] = Append(@, [phase |-> "INVALID",
                                              session |-> session, epoch |-> epoch])]
  /\ UNCHANGED <<shimVars, answers, clientVars, applied>>

Next == \/ Begin \/ Restart
        \/ \E s \in Sockets : Handle(s) \/ HandleRetried(s) \/ Deliver(s) \/ StrayRequest(s)

Spec == Init /\ [][Next]_vars

\* rilproxy dispatches what it has received, and delivers what was answered.
FairSpec == Spec /\ \A s \in Sockets : WF_vars(Handle(s)) /\ WF_vars(Deliver(s))
-----------------------------------------------------------------------------
(***************************************************************************)
(* Properties                                                              *)
(***************************************************************************)
\* A transaction is never completed before every phone's APPLY has been
\* carried out: a retried APPLY does not decrement the counter twice.
CompletesTogether == phase = "FINISH" => applied = Sockets

\* No indication is lost: every transaction ends, also the first one after a
\* restart of system_server, whose session number the shim has seen before.
TransactionCompletes == phase # "IDLE" ~> phase = "IDLE"
=============================================================================
