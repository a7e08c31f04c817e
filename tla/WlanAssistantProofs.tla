------------------------- MODULE WlanAssistantProofs -------------------------
(* The safety properties of WlanAssistant, for every number of retries,      *)
(* changes, faults and queued events.                                        *)
EXTENDS WlanAssistant, SequenceTheorems, TLAPS

Queued(E) == \E i \in 1..Len(queue) : queue[i] \in E

Noted == {"modify", "entry", "other", "gone", "overflow"}

\* Beyond its limit the queue holds one overflow mark, at its end.
QueueInv == Len(queue) = QUEUE_MAX + 1 => queue[Len(queue)] = "overflow"

\* What is read, and so what is handed over, has a length the checks accept.
FormInv ==
  /\ pc \in {"read", "reading", "push"} => buf.form \in Good
  /\ WholeFilesOnly

\* The node is watched, or its removal is on the way.
NodeInv ==
  /\ nodeWatch => node
  /\ pc \notin {"down", "start", "waitNode", "watchNode"} =>
       nodeWatch \/ missed \/ Queued({"node"})

\* Readiness is set only behind a write, and cleared before the node is awaited.
ReadyInv ==
  /\ pc \in {"waitNode", "watchNode", "waitFile", "watchFile"} => ~ready
  /\ (ready /\ pc \notin {"down", "start"}) \/ pc = "publish" =>
       loaded # NoData \/ missed \/ Queued({"node"})

\* The watch under nvram_wd: on the file that is there, on the directory as
\* long as there is none, or gone with an event that says so.
WatchInv ==
  /\ watch.on = "file" => file # NoFile /\ watch.ino = file.ino
  /\ pc \in {"stat", "read", "reading", "push", "publish", "select"} /\ ~missed =>
       /\ watch.on = "none" => Queued({"gone"})
       /\ watch.on = "dir" => file = NoFile \/ Queued({"entry"})

\* What is being read is the content of the file, unless an event that the
\* loop notes is on the way; what was read and what was handed over likewise.
ContentInv ==
  ~missed =>
    /\ pc = "reading" => Queued(Noted) \/ (FileWatched /\ Data(fd) = Data(file))
    /\ pc = "push" => Queued(Noted) \/ (FileWatched /\ buf = Data(file))
    /\ pc \in {"publish", "select"} =>
         \/ changed /\ pc = "select"
         \/ Queued(Noted \cup {"node"})
         \/ node /\ nodeWatch /\ FileWatched /\ loaded = Data(file)
    /\ pc \in {"addFile", "addDir"} => changed

IInv == /\ TypeOK /\ QueueInv /\ FormInv /\ NodeInv /\ ReadyInv /\ WatchInv /\ ContentInv
-----------------------------------------------------------------------------
(***************************************************************************)
(* The event queue                                                         *)
(***************************************************************************)
LEMMA SameQueue ==
  ASSUME UNCHANGED queue
  PROVE  (QueueInv => QueueInv') /\ \A E : Queued(E)' <=> Queued(E)
  BY DEF Queued, QueueInv

\* An event that is queued stays queued, and a new one is there too unless the
\* queue is full; then an overflow mark is, and the ghost knows of a loss.
LEMMA EnqueueAdds ==
  ASSUME TypeOK, QueueInv, NEW e \in {"modify", "entry", "other", "gone", "node"}, Enqueue(e)
  PROVE  /\ queue' \in Seq(Events) /\ Len(queue') <= QUEUE_MAX + 1 /\ QueueInv'
         /\ missed' \in BOOLEAN /\ (missed => missed')
         /\ \A E : Queued(E) => Queued(E)'
         /\ Queued({e, "overflow"})'
         /\ e \in {"gone", "entry", "node"} => missed' \/ Queued({e})'
<1> DEFINE last == IF queue = <<>> THEN "none" ELSE queue[Len(queue)]
           merged == last = e /\ e # "other"
           full == ~merged /\ Len(queue) >= QUEUE_MAX
<1>1. queue \in Seq(Events) /\ Len(queue) \in Nat /\ QUEUE_MAX \in Nat \ {0}
      /\ Len(queue) <= QUEUE_MAX + 1
  BY BoundsAssumption, LenProperties DEF TypeOK
<1>2. /\ queue' = IF merged \/ (full /\ last = "overflow") THEN queue
                  ELSE Append(queue, IF full THEN "overflow" ELSE e)
      /\ missed' = (missed \/ (full /\ e \in {"gone", "entry", "node"}))
  BY DEF Enqueue
<1>3. missed' \in BOOLEAN /\ (missed => missed')
  BY <1>2, Zenon DEF TypeOK
<1>4. CASE merged \/ (full /\ last = "overflow")
  <2>1. queue' = queue /\ queue # <<>> /\ Len(queue) \in 1..Len(queue)
        /\ queue[Len(queue)] \in {e, "overflow"}
    <3>1. queue # <<>>
      BY <1>4
    <3> QED
      BY <1>1, <1>2, <1>4, <3>1
  <2>2. Queued({e, "overflow"})' /\ QueueInv' /\ \A E : Queued(E) => Queued(E)'
    BY <2>1, SameQueue DEF Queued
  <2>3. CASE merged
    BY <1>1, <1>3, <2>1, <2>2, <2>3 DEF Queued, TypeOK
  <2>4. CASE full
    BY <1>1, <1>2, <1>3, <2>1, <2>2, <2>4, Zenon DEF TypeOK
  <2> QED
    BY <1>4, <2>3, <2>4
<1>5. CASE ~(merged \/ (full /\ last = "overflow"))
  <2> DEFINE x == IF full THEN "overflow" ELSE e
  <2>1. queue' = Append(queue, x) /\ x \in Events /\ x \in {e, "overflow"}
    BY <1>2, <1>5 DEF Events
  <2> HIDE DEF x
  <2>2. /\ queue' \in Seq(Events) /\ Len(queue') = Len(queue) + 1
        /\ queue'[Len(queue) + 1] = x
        /\ \A i \in 1..Len(queue) : queue'[i] = queue[i]
    BY <1>1, <2>1, AppendProperties
  <2>3. Queued({e, "overflow"})' /\ \A E : Queued(E) => Queued(E)'
    BY <1>1, <2>1, <2>2 DEF Queued
  <2>4. CASE full
    <3>1. x = "overflow" /\ last # "overflow"
      BY <1>5, <2>4 DEF x
    <3>2. Len(queue) = QUEUE_MAX
      <4>1. CASE queue = <<>>
        BY <1>1, <2>4, <4>1
      <4>2. CASE queue # <<>>
        BY <1>1, <2>4, <3>1, <4>2 DEF QueueInv
      <4> QED
        BY <4>1, <4>2
    <3>3. Len(queue') <= QUEUE_MAX + 1 /\ QueueInv'
      BY <1>1, <2>2, <3>1, <3>2 DEF QueueInv
    <3> QED
      BY <1>2, <1>3, <2>2, <2>3, <2>4, <3>3, Zenon
  <2>5. CASE ~full
    <3>1. x = e
      BY <2>5 DEF x
    <3>2. Len(queue) < QUEUE_MAX
      BY <1>1, <1>5, <2>5
    <3>3. Len(queue') <= QUEUE_MAX + 1 /\ QueueInv'
      BY <1>1, <2>2, <3>2 DEF QueueInv
    <3>4. Queued({e})'
      BY <1>1, <2>2, <3>1 DEF Queued
    <3> QED
      BY <1>3, <2>2, <2>3, <3>3, <3>4
  <2> QED
    BY <2>4, <2>5
<1> QED
  BY <1>4, <1>5

\* Taking the first event leaves the others.
LEMMA TailKeeps ==
  ASSUME TypeOK, queue # <<>>
  PROVE  /\ Head(queue) \in Events /\ Tail(queue) \in Seq(Events)
         /\ Len(Tail(queue)) = Len(queue) - 1
         /\ \A i \in 1..Len(Tail(queue)) : Tail(queue)[i] = queue[i + 1]
         /\ \A E : Queued(E) /\ Head(queue) \notin E =>
                     \E i \in 1..Len(Tail(queue)) : Tail(queue)[i] \in E
<1>1. queue \in Seq(Events)
  BY DEF TypeOK
<1>2. /\ Head(queue) \in Events /\ Tail(queue) \in Seq(Events)
      /\ Len(Tail(queue)) = Len(queue) - 1 /\ Len(queue) \in Nat \ {0}
      /\ \A i \in 1..Len(Tail(queue)) : Tail(queue)[i] = queue[i + 1]
      /\ Head(queue) = queue[1]
  BY <1>1, HeadTailProperties, LenProperties, EmptySeq
<1>3. ASSUME NEW E, Queued(E), Head(queue) \notin E
      PROVE  \E i \in 1..Len(Tail(queue)) : Tail(queue)[i] \in E
  <2>1. PICK i \in 1..Len(queue) : queue[i] \in E
    BY <1>3 DEF Queued
  <2>2. i # 1
    BY <1>2, <1>3, <2>1
  <2>3. i - 1 \in 1..Len(Tail(queue)) /\ (i - 1) + 1 = i
    BY <1>2, <2>2
  <2> QED
    BY <1>2, <2>1, <2>3
<1> QED
  BY <1>2, <1>3
-----------------------------------------------------------------------------
(***************************************************************************)
(* The process                                                             *)
(***************************************************************************)
LEMMA Blank ==
  /\ NoData \in Contents /\ NoWatch \in Watches /\ NoFile \in Files
  /\ 0 \in 0..(MAX_RETRY_COUNT - 1) /\ 0 \in 0..MAX_CHANGES
<1>1. 0 \in 0..(MAX_RETRY_COUNT - 1) /\ 0 \in 0..MAX_CHANGES
  BY BoundsAssumption
<1> QED
  BY <1>1 DEF NoData, Contents, NoWatch, Watches, NoFile, Files

LEMMA ExitKeeps ==
  ASSUME IInv, Exit, UNCHANGED <<world, loaded>>, ready' \in BOOLEAN, faults' \in 0..MAX_FAULTS
  PROVE  IInv'
<1>1. queue' \in Seq(Events) /\ Len(queue') = 0
  BY EmptySeq DEF Exit
<1>2. QueueInv' /\ Len(queue') <= QUEUE_MAX + 1
  BY <1>1, BoundsAssumption DEF QueueInv
<1>4. TypeOK'
  BY <1>1, <1>2, Blank, Zenon DEF IInv, TypeOK, Exit, world
<1>3. pc' = "down" /\ nodeWatch' = FALSE /\ watch'.on = "none"
  BY DEF Exit, NoWatch
<1> QED
  BY <1>2, <1>3, <1>4 DEF IInv, FormInv, WholeFilesOnly, NodeInv, ReadyInv, WatchInv, ContentInv

LEMMA StartKeeps ==
  ASSUME IInv, UNCHANGED <<world, faults>>,
         main \/ WaitNode \/ WatchNode \/ WaitFile \/ SyncToDriver \/ AddDirWatch
         \/ AddFileWatch("watchFile", "stat") \/ AddFileWatch("addFile", "select")
  PROVE  IInv'
<1> USE DEF IInv
<1>1. CASE Exit /\ UNCHANGED <<loaded, ready>>
  BY <1>1, ExitKeeps DEF TypeOK
<1>2. CASE main \/ WaitNode \/ WaitFile \/ SyncToDriver
  <2>1. UNCHANGED <<world, faults, process, loaded>>
    BY <1>2 DEF main, WaitNode, WaitFile, SyncToDriver, Goto
  <2>2. QueueInv' /\ \A E : Queued(E)' <=> Queued(E)
    BY <2>1, SameQueue DEF process, inotify
  <2> HIDE DEF Queued
  <2>3. TypeOK'
    BY <1>2, <2>1, Zenon DEF main, WaitNode, WaitFile, SyncToDriver, Goto, ClearReady, TypeOK, process,
                      inotify, world
  <2>4. FormInv' /\ NodeInv' /\ ReadyInv'
    BY <1>2, <2>1, <2>2 DEF main, WaitNode, WaitFile, SyncToDriver, Goto, ClearReady, process,
                      inotify, world, FormInv, WholeFilesOnly, NodeInv, ReadyInv
  <2>5. WatchInv' /\ ContentInv'
    BY <1>2, <2>1, <2>2 DEF main, WaitNode, WaitFile, SyncToDriver, Goto, process,
                      inotify, world, WatchInv, ContentInv
  <2> QED
    BY <2>2, <2>3, <2>4, <2>5
<1>3. CASE WatchNode /\ ~Exit
  <2>1. /\ pc = "watchNode" /\ pc' = "waitFile" /\ node /\ nodeWatch' = TRUE
        /\ UNCHANGED <<world, faults, loaded, ready, tries, buf, fd, changed, watch, queue, missed>>
    BY <1>3 DEF WatchNode
  <2>2. QueueInv' /\ \A E : Queued(E)' <=> Queued(E)
    BY <2>1, SameQueue
  <2>3. TypeOK'
    BY <2>1, SMTT(30) DEF TypeOK, world
  <2> QED
    BY <2>1, <2>2, <2>3 DEF FormInv, WholeFilesOnly, NodeInv, ReadyInv, WatchInv, ContentInv, world
<1>4. ASSUME NEW from, NEW to, <<from, to>> \in {<<"watchFile", "stat">>, <<"addFile", "select">>},
             AddFileWatch(from, to), ~Exit
      PROVE  IInv'
  <2>1. /\ pc = from /\ pc' = to /\ file # NoFile /\ watch' = [on |-> "file", ino |-> file.ino]
        /\ UNCHANGED <<world, faults, loaded, ready, tries, buf, fd, changed, nodeWatch, queue, missed>>
    BY <1>4 DEF AddFileWatch
  <2>2. QueueInv' /\ \A E : Queued(E)' <=> Queued(E)
    BY <2>1, SameQueue
  <2>3. TypeOK'
    <3>1. watch' \in Watches
      BY <2>1 DEF TypeOK, Files, Watches
    <3> QED
      BY <1>4, <2>1, <3>1 DEF TypeOK, world
  <2> QED
    BY <1>4, <2>1, <2>2, <2>3
       DEF FormInv, WholeFilesOnly, NodeInv, ReadyInv, WatchInv, ContentInv, world
<1>5. CASE AddDirWatch
  <2>1. /\ pc = "addDir" /\ pc' = "select" /\ watch' = [on |-> "dir", ino |-> 0]
        /\ missed' = (missed \/ file # NoFile)
        /\ UNCHANGED <<world, faults, loaded, ready, tries, buf, fd, changed, nodeWatch, queue>>
    BY <1>5 DEF AddDirWatch
  <2>2. QueueInv' /\ \A E : Queued(E)' <=> Queued(E)
    BY <2>1, SameQueue
  <2>3. TypeOK'
    <3>1. watch' \in Watches /\ missed' \in BOOLEAN
      BY <2>1, Blank DEF TypeOK, Watches
    <3> QED
      BY <2>1, <3>1 DEF TypeOK, world
  <2>4. FormInv' /\ NodeInv' /\ ReadyInv'
    <3>1. missed => missed'
      BY <2>1, Zenon
    <3>2. FormInv'
      BY <2>1 DEF FormInv, WholeFilesOnly
    <3>3. NodeInv'
      BY <2>1, <2>2, <3>1 DEF NodeInv, world
    <3>4. ReadyInv'
      BY <2>1, <2>2, <3>1 DEF ReadyInv
    <3> QED
      BY <3>2, <3>3, <3>4
  <2>5. WatchInv'
    BY <2>1, <2>2, Zenon DEF WatchInv, world
  <2>6. ContentInv'
    BY <2>1, <2>2, Zenon DEF ContentInv, world
  <2> QED
    BY <2>2, <2>3, <2>4, <2>5, <2>6
<1>6. CASE WatchNode \/ AddFileWatch("watchFile", "stat") \/ AddFileWatch("addFile", "select")
  <2>1. UNCHANGED <<loaded, ready>>
    BY <1>6 DEF WatchNode, AddFileWatch
  <2> QED
    BY <1>1, <1>3, <1>4, <1>6, <2>1
<1> QED
  BY <1>2, <1>5, <1>6
LEMMA WriteKeeps ==
  ASSUME IInv, UNCHANGED <<world, faults>>,
         StatNvram \/ OpenNvram \/ ReadNvram \/ write_data_to_driver \/ PublishReady
  PROVE  IInv'
<1> USE DEF IInv
<1>1. CASE Exit
  <2>1. UNCHANGED loaded /\ ready' \in BOOLEAN
    BY <1>1, Zenon DEF StatNvram, OpenNvram, ReadNvram, write_data_to_driver, PublishReady, TypeOK,
                        Exit, Goto
  <2> QED
    BY <1>1, <2>1, ExitKeeps DEF TypeOK
<1>2. ASSUME UNCHANGED inotify
      PROVE  QueueInv' /\ \A E : Queued(E)' <=> Queued(E)
  BY <1>2, SameQueue DEF inotify
<1>3. CASE StatNvram /\ pc' = "read"
  <2>1. /\ file.form \in Good /\ buf'.form = file.form /\ buf' \in Contents /\ tries' = 0
        /\ pc = "stat" /\ UNCHANGED <<fd, changed, inotify, loaded, ready>>
    BY <1>3, Blank DEF StatNvram, NoData, Contents, Good, Forms, Exit
  <2>2. TypeOK'
    BY <1>2, <1>3, <2>1, Blank DEF TypeOK, inotify, world
  <2> QED
    BY <1>2, <1>3, <2>1, <2>2
       DEF FormInv, WholeFilesOnly, NodeInv, ReadyInv, WatchInv, ContentInv, inotify, world
<1>4. CASE StatNvram /\ tries' = tries + 1 /\ ~LastTry /\ pc' = pc
  <2>1. tries' \in 0..(MAX_RETRY_COUNT - 1)
    BY <1>4, BoundsAssumption DEF LastTry, TypeOK
  <2>2. pc = "stat" /\ UNCHANGED <<pc, buf, fd, changed, inotify, loaded, ready>>
    BY <1>4 DEF StatNvram, Exit
  <2>3. TypeOK'
    BY <2>1, <2>2 DEF TypeOK, inotify, world
  <2> QED
    BY <1>2, <2>2, <2>3
       DEF FormInv, WholeFilesOnly, NodeInv, ReadyInv, WatchInv, ContentInv, inotify, world
<1>5. CASE OpenNvram /\ ~Exit
  <2>1. /\ file # NoFile /\ fd' = file /\ pc = "read" /\ pc' = "reading"
        /\ UNCHANGED <<tries, buf, changed, inotify, loaded, ready>>
    BY <1>5 DEF OpenNvram
  <2>2. TypeOK'
    BY <2>1 DEF TypeOK, inotify, world
  <2>3. FormInv' /\ NodeInv' /\ ReadyInv' /\ WatchInv'
    BY <1>2, <2>1 DEF FormInv, WholeFilesOnly, NodeInv, ReadyInv, WatchInv, inotify, world
  <2>4. ~missed => Queued(Noted) \/ FileWatched
    <3>1. Queued({"gone"}) \/ Queued({"entry"}) => Queued(Noted)
      BY DEF Queued, Noted
    <3>2. watch.on = "file" => watch = [on |-> "file", ino |-> file.ino]
      BY DEF TypeOK, Watches, WatchInv
    <3> QED
      BY <2>1, <3>1, <3>2 DEF WatchInv, TypeOK, Watches, FileWatched
  <2>5. ContentInv'
    BY <1>2, <2>1, <2>4 DEF ContentInv, FileWatched, inotify, world
  <2> QED
    BY <1>2, <2>1, <2>2, <2>3, <2>5
<1>8. CASE ReadNvram /\ ~Exit
  <2>1. /\ fd.form = buf.form /\ buf' = Data(fd) /\ fd' = NoFile /\ pc = "reading" /\ pc' = "push"
        /\ UNCHANGED <<tries, changed, inotify, loaded, ready>>
    BY <1>8 DEF ReadNvram, SameLength
  <2>2. buf' \in Contents /\ buf'.form \in Good
    BY <2>1 DEF TypeOK, Data, Files, Contents, FormInv
  <2>3. TypeOK'
    BY <2>1, <2>2, Blank DEF TypeOK, inotify, world
  <2>4. FormInv' /\ NodeInv' /\ ReadyInv' /\ WatchInv'
    BY <1>2, <2>1, <2>2 DEF FormInv, WholeFilesOnly, NodeInv, ReadyInv, WatchInv, inotify, world
  <2>5. ContentInv'
    BY <1>2, <2>1 DEF ContentInv, FileWatched, inotify, world
  <2> QED
    BY <1>2, <2>1, <2>3, <2>4, <2>5
<1>6. CASE write_data_to_driver /\ ~Exit
  <2>1. /\ node /\ loaded' = buf /\ pc = "push" /\ pc' = "publish"
        /\ UNCHANGED <<process, ready>>
    BY <1>6 DEF write_data_to_driver, Goto
  <2>2. TypeOK'
    BY <2>1 DEF TypeOK, process, inotify, world
  <2>3. buf.form \in Good /\ buf # NoData
    BY <2>1 DEF FormInv, NoData, Good
  <2>4. FormInv' /\ NodeInv' /\ ReadyInv' /\ WatchInv'
    BY <1>2, <2>1, <2>3
       DEF FormInv, WholeFilesOnly, NodeInv, ReadyInv, WatchInv, process, inotify, world
  <2>5. Queued(Noted) \/ Queued({"node"}) => Queued(Noted \cup {"node"})
    BY DEF Queued
  <2>6. ContentInv'
    BY <1>2, <2>1, <2>5 DEF ContentInv, NodeInv, FileWatched, process, inotify, world
  <2> QED
    BY <1>2, <2>1, <2>2, <2>4, <2>6 DEF process
<1>7. CASE PublishReady /\ ~Exit
  <2>1. /\ pc = "publish" /\ pc' = "select" /\ ready' = TRUE /\ changed' = FALSE /\ buf' = NoData
        /\ UNCHANGED <<tries, fd, inotify, loaded>>
    BY <1>7 DEF PublishReady
  <2>2. TypeOK'
    BY <2>1, Blank, Zenon DEF TypeOK, inotify, world
  <2>3. FormInv' /\ NodeInv' /\ ReadyInv' /\ WatchInv'
    BY <1>2, <2>1 DEF FormInv, WholeFilesOnly, NodeInv, ReadyInv, WatchInv, inotify, world
  <2>4. ContentInv'
    BY <1>2, <2>1 DEF ContentInv, FileWatched, inotify, world
  <2> QED
    BY <1>2, <2>1, <2>2, <2>3, <2>4
<1> QED
  BY <1>1, <1>3, <1>4, <1>5, <1>6, <1>7, <1>8 DEF StatNvram
\* Reading an event: a removal of the node ends the process, an event of the
\* watch sets the flag, and one of an earlier watch is skipped.
LEMMA EventKeeps == ASSUME IInv, UNCHANGED <<world, faults>>, HandleEvent PROVE IInv'
<1> DEFINE e == Head(queue)
<1> USE DEF IInv
<1>1. CASE Exit
  BY <1>1, ExitKeeps DEF HandleEvent, TypeOK
<1>2. CASE ~Exit
  <2>1. /\ pc = "select" /\ queue # <<>> /\ e # "node" /\ changed' = (changed \/ Notes(e))
        /\ UNCHANGED <<loaded, ready, tries, buf, fd, nodeWatch, missed>>
    BY <1>2 DEF HandleEvent
  <2>2. /\ e \in Events /\ Tail(queue) \in Seq(Events) /\ Len(Tail(queue)) = Len(queue) - 1
        /\ Len(queue) \in Nat
    BY <2>1, TailKeeps, LenProperties DEF TypeOK
  <2>3. changed' \in BOOLEAN /\ (changed => changed') /\ (e \in Noted => changed')
    BY <2>1, Zenon DEF TypeOK, Notes, Noted
  <2> HIDE DEF e
  <2>4. CASE e \in {"modify", "other", "overflow", "stale"}
    <3>1. queue' = Tail(queue) /\ UNCHANGED <<pc, watch>>
      BY <1>2, <2>4 DEF HandleEvent, e
    <3>2. QueueInv' /\ Len(queue') <= QUEUE_MAX + 1
      BY <2>2, <3>1, BoundsAssumption DEF QueueInv, TypeOK
    <3>3. TypeOK'
      BY <2>1, <2>2, <2>3, <3>1, <3>2 DEF TypeOK, world
    <3>4. \A E : Queued(E) /\ e \notin E => Queued(E)'
      BY <2>1, <3>1, TailKeeps DEF Queued, e
    <3>5. (Queued({"gone"}) => Queued({"gone"})') /\ (Queued({"entry"}) => Queued({"entry"})')
          /\ (Queued({"node"}) => Queued({"node"})')
      BY <2>4, <3>4, SMTT(30)
    <3>6. FormInv' /\ NodeInv' /\ ReadyInv' /\ WatchInv'
      BY <2>1, <3>1, <3>5
         DEF FormInv, WholeFilesOnly, NodeInv, ReadyInv, WatchInv, FileWatched, world
    <3>7. ContentInv'
      <4>1. CASE e \in Noted
        BY <2>1, <2>3, <3>1, <4>1 DEF ContentInv
      <4>2. CASE e \notin Noted
        <5>1. Queued(Noted \cup {"node"}) => Queued(Noted \cup {"node"})'
          BY <2>1, <3>4, <4>2
        <5> QED
          BY <2>1, <2>3, <3>1, <5>1 DEF ContentInv, FileWatched, world
      <4> QED
        BY <4>1, <4>2
    <3> QED
      BY <3>2, <3>3, <3>6, <3>7
  <2>5. CASE e \in {"entry", "gone"}
    <3>1. RemoveWatch /\ pc' \in {"addDir", "addFile"}
      BY <1>2, <2>5 DEF HandleEvent, e
    <3>2. /\ queue' \in Seq(Events) /\ Len(queue') = Len(queue) - 1
          /\ \A i \in 1..Len(queue') : Tail(queue)[i] = "node" => queue'[i] = "node"
      <4>1. DOMAIN Tail(queue) = 1..Len(Tail(queue))
        BY <2>2
      <4>2. \A i \in 1..Len(Tail(queue)) : Tail(queue)[i] \in Events
        BY <2>2, ElementOfSeq
      <4>3. queue' = [i \in 1..Len(Tail(queue)) |->
                        IF Tail(queue)[i] \in {"node", "overflow"} THEN Tail(queue)[i] ELSE "stale"]
        BY <3>1, <4>1 DEF RemoveWatch
      <4>4. \A i \in 1..Len(Tail(queue)) : queue'[i] \in Events
        BY <4>2, <4>3 DEF Events
      <4>5. queue' \in [1..Len(Tail(queue)) -> Events] /\ Len(Tail(queue)) \in Nat
        BY <2>2, <4>3, <4>4, LenProperties
      <4>6. queue' \in Seq(Events) /\ Len(queue') = Len(Tail(queue))
        BY <4>5, SeqDef
      <4> QED
        BY <2>2, <4>3, <4>6
    <3>3. QueueInv' /\ Len(queue') <= QUEUE_MAX + 1
      BY <2>2, <3>2, BoundsAssumption DEF QueueInv, TypeOK
    <3>4. watch' = NoWatch /\ watch'.on = "none"
      BY <3>1 DEF RemoveWatch, NoWatch
    <3>5. TypeOK'
      BY <2>1, <2>3, <3>1, <3>2, <3>3, <3>4, Blank DEF TypeOK, world
    <3>6. Queued({"node"}) => Queued({"node"})'
      BY <2>1, <2>2, <2>5, <3>2, TailKeeps, Zenon DEF Queued, e
    <3>7. FormInv' /\ NodeInv' /\ ReadyInv' /\ WatchInv' /\ ContentInv'
      BY <2>1, <2>3, <2>5, <3>1, <3>4, <3>6
         DEF FormInv, WholeFilesOnly, NodeInv, ReadyInv, WatchInv, ContentInv, Noted, world
    <3> QED
      BY <3>3, <3>5, <3>7
  <2> QED
    BY <1>2, <2>1, <2>2, <2>4, <2>5 DEF Events
<1> QED
  BY <1>1, <1>2
-----------------------------------------------------------------------------
(***************************************************************************)
(* The world                                                               *)
(***************************************************************************)
\* What every change has in common: an event that is queued stays so.
LEMMA WorldFrame ==
  ASSUME IInv, World
  PROVE  /\ changes' \in 0..MAX_CHANGES /\ fd' \in Files
         /\ UNCHANGED <<meta, ready, faults, pc, tries, buf, changed>>
         /\ queue' \in Seq(Events) /\ Len(queue') <= QUEUE_MAX + 1 /\ QueueInv'
         /\ missed' \in BOOLEAN /\ (missed => missed')
         /\ \A E : Queued(E) => Queued(E)'
<1>1. UNCHANGED <<meta, ready, faults, pc, tries, buf, changed>>
  BY DEF World
<1>2. changes' \in 0..MAX_CHANGES /\ fd' \in Files
  <2>1. changes' \in 0..MAX_CHANGES
    BY BoundsAssumption DEF World, IInv, TypeOK
  <2>2. ASSUME NEW form \in Forms, Modify(form)
        PROVE  fd' \in Files
    <3>1. file' \in Files
      BY <2>1, <2>2, ZenonT(30) DEF Modify, IInv, TypeOK, Files, Forms, Good
    <3>2. fd' \in {fd, file'} \cup [ino : {fd.ino}, ver : {0}, form : Good]
      BY <2>2, Zenon DEF Modify, Readable
    <3> QED
      BY <3>1, <3>2, Blank DEF IInv, TypeOK, Files, Forms
  <2> QED
    BY <2>1, <2>2 DEF World, IInv, TypeOK
<1>3. \/ NoEvent
      \/ \E e \in {"modify", "entry", "other", "gone", "node"} : Enqueue(e)
  BY Zenon DEF World, Modify, Replace, Delete, OtherEntry, NodeAppears, NodeVanishes, NoEvent, inotify
<1>4. CASE NoEvent
  <2>1. QueueInv' /\ \A E : Queued(E) => Queued(E)'
    BY <1>4, SameQueue DEF NoEvent, IInv
  <2> QED
    BY <1>1, <1>2, <1>4, <2>1 DEF NoEvent, IInv, TypeOK
<1>5. ASSUME NEW e \in {"modify", "entry", "other", "gone", "node"}, Enqueue(e)
      PROVE  /\ queue' \in Seq(Events) /\ Len(queue') <= QUEUE_MAX + 1 /\ QueueInv'
             /\ missed' \in BOOLEAN /\ (missed => missed')
             /\ \A E : Queued(E) => Queued(E)'
  BY <1>5, EnqueueAdds DEF IInv
<1> QED
  BY <1>1, <1>2, <1>3, <1>4, <1>5

\* A change of the file under a watch leaves an event of it, one that cannot
\* be told apart from an overflow or one whose loss is known.
LEMMA FileChanges ==
  ASSUME IInv, World, UNCHANGED <<node, loaded, nodeWatch>>,
         file' \in Files, watch' \in Watches,
         watch'.on = "file" => file' # NoFile /\ watch'.ino = file'.ino,
         watch'.on # watch.on => watch'.on = "none" /\ (missed' \/ Queued({"gone"})'),
         watch'.on = "dir" /\ file = NoFile => file' = NoFile \/ missed' \/ Queued({"entry"})',
         FileWatched => UNCHANGED <<file, fd, watch>> \/ missed' \/ Queued(Noted)'
  PROVE  IInv'
<1> USE DEF IInv
<1>1. TypeOK'
  BY WorldFrame, SMTT(30) DEF TypeOK
<1>2. FormInv'
  BY WorldFrame DEF FormInv, WholeFilesOnly
<1>3. NodeInv' /\ ReadyInv'
  BY WorldFrame, SMTT(30) DEF NodeInv, ReadyInv
<1>4. WatchInv'
  BY WorldFrame, SMTT(30) DEF WatchInv
<1>5. Queued(Noted)' => Queued(Noted \cup {"node"})'
  BY DEF Queued
<1>6. ContentInv'
  BY WorldFrame, <1>5 DEF ContentInv, FileWatched
<1> QED
  BY WorldFrame, <1>1, <1>2, <1>3, <1>4, <1>6, SMTT(30)

LEMMA WorldKeeps == ASSUME IInv, World PROVE IInv'
<1>1. TypeOK /\ QueueInv /\ NoWatch \in Watches /\ NoFile \in Files /\ NoWatch.on = "none"
  BY Blank DEF IInv, NoWatch
<1>2. watch.on = "file" => FileWatched
  BY DEF IInv, TypeOK, Watches, WatchInv, FileWatched
<1>3. Queued({"gone"})' \/ Queued({"modify", "overflow"})' => Queued(Noted)'
  BY DEF Queued, Noted
<1>4. ASSUME NEW form \in Forms, Modify(form)
      PROVE  IInv'
  <2>1. /\ file' \in Files /\ file # NoFile /\ file'.ino = file.ino /\ file' # NoFile
        /\ UNCHANGED <<node, loaded, nodeWatch, watch>>
    BY <1>4, WorldFrame, Zenon DEF Modify, IInv, TypeOK, Files, NoFile, Forms, Good
  <2>2. FileWatched => Queued(Noted)'
    BY <1>1, <1>3, <1>4, EnqueueAdds DEF Modify
  <2>3. watch' \in Watches /\ (watch'.on = "file" => watch'.ino = file'.ino)
    BY <2>1 DEF IInv, TypeOK, WatchInv
  <2> QED
    BY <2>1, <2>2, <2>3, FileChanges
<1>5. ASSUME NEW form \in Forms, Replace(form)
      PROVE  IInv'
  <2>1. file' \in Files /\ file' # NoFile /\ UNCHANGED <<node, loaded, nodeWatch>>
    BY <1>5, WorldFrame DEF Replace, Files, NoFile, Forms, Good
  <2>2. CASE watch.on = "dir" /\ Enqueue("entry") /\ UNCHANGED watch
    <3>1. (missed' \/ Queued({"entry"})') /\ ~FileWatched
      BY <1>1, <2>2, EnqueueAdds DEF FileWatched
    <3> QED
      BY <1>1, <2>1, <2>2, <3>1, FileChanges DEF TypeOK
  <2>3. CASE FileWatched /\ Enqueue("gone") /\ watch' = NoWatch
    <3>1. missed' \/ Queued({"gone"})'
      BY <1>1, <2>3, EnqueueAdds
    <3> QED
      BY <1>1, <1>3, <2>1, <2>3, <3>1, FileChanges
  <2>4. CASE watch.on # "dir" /\ ~FileWatched /\ UNCHANGED watch
    BY <1>1, <1>2, <2>1, <2>4, FileChanges DEF TypeOK
  <2> QED
    BY <1>5, <2>2, <2>3, <2>4 DEF Replace
<1>6. CASE Delete
  <2>1. file' = NoFile /\ UNCHANGED <<node, loaded, nodeWatch>>
    BY <1>6 DEF Delete
  <2>2. CASE FileWatched /\ Enqueue("gone") /\ watch' = NoWatch
    <3>1. missed' \/ Queued({"gone"})'
      BY <1>1, <2>2, EnqueueAdds
    <3> QED
      BY <1>1, <1>3, <2>1, <2>2, <3>1, FileChanges
  <2>3. CASE ~FileWatched /\ UNCHANGED watch
    BY <1>1, <1>2, <2>1, <2>3, FileChanges, SMTT(30) DEF TypeOK
  <2> QED
    BY <1>6, <2>2, <2>3 DEF Delete
<1>7. CASE OtherEntry /\ UNCHANGED fd
  BY <1>1, <1>7, FileChanges, SMTT(30) DEF OtherEntry, TypeOK, IInv, WatchInv
<1>8. CASE NodeAppears /\ UNCHANGED fd
  <2>1. node' = TRUE /\ ~node /\ UNCHANGED <<file, fd, loaded, inotify>>
    BY <1>8 DEF NodeAppears
  <2>2. TypeOK'
    BY <2>1, WorldFrame DEF IInv, TypeOK, inotify
  <2> QED
    BY <2>1, <2>2, WorldFrame
       DEF IInv, FormInv, WholeFilesOnly, NodeInv, ReadyInv, WatchInv, ContentInv, FileWatched,
           inotify
<1>9. CASE NodeVanishes /\ UNCHANGED fd
  <2>1. /\ node' = FALSE /\ loaded' = NoData /\ nodeWatch' = FALSE
        /\ UNCHANGED <<file, fd, watch>> /\ (nodeWatch => Enqueue("node"))
    BY <1>9 DEF NodeVanishes
  <2>2. nodeWatch => missed' \/ Queued({"node"})'
    BY <1>1, <2>1, EnqueueAdds
  <2>3. TypeOK'
    BY <2>1, WorldFrame, Blank, Zenon DEF IInv, TypeOK
  <2>4. FormInv' /\ NodeInv' /\ WatchInv'
    BY <2>1, <2>2, WorldFrame DEF IInv, FormInv, WholeFilesOnly, NodeInv, WatchInv
  <2>5. ReadyInv'
    BY <2>1, <2>2, WorldFrame DEF IInv, ReadyInv, NodeInv
  <2>6. Queued({"node"})' => Queued(Noted \cup {"node"})'
    BY DEF Queued
  <2>7. ContentInv'
    BY <2>1, <2>2, <2>6, WorldFrame, SMTT(30) DEF IInv, ContentInv, FileWatched
  <2> QED
    BY <2>3, <2>4, <2>5, <2>7, WorldFrame DEF IInv
<1> QED
  BY <1>4, <1>5, <1>6, <1>7, <1>8, <1>9 DEF World
-----------------------------------------------------------------------------
LEMMA InitHolds == Init => IInv
<1> SUFFICES ASSUME Init PROVE IInv
  OBVIOUS
<1>1. queue \in Seq(Events) /\ Len(queue) = 0
  BY EmptySeq DEF Init
<1>2. QueueInv /\ Len(queue) <= QUEUE_MAX + 1 /\ 0 \in 0..MAX_FAULTS
  BY <1>1, BoundsAssumption DEF QueueInv
<1>3. TypeOK
  BY <1>1, <1>2, Blank, Zenon DEF Init, TypeOK
<1>4. watch.on = "none"
  BY DEF Init, NoWatch
<1> QED
  BY <1>2, <1>3, <1>4
     DEF Init, IInv, FormInv, WholeFilesOnly, NodeInv, ReadyInv, WatchInv, ContentInv

LEMMA StepHolds == IInv /\ [Next]_vars => IInv'
<1> SUFFICES ASSUME IInv, [Next]_vars PROVE IInv'
  BY SMTT(30)
<1>1. CASE UNCHANGED vars
  <2>1. UNCHANGED <<world, loaded, ready, faults, pc, process>>
    BY <1>1 DEF vars
  <2>2. QueueInv' /\ \A E : Queued(E)' <=> Queued(E)
    BY <2>1, SameQueue DEF process, inotify, IInv
  <2>3. TypeOK'
    BY <2>1 DEF IInv, TypeOK, process, inotify, world
  <2> QED
    BY <2>1, <2>2, <2>3
       DEF IInv, FormInv, WholeFilesOnly, NodeInv, ReadyInv, WatchInv, ContentInv, FileWatched,
           process, inotify, world
<1>2. CASE Process
  BY <1>2, StartKeeps, WriteKeeps, EventKeeps DEF Process, ProcessStep
<1>3. CASE CallFails
  <2>1. faults' \in 0..MAX_FAULTS /\ ready' \in BOOLEAN
    BY <1>3, BoundsAssumption DEF CallFails, IInv, TypeOK
  <2> QED
    BY <1>3, <2>1, ExitKeeps DEF CallFails
<1>4. CASE Restart
  <2>1. pc' = "start" /\ UNCHANGED <<world, loaded, ready, faults, process>>
    BY <1>4 DEF Restart, Goto
  <2>2. QueueInv' /\ \A E : Queued(E)' <=> Queued(E)
    BY <2>1, SameQueue DEF process, inotify, IInv
  <2>3. TypeOK'
    BY <2>1 DEF IInv, TypeOK, process, inotify, world
  <2> QED
    BY <2>1, <2>2, <2>3, Zenon
       DEF IInv, FormInv, WholeFilesOnly, NodeInv, ReadyInv, WatchInv, ContentInv, process,
           inotify, world
<1>5. CASE World
  BY <1>5, WorldKeeps
<1> QED
  BY <1>1, <1>2, <1>3, <1>4, <1>5 DEF Next

LEMMA Inductive == Spec => []IInv
  BY InitHolds, StepHolds, PTL DEF Spec

\* The types of the service's state; in particular the looks at the size stay
\* below MAX_RETRY_COUNT and the queue holds at most one overflow mark beyond
\* its limit, at its end.
THEOREM AssistantTyped == Spec => []TypeOK
<1>1. IInv => TypeOK
  BY DEF IInv
<1> QED
  BY <1>1, Inductive, PTL

\* However the file and the node change between any two steps of the service,
\* once it has read every event and waits without a timeout the driver has
\* the file's content.
THEOREM SettledAlwaysCurrent == Spec => []SettledIsCurrent
<1>1. IInv => SettledIsCurrent
  BY DEF IInv, ContentInv, FileWatched, SettledIsCurrent, Queued
<1> QED
  BY <1>1, Inductive, PTL

\* The property says ready only for a driver that has calibration or whose
\* node's removal the service has yet to read.
THEOREM ReadyAlwaysLoaded == Spec => []ReadyIsLoaded
<1>1. IInv => ReadyIsLoaded
  BY DEF IInv, ReadyInv, ReadyIsLoaded, Queued
<1> QED
  BY <1>1, Inductive, PTL

\* The driver gets only files whose length was the accepted one when they were
\* read.
THEOREM OnlyWholeFiles == Spec => []WholeFilesOnly
<1>1. IInv => WholeFilesOnly
  BY DEF IInv, FormInv
<1> QED
  BY <1>1, Inductive, PTL
=============================================================================
