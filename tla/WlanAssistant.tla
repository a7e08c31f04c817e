---------------------------- MODULE WlanAssistant ----------------------------
(***************************************************************************)
(* The Wi-Fi calibration service (wlan-assistant/main.cpp).  It waits for  *)
(* the driver's node and for the calibration file, hands the file to the   *)
(* driver, publishes vendor.mtk.nvram.ready, and then hands it over again  *)
(* one quiet second after inotify reported a change.  Whatever goes wrong  *)
(* ends the process, and init starts it again.                             *)
(*                                                                         *)
(* Meanwhile the file is rewritten, replaced, deleted and created and the  *)
(* node comes and goes.  A content is told apart by the change that made   *)
(* it and by what the size checks see of it; the MAC override alters six   *)
(* payload bytes and no branch, so it is not shown.  The read takes two    *)
(* steps, the open and the rest; a file rewritten in between is read as it *)
(* was, as it is, or as a mix of the two, which counts as version 0.       *)
(***************************************************************************)
EXTENDS Naturals, Sequences

CONSTANTS MAX_RETRY_COUNT,  \* looks at the file's size in one write_nvram
          QUEUE_MAX,        \* events inotify queues before it overflows
          MAX_CHANGES,      \* bound: changes of the file, directory or node
          MAX_FAULTS        \* bound: deaths of the process by a failing call

ASSUME BoundsAssumption == /\ {MAX_RETRY_COUNT, QUEUE_MAX} \subseteq Nat \ {0}
                           /\ {MAX_CHANGES, MAX_FAULTS} \subseteq Nat

\* Two lengths the size check accepts, one it looks at again ("odd", not in
\* whole blocks) and one it refuses ("bad", empty, too long or no file).
Good == {"small", "large"}
Forms == Good \cup {"odd", "bad"}

NoFile == [ino |-> 0, ver |-> 0, form |-> "none"]
NoData == [ver |-> 0, form |-> "none"]
NoWatch == [on |-> "none", ino |-> 0]
Data(f) == [ver |-> f.ver, form |-> f.form]

VARIABLES
  changes,   \* changes made so far; the last one names a new content
  file,      \* the calibration file: inode, content and its form
  node,      \* /dev/wmtWifi exists
  meta,      \* ro.bootmode begins with "meta"
  loaded,    \* the content the driver has
  ready,     \* vendor.mtk.nvram.ready
  faults,
  pc,
  tries,     \* i in write_nvram
  buf,       \* nvram_size, as the form it belongs to, then nvram_data
  fd,        \* the file ReadFileToString has open, with what it will read of it
  nodeWatch, \* the kernel watches the node for this process
  watch,     \* what the kernel watches under nvram_wd
  queue,     \* inotify events not yet read
  changed,   \* NVRAM_CHANGED is set; timeout_sec is 1 exactly then
  missed     \* ghost: an event that moves or ends a watch will never come

world == <<changes, file, node, meta>>
inotify == <<nodeWatch, watch, queue, missed>>
process == <<tries, buf, fd, changed, inotify>>
vars == <<world, loaded, ready, faults, pc, process>>

Init == /\ changes = 0 /\ file = NoFile /\ node = FALSE /\ meta \in BOOLEAN
        /\ loaded = NoData /\ ready = FALSE /\ faults = 0 /\ pc = "down"
        /\ tries = 0 /\ buf = NoData /\ fd = NoFile /\ changed = FALSE
        /\ nodeWatch = FALSE /\ watch = NoWatch /\ queue = <<>> /\ missed = FALSE

-----------------------------------------------------------------------------
\* Helpers.

\* Every way out closes the inotify descriptor and ends the process.
Exit == /\ pc' = "down" /\ tries' = 0 /\ buf' = NoData /\ fd' = NoFile
        /\ changed' = FALSE /\ nodeWatch' = FALSE /\ watch' = NoWatch
        /\ queue' = <<>> /\ missed' = FALSE

Goto(to) == pc' = to /\ UNCHANGED process

\* The kernel merges an event with an equal last one ("other" stands for many
\* names) and, when the queue is full, leaves one IN_Q_OVERFLOW in its place.
Enqueue(e) ==
  LET last == IF queue = <<>> THEN "none" ELSE queue[Len(queue)]
      merged == last = e /\ e # "other"
      full == ~merged /\ Len(queue) >= QUEUE_MAX
  IN /\ queue' = IF merged \/ (full /\ last = "overflow") THEN queue
                 ELSE Append(queue, IF full THEN "overflow" ELSE e)
     /\ missed' = (missed \/ (full /\ e \in {"gone", "entry", "node"}))

NoEvent == UNCHANGED <<queue, missed>>

FileWatched == file # NoFile /\ watch = [on |-> "file", ino |-> file.ino]

-----------------------------------------------------------------------------
\* Start-up.

\* Mutant: the property of the last run is left alone.
ClearReady_Kept == UNCHANGED ready

ClearReady == ready' = FALSE

main == pc = "start" /\ ClearReady /\ Goto("waitNode") /\ UNCHANGED loaded

WaitNode ==
  pc = "waitNode" /\ node /\ Goto("watchNode") /\ UNCHANGED <<loaded, ready>>

WatchNode ==
  /\ pc = "watchNode" /\ UNCHANGED <<loaded, ready>>
  /\ \/ ~node /\ Exit
     \/ /\ node /\ nodeWatch' = TRUE /\ pc' = "waitFile"
        /\ UNCHANGED <<tries, buf, fd, changed, watch, queue, missed>>

WaitFile ==
  /\ pc = "waitFile" /\ file # NoFile
  /\ Goto("watchFile") /\ UNCHANGED <<loaded, ready>>

\* inotify_add_watch on the file: at start-up the calibration is written
\* next, after an event the loop goes on.
AddFileWatch(from, to) ==
  /\ pc = from /\ UNCHANGED <<loaded, ready>>
  /\ \/ file = NoFile /\ Exit
     \/ /\ file # NoFile /\ pc' = to
        /\ watch' = [on |-> "file", ino |-> file.ino]
        /\ UNCHANGED <<tries, buf, fd, changed, nodeWatch, queue, missed>>

-----------------------------------------------------------------------------
\* write_nvram; when it returns false both callers leave the process.

LastTry == tries + 1 = MAX_RETRY_COUNT

StatNvram ==
  /\ pc = "stat" /\ UNCHANGED <<loaded, ready>>
  /\ \/ /\ file.form \in Good /\ pc' = "read"
        /\ buf' = [NoData EXCEPT !.form = file.form] /\ tries' = 0
        /\ UNCHANGED <<fd, changed, inotify>>
     \/ /\ file.form \in {"none", "odd"} /\ ~LastTry /\ tries' = tries + 1
        /\ UNCHANGED <<pc, buf, fd, changed, inotify>>
     \/ file.form \in {"none", "odd"} /\ LastTry /\ Exit
     \/ file.form = "bad" /\ Exit

OpenNvram ==
  /\ pc = "read" /\ UNCHANGED <<loaded, ready>>
  /\ \/ file = NoFile /\ Exit
     \/ /\ file # NoFile /\ fd' = file /\ pc' = "reading"
        /\ UNCHANGED <<tries, buf, changed, inotify>>

\* Mutant: the length is not compared again.
SameLength_Unchecked == TRUE

\* What was read has the length stat reported.
SameLength == fd.form = buf.form

ReadNvram ==
  /\ pc = "reading" /\ UNCHANGED <<loaded, ready>>
  /\ \/ /\ SameLength /\ buf' = Data(fd) /\ fd' = NoFile /\ pc' = "push"
        /\ UNCHANGED <<tries, changed, inotify>>
     \/ ~SameLength /\ Exit

write_data_to_driver ==
  /\ pc = "push" /\ UNCHANGED ready
  /\ \/ node /\ loaded' = buf /\ Goto("publish")
     \/ ~node /\ Exit /\ UNCHANGED loaded

\* write_nvram returns true: in meta mode the process is done, otherwise it
\* waits for changes, with none to its knowledge.
PublishReady ==
  /\ pc = "publish" /\ ready' = TRUE /\ UNCHANGED loaded
  /\ \/ meta /\ Exit
     \/ /\ ~meta /\ pc' = "select" /\ changed' = FALSE /\ buf' = NoData
        /\ UNCHANGED <<tries, fd, inotify>>

-----------------------------------------------------------------------------
\* The loop.  Events are taken one by one; those left in a buffer when the
\* loop ends are lost with the process.

\* Mutant: timeout_sec is never lowered.
TimedOut_Never == FALSE

\* select returns 0: only with a finite timeout, and after a quiet second.
TimedOut == changed /\ queue = <<>>

SyncToDriver ==
  pc = "select" /\ TimedOut /\ Goto("stat") /\ UNCHANGED <<loaded, ready>>

\* Mutant: a file put in the place of the old one is not looked at.
Notes_ModifyOnly(e) == e \in {"modify", "overflow"}

\* Which events make the loop look at the file again.
Notes(e) == e \in {"modify", "entry", "other", "gone", "overflow"}

\* inotify_rm_watch.  What is still queued for the old descriptor stays there
\* and is skipped when it is read, as its wd is no longer nvram_wd.
RemoveWatch ==
  /\ watch' = NoWatch
  /\ queue' = [i \in DOMAIN Tail(queue) |->
                 IF Tail(queue)[i] \in {"node", "overflow"} THEN Tail(queue)[i] ELSE "stale"]

HandleEvent ==
  /\ pc = "select" /\ queue # <<>> /\ UNCHANGED <<loaded, ready>>
  /\ LET e == Head(queue) IN
     \/ e = "node" /\ Exit
     \/ /\ e # "node" /\ changed' = (changed \/ Notes(e))
        /\ \/ /\ e \in {"modify", "other", "overflow", "stale"}
              /\ queue' = Tail(queue) /\ UNCHANGED <<pc, watch>>
           \/ /\ e \in {"entry", "gone"} /\ RemoveWatch
              /\ pc' = IF e = "gone" /\ file = NoFile THEN "addDir" ELSE "addFile"
        /\ UNCHANGED <<tries, buf, fd, nodeWatch, missed>>

\* The directory is watched although the file may be back by now.
AddDirWatch ==
  /\ pc = "addDir" /\ pc' = "select"
  /\ watch' = [on |-> "dir", ino |-> 0]
  /\ missed' = (missed \/ file # NoFile)
  /\ UNCHANGED <<loaded, ready, tries, buf, fd, changed, nodeWatch, queue>>

-----------------------------------------------------------------------------
\* Failing calls, init, the owner of the file and the driver.

\* Any other failing call (property, inotify, select, read, driver) ends the
\* process too.
CallFails == /\ pc \notin {"down", "waitNode", "waitFile"}
             /\ faults < MAX_FAULTS /\ faults' = faults + 1
             /\ Exit /\ UNCHANGED <<world, loaded, ready>>

Restart == /\ pc = "down" /\ Goto("start")
           /\ UNCHANGED <<world, loaded, ready, faults>>

\* What may be read of an open file that was rewritten: a mix is of any length,
\* but only one that the check may accept makes a difference.
Readable == {fd, file'} \cup [ino : {fd.ino}, ver : {0}, form : Good]

Modify(form) ==
  /\ file # NoFile /\ file' = [file EXCEPT !.ver = changes', !.form = form]
  /\ fd' \in IF fd.ino = file.ino THEN Readable ELSE {fd}
  /\ IF FileWatched THEN Enqueue("modify") ELSE NoEvent
  /\ UNCHANGED <<node, loaded, nodeWatch, watch>>

\* A file is created at the path or renamed to it, over the old one if any.
Replace(form) ==
  /\ file' = [ino |-> changes', ver |-> changes', form |-> form]
  /\ \/ watch.on = "dir" /\ Enqueue("entry") /\ UNCHANGED watch
     \/ FileWatched /\ Enqueue("gone") /\ watch' = NoWatch
     \/ watch.on # "dir" /\ ~FileWatched /\ NoEvent /\ UNCHANGED watch
  /\ UNCHANGED <<node, loaded, nodeWatch>>

Delete ==
  /\ file # NoFile /\ file' = NoFile
  /\ \/ FileWatched /\ Enqueue("gone") /\ watch' = NoWatch
     \/ ~FileWatched /\ NoEvent /\ UNCHANGED watch
  /\ UNCHANGED <<node, loaded, nodeWatch>>

OtherEntry == /\ watch.on = "dir" /\ Enqueue("other")
              /\ UNCHANGED <<file, node, loaded, nodeWatch, watch>>

NodeAppears == ~node /\ node' = TRUE /\ UNCHANGED <<file, loaded, inotify>>

\* The driver goes with its node, and so does what it was given.
NodeVanishes ==
  /\ node /\ node' = FALSE /\ loaded' = NoData /\ nodeWatch' = FALSE
  /\ IF nodeWatch THEN Enqueue("node") ELSE NoEvent
  /\ UNCHANGED <<file, watch>>

World ==
  /\ changes < MAX_CHANGES /\ changes' = changes + 1
  /\ \/ \E form \in Forms : Modify(form)
     \/ /\ (\E form \in Forms : Replace(form)) \/ Delete \/ OtherEntry \/ NodeAppears \/ NodeVanishes
        /\ UNCHANGED fd
  /\ UNCHANGED <<meta, ready, faults, pc, tries, buf, changed>>

-----------------------------------------------------------------------------
ProcessStep ==
  \/ main \/ WaitNode \/ WatchNode \/ WaitFile
  \/ AddFileWatch("watchFile", "stat") \/ AddFileWatch("addFile", "select")
  \/ StatNvram \/ OpenNvram \/ ReadNvram \/ write_data_to_driver \/ PublishReady
  \/ SyncToDriver \/ HandleEvent \/ AddDirWatch

Process == ProcessStep /\ UNCHANGED <<world, faults>>

Next == Process \/ CallFails \/ Restart \/ World

Spec == Init /\ [][Next]_vars

\* The process runs, its sleeps and timeouts end, and init restarts it.
FairSpec == Spec /\ WF_vars(Process) /\ WF_vars(Restart)

-----------------------------------------------------------------------------
\* Properties.

Events == {"modify", "entry", "other", "gone", "node", "overflow", "stale"}
Contents == [ver : 0..MAX_CHANGES, form : Forms \cup {"none"}]
Files == [ino : 0..MAX_CHANGES, ver : 0..MAX_CHANGES, form : Forms \cup {"none"}]
Watches == [on : {"none", "file", "dir"}, ino : 0..MAX_CHANGES]

\* The variables have their types; a size is looked at MAX_RETRY_COUNT times
\* at most, and the queue holds one overflow mark beyond its limit.
TypeOK ==
  /\ changes \in 0..MAX_CHANGES /\ faults \in 0..MAX_FAULTS
  /\ file \in Files /\ fd \in Files /\ loaded \in Contents /\ buf \in Contents /\ watch \in Watches
  /\ node \in BOOLEAN /\ ready \in BOOLEAN /\ meta \in BOOLEAN
  /\ nodeWatch \in BOOLEAN /\ changed \in BOOLEAN /\ missed \in BOOLEAN
  /\ pc \in {"down", "start", "waitNode", "watchNode", "waitFile", "watchFile",
             "stat", "read", "reading", "push", "publish", "select", "addFile", "addDir"}
  /\ tries \in 0..(MAX_RETRY_COUNT - 1)
  /\ queue \in Seq(Events) /\ Len(queue) <= QUEUE_MAX + 1

\* A service that has settled down (no event queued, waiting without a
\* timeout) has given the driver what is in the file now, however often the
\* file was rewritten, replaced or deleted while the watch was moved or the
\* file being read: a mix of two versions that was handed over is followed by
\* the file as it is.  The exceptions are the events that can be missed: a file
\* created between access and inotify_add_watch, and one lost to an overflow.
SettledIsCurrent ==
  pc = "select" /\ ~changed /\ queue = <<>> /\ ~missed
    => /\ node /\ file # NoFile
       /\ loaded = Data(file)

\* While the service runs, vendor.mtk.nvram.ready is 1 only if the driver has
\* calibration, or its node went away and the service is about to read that.
ReadyIsLoaded ==
  ready /\ pc \notin {"down", "start"}
    => \/ loaded # NoData \/ missed
       \/ \E i \in 1..Len(queue) : queue[i] = "node"

\* "writes the complete calibration payload": the driver never gets a payload
\* of a length that the look at the file's size did not accept, however the
\* file grew or shrank before the read or under it.
WholeFilesOnly == loaded # NoData => loaded.form \in Good

\* "automatic restart so module/node recreation or a transient read failure
\* recovers": once a proper file and the node stay, the driver ends up with
\* that file for good, and outside meta mode the property says so.
CalibrationDelivered ==
  <>[](node /\ file.form \in Good) =>
    <>[](\/ missed
         \/ /\ loaded = Data(file)
            /\ meta \/ ready)
=============================================================================
