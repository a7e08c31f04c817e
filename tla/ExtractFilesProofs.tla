-------------------------- MODULE ExtractFilesProofs --------------------------
(***************************************************************************)
(* Proofs about the extraction for any list of makefiles and any number of *)
(* runs, each of which may be stopped anywhere.                            *)
(***************************************************************************)
EXTENDS ExtractFiles, SequenceTheorems, TLAPS

Distinct(s) == \A i, j \in DOMAIN s : s[i] = s[j] => i = j

\* One turn of a loop over names takes exactly its first one.
LEMMA LoopTurn ==
  ASSUME NEW s \in Seq(Names), s # << >>, Distinct(s)
  PROVE  /\ Head(s) \in Names /\ Head(s) \in ToSet(s)
         /\ Tail(s) \in Seq(Names) /\ Distinct(Tail(s))
         /\ ToSet(Tail(s)) = ToSet(s) \ {Head(s)}
<1>1. /\ Len(s) \in Nat \ {0} /\ DOMAIN s = 1 .. Len(s) /\ Head(s) = s[1]
      /\ Tail(s) \in Seq(Names) /\ DOMAIN Tail(s) = 1 .. Len(s) - 1
      /\ \A i \in 1 .. Len(s) - 1 : Tail(s)[i] = s[i + 1]
      /\ \A i \in 1 .. Len(s) : s[i] \in Names
  OBVIOUS
<1>2. Head(s) \in Names /\ Head(s) \in ToSet(s)
  BY <1>1 DEF ToSet
<1>3. Distinct(Tail(s))
  <2> SUFFICES ASSUME NEW i \in 1 .. Len(s) - 1, NEW j \in 1 .. Len(s) - 1, s[i + 1] = s[j + 1]
               PROVE  i = j
    BY <1>1 DEF Distinct
  <2>1. i + 1 \in DOMAIN s /\ j + 1 \in DOMAIN s
    BY <1>1
  <2>2. i + 1 = j + 1
    BY <2>1 DEF Distinct
  <2> QED
    BY <2>2
<1>4. ASSUME NEW n \in ToSet(Tail(s))
      PROVE  n \in ToSet(s) \ {Head(s)}
  <2>1. PICK i \in 1 .. Len(s) - 1 : n = s[i + 1]
    BY <1>1, <1>4 DEF ToSet
  <2>2. i + 1 \in DOMAIN s /\ 1 \in DOMAIN s /\ i + 1 # 1
    BY <1>1
  <2>3. n # s[1]
    BY <2>1, <2>2 DEF Distinct
  <2> QED
    BY <1>1, <2>1, <2>2, <2>3 DEF ToSet
<1>5. ASSUME NEW n \in ToSet(s) \ {Head(s)}
      PROVE  n \in ToSet(Tail(s))
  <2>1. PICK i \in 1 .. Len(s) : n = s[i]
    BY <1>1, <1>5 DEF ToSet
  <2>2. i - 1 \in 1 .. Len(s) - 1 /\ (i - 1) + 1 = i
    BY <1>1, <1>5, <2>1
  <2>3. Tail(s)[i - 1] = n
    BY <1>1, <2>1, <2>2
  <2> QED
    BY <1>1, <2>2, <2>3, Zenon DEF ToSet
<1> QED
  BY <1>1, <1>2, <1>3, <1>4, <1>5

\* A name put before a list.
LEMMA Prepended ==
  ASSUME NEW S, NEW x \in S, NEW m \in Seq(S)
  PROVE  /\ <<x>> \o m \in Seq(S) /\ Len(<<x>> \o m) = Len(m) + 1
         /\ DOMAIN (<<x>> \o m) = 1 .. Len(m) + 1
         /\ (<<x>> \o m)[1] = x /\ \A i \in 1 .. Len(m) : (<<x>> \o m)[i + 1] = m[i]
<1>1. <<x>> \in Seq(S) /\ Len(<<x>>) = 1 /\ <<x>>[1] = x
  OBVIOUS
<1> DEFINE t == <<x>>
           b == t \o m
<1> HIDE DEF t
<1>2. t \in Seq(S) /\ Len(t) = 1 /\ t[1] = x
  BY <1>1 DEF t
<1>3. /\ b \in Seq(S) /\ Len(b) = Len(m) + 1 /\ Len(m) \in Nat
      /\ \A i \in 1 .. Len(m) + 1 : b[i] = IF i <= 1 THEN t[i] ELSE m[i - 1]
  <2>1. Len(m) \in Nat
    BY LenProperties
  <2>2. /\ t \o m \in Seq(S) /\ Len(t \o m) = Len(t) + Len(m)
        /\ \A i \in 1 .. Len(t) + Len(m) :
             (t \o m)[i] = IF i <= Len(t) THEN t[i] ELSE m[i - Len(t)]
    BY <1>2, ConcatProperties, Zenon
  <2>3. Len(t) + Len(m) = Len(m) + 1
    BY <1>2, <2>1
  <2> QED
    BY <1>2, <2>1, <2>2, <2>3, Zenon
<1>4. DOMAIN b = 1 .. Len(m) + 1
  BY <1>3, LenProperties
<1>5. b[1] = x /\ \A i \in 1 .. Len(m) : b[i + 1] = m[i]
  BY <1>2, <1>3
<1> QED
  BY <1>3, <1>4, <1>5 DEF t

\* The two lists the loops start from.
LEMMA Lists ==
  /\ PROPRIETARY \in Names
  /\ BACKUP_FILES \in Seq(Names) /\ BACKUP_FILES # << >> /\ Distinct(BACKUP_FILES)
  /\ ToSet(BACKUP_FILES) = Names
  /\ MAKEFILES \in Seq(Names) /\ Distinct(MAKEFILES)
  /\ ToSet(MAKEFILES) = Names \ {PROPRIETARY}
<1> DEFINE b == BACKUP_FILES
           m == MAKEFILES
<1>0. PICK S : PROPRIETARY \in S /\ m \in Seq(S)
  BY ConstantsAssumption, Zenon
<1>1. Len(m) \in Nat /\ DOMAIN m = 1 .. Len(m)
  BY <1>0, LenProperties
<1>2. /\ b \in Seq(S) /\ DOMAIN b = 1 .. Len(m) + 1 /\ b[1] = PROPRIETARY
      /\ \A i \in 1 .. Len(m) : b[i + 1] = m[i]
      /\ Len(b) = Len(m) + 1
  BY <1>0, Prepended DEF BACKUP_FILES
<1>3. Names = {b[i] : i \in 1 .. Len(m) + 1}
  BY <1>2 DEF Names, ToSet
<1>4. ToSet(m) = {m[i] : i \in 1 .. Len(m)}
  BY <1>1 DEF ToSet
<1>5. \A i \in 2 .. Len(m) + 1 : i - 1 \in 1 .. Len(m) /\ b[i] = m[i - 1]
  <2> TAKE i \in 2 .. Len(m) + 1
  <2>1. i - 1 \in 1 .. Len(m) /\ (i - 1) + 1 = i
    BY <1>1
  <2> QED
    BY <1>2, <2>1
<1>6. PROPRIETARY \in Names
  BY <1>1, <1>2, <1>3
<1>7. ToSet(m) = Names \ {PROPRIETARY}
  <2>1. ASSUME NEW n \in ToSet(m)
        PROVE  n \in Names \ {PROPRIETARY}
    <3>1. PICK i \in 1 .. Len(m) : n = m[i]
      BY <1>4, <2>1
    <3>2. i + 1 \in 1 .. Len(m) + 1 /\ b[i + 1] = n
      BY <1>1, <1>2, <3>1
    <3> QED
      BY <1>3, <2>1, <3>2, ConstantsAssumption, Zenon
  <2>2. ASSUME NEW n \in Names \ {PROPRIETARY}
        PROVE  n \in ToSet(m)
    <3>1. PICK i \in 1 .. Len(m) + 1 : n = b[i]
      BY <1>3, <2>2
    <3>2. i \in 2 .. Len(m) + 1
      BY <1>1, <1>2, <2>2, <3>1
    <3> QED
      BY <1>4, <1>5, <3>1, <3>2
  <2> QED
    BY <2>1, <2>2
<1>8. Distinct(m)
  BY ConstantsAssumption DEF Distinct
<1>9. Distinct(b)
  <2> SUFFICES ASSUME NEW i \in 1 .. Len(m) + 1, NEW j \in 1 .. Len(m) + 1, b[i] = b[j]
               PROVE  i = j
    BY <1>2 DEF Distinct
  <2>1. CASE i = 1 /\ j = 1
    BY <2>1
  <2>2. CASE i # 1 /\ j # 1
    <3>1. i \in 2 .. Len(m) + 1 /\ j \in 2 .. Len(m) + 1
      BY <1>1, <2>2
    <3>2. i - 1 \in DOMAIN m /\ j - 1 \in DOMAIN m /\ m[i - 1] = m[j - 1]
      BY <1>1, <1>5, <3>1
    <3>3. i - 1 = j - 1
      BY <1>8, <3>2 DEF Distinct
    <3> QED
      BY <1>1, <3>3
  <2>3. ASSUME NEW k \in 1 .. Len(m) + 1, k # 1
        PROVE  b[k] # PROPRIETARY
    <3>1. k \in 2 .. Len(m) + 1
      BY <1>1, <2>3
    <3> QED
      BY <1>4, <1>5, <3>1, ConstantsAssumption, Zenon
  <2> QED
    BY <1>2, <2>1, <2>2, <2>3
<1>10. b \in Seq(Names) /\ m \in Seq(Names)
  <2>1. \A i \in 1 .. Len(b) : b[i] \in Names
    BY <1>1, <1>2, <1>3
  <2>2. \A i \in 1 .. Len(m) : m[i] \in Names
    BY <1>4, <1>7
  <2> QED
    BY <1>0, <1>1, <1>2, <2>1, <2>2
<1>11. b # << >> /\ ToSet(b) = Names
  BY <1>1, <1>2 DEF Names
<1> QED
  BY <1>6, <1>7, <1>8, <1>9, <1>10, <1>11, SMTT(30)
-----------------------------------------------------------------------------
States == {"none", "torn", "bare", "mixed", "whole", "blended"}
Pieces == States \X Nat
Trees == [Names -> Pieces]

\* The shape of the state.
Shape ==
  /\ run \in 0 .. MAX_RUNS /\ ready \in BOOLEAN /\ status \in {0, 1}
  /\ pc \in Ended \cup Trapped \cup {"remove", "move", "discard"}
  /\ output \in Trees /\ before \in Trees /\ good \in Trees
  /\ backup \in [1 .. MAX_RUNS -> Trees]
  /\ todo \in Seq(Names) /\ Distinct(todo)
  /\ \A r \in 1 .. MAX_RUNS : r > run => backup[r] = Absent

\* The last good piece survives the loss of this run's tree and of this run's
\* backup, as long as what the run found is somewhere.
Held(n) == \/ good[n] = None \/ good[n] = before[n]
           \/ \E r \in 1 .. MAX_RUNS : r # run /\ good[n] = backup[r][n]

Saved == \A n \in Names : backup[run][n] = before[n]

\* Where what the run found is, at each point of the script.
Stage ==
  /\ pc \in Ended => NothingLost
  /\ pc \notin Ended => run # 0
  /\ pc \notin Ended /\ ~(pc = "discard" /\ status = 0) => \A n \in Names : Held(n)
  /\ pc = "copy" => /\ ~ready /\ todo # << >> /\ output = before
                    /\ \A n \in Names \ ToSet(todo) : backup[run][n] = before[n]
  /\ pc \in Trapped => status = 0
  /\ pc \in Trapped \ {"copy"} => ready /\ Saved
  /\ pc \in {"remove", "move"} =>
       /\ todo # << >> /\ status = 1
       /\ \A n \in Names : IF n \in ToSet(todo) THEN backup[run][n] = before[n]
                                                ELSE output[n] = before[n]
  /\ pc = "discard" => IF status = 1 THEN output = before ELSE good = output

\* The payload has every selected file.
Complete == output[PROPRIETARY] = IF clean THEN Piece("bare") ELSE Piece("mixed")

\* What makes the tree this run's own.
Fresh ==
  /\ pc = "check" => output[PROPRIETARY] \in Extracted
  /\ pc = "sums" => Complete
  /\ pc = "makefiles" => \A n \in Names \ ToSet(todo) : Finished(n)
  /\ pc = "discard" /\ status = 0 => \A n \in Names : Finished(n)
  /\ ExitIsHonest

\* The inductive invariant.
IInv == Shape /\ Stage /\ Fresh
-----------------------------------------------------------------------------
LEMMA PieceType ==
  /\ None \in Pieces /\ Absent \in Trees
  /\ run \in Nat => \A state \in States : Piece(state) \in Pieces
<1>0. 0 \in Nat
  OBVIOUS
<1>1. "none" \in States
  BY DEF States
<1>2. None \in Pieces
  BY <1>0, <1>1, Zenon DEF None, Pieces
<1>3. Absent \in Trees
  BY <1>2 DEF Absent, Trees
<1>4. run \in Nat => \A state \in States : Piece(state) \in Pieces
  BY Zenon DEF Pieces, Piece
<1> QED
  BY <1>2, <1>3, <1>4

\* A payload that passes the check is complete.
LEMMA CheckedIsComplete ==
  ASSUME output[PROPRIETARY] \in Extracted, AllPresent
  PROVE  Complete
  BY DEF AllPresent, Complete, Extracted, None, Piece

\* SHA256SUMS finishes a complete payload.
LEMMA SumsFinish ==
  ASSUME Complete
  PROVE  Completed(output[PROPRIETARY]) = IF clean THEN Piece("whole") ELSE Piece("blended")
<1>1. CASE clean
  BY <1>1 DEF Complete, Completed, Piece
<1>2. CASE ~clean
  BY <1>2 DEF Complete, Completed, Piece
<1> QED
  BY <1>1, <1>2

LEMMA InitIInv == Init => IInv
<1> SUFFICES ASSUME Init PROVE IInv
  OBVIOUS
<1>1. <<"whole", 0>> \in Pieces
  <2>1. 0 \in Nat
    OBVIOUS
  <2>2. "whole" \in States
    BY DEF States
  <2> QED
    BY <2>1, <2>2, Zenon DEF Pieces
<1>2. Shape
  <2>1. output \in Trees
    BY <1>1, PieceType DEF Init, Trees
  <2>2. backup \in [1 .. MAX_RUNS -> Trees]
    BY PieceType DEF Init
  <2>3. todo \in Seq(Names) /\ Distinct(todo)
    BY DEF Init, Distinct
  <2>a. 0 \in 0 .. MAX_RUNS
    BY ConstantsAssumption
  <2>4. run \in 0 .. MAX_RUNS /\ ready \in BOOLEAN /\ status \in {0, 1} /\ pc \in Ended
    BY <2>a, Zenon DEF Init, Ended
  <2>5. \A r \in 1 .. MAX_RUNS : backup[r] = Absent
    BY DEF Init
  <2>6. before \in Trees /\ good \in Trees
    BY <2>1 DEF Init
  <2> QED
    BY <2>1, <2>2, <2>3, <2>4, <2>5, <2>6, SMTT(30) DEF Shape
<1>3. Stage
  BY DEF Init, Stage, Ended, Trapped, NothingLost
<1>4. Fresh
  BY DEF Init, Fresh, ExitIsHonest
<1> QED
  BY <1>2, <1>3, <1>4 DEF IInv

\* While a run is under way nothing is lost: what it found is in the tree or in
\* its backup, and the rest is where it was.
LEMMA NothingLostInRun ==
  ASSUME IInv
  PROVE  NothingLost
<1> USE DEF IInv, Shape, Stage
<1>1. CASE pc \in Ended
  BY <1>1
<1>2. CASE pc = "discard" /\ status = 0
  BY <1>2 DEF NothingLost, Ended
<1>3. CASE pc \notin Ended /\ ~(pc = "discard" /\ status = 0)
  <2> SUFFICES ASSUME NEW n \in Names
               PROVE  good[n] = None \/ good[n] = output[n]
                        \/ \E r \in 1 .. MAX_RUNS : good[n] = backup[r][n]
    BY DEF NothingLost
  <2>1. Held(n) /\ run \in 1 .. MAX_RUNS
    BY <1>3
  <2>2. before[n] = output[n] \/ before[n] = backup[run][n]
    BY <1>3 DEF Trapped, Saved
  <2> QED
    BY <2>1, <2>2 DEF Held
<1> QED
  BY <1>1, <1>2, <1>3

LEMMA HeldKept ==
  ASSUME UNCHANGED <<run, before, good>>,
         \A r \in 1 .. MAX_RUNS : r # run => backup'[r] = backup[r],
         NEW n \in Names, Held(n)
  PROVE  Held(n)'
  BY DEF Held

\* finish_extraction finds what it needs after a failure at any point.
LEMMA FailKeeps ==
  ASSUME IInv, Shape', Fail, pc \in Trapped, UNCHANGED ready,
         pc = "copy" => /\ UNCHANGED output
                        /\ \A r \in 1 .. MAX_RUNS : r # run => backup'[r] = backup[r],
         pc # "copy" => UNCHANGED backup
  PROVE  IInv'
<1> USE DEF IInv, Shape, Trapped
<1>1. /\ status' = 1 /\ todo' = BACKUP_FILES /\ UNCHANGED <<run, before, good>>
      /\ pc' = IF ready THEN "remove" ELSE "discard"
  BY DEF Fail, Goto
<1>2. ToSet(todo') = Names /\ todo' # << >>
  BY <1>1, Lists
<1>3. \A n \in Names : Held(n)'
  <2>1. \A n \in Names : Held(n)
    BY Zenon DEF Stage, Ended
  <2> QED
    BY <1>1, <2>1, HeldKept
<1>4. CASE pc = "copy"
  <2>1. pc' = "discard" /\ output' = before'
    BY <1>1, <1>4 DEF Stage
  <2>2. Stage'
    BY <1>1, <1>3, <1>4, <2>1, SMTT(30) DEF Stage, Ended
  <2>3. Fresh'
    BY <1>1, <2>1, SMTT(30) DEF Fresh, ExitIsHonest
  <2> QED
    BY <2>2, <2>3
<1>5. CASE pc # "copy"
  <2>1. pc' = "remove" /\ \A n \in Names : backup'[run'][n] = before'[n]
    BY <1>1, <1>5 DEF Stage, Saved
  <2>2. Stage'
    BY <1>1, <1>2, <1>3, <1>5, <2>1, Zenon DEF Stage, Ended
  <2>3. Fresh'
    BY <1>1, <2>1 DEF Fresh, ExitIsHonest
  <2> QED
    BY <2>2, <2>3
<1> QED
  BY <1>4, <1>5

LEMMA BeginKeeps ==
  ASSUME IInv, Begin
  PROVE  IInv'
<1>1. /\ run' = run + 1 /\ run' \in 1 .. MAX_RUNS /\ pc' = "copy" /\ todo' = BACKUP_FILES
      /\ ready' = FALSE /\ status' = 0 /\ before' = output
      /\ UNCHANGED <<output, backup, good>>
  BY ConstantsAssumption DEF Begin, IInv, Shape
<1>2. Shape'
  <2>1. \A r \in 1 .. MAX_RUNS : r > run' => r > run
    BY <1>1 DEF IInv, Shape
  <2>2. todo' \in Seq(Names) /\ Distinct(todo')
    BY <1>1, Lists
  <2>3. pc' \in Trapped /\ run' \in 0 .. MAX_RUNS
    BY <1>1, ConstantsAssumption DEF Trapped
  <2> QED
    BY <1>1, <2>1, <2>2, <2>3, Zenon DEF IInv, Shape
<1>3. \A n \in Names : Held(n)'
  <2> SUFFICES ASSUME NEW n \in Names PROVE Held(n)'
    OBVIOUS
  <2>1. CASE good[n] = None \/ good[n] = output[n]
    BY <1>1, <2>1 DEF Held
  <2>2. ASSUME NEW r \in 1 .. MAX_RUNS, good[n] = backup[r][n]
        PROVE  Held(n)'
    <3>1. CASE r # run'
      BY <1>1, <2>2, <3>1 DEF Held
    <3>2. CASE r = run'
      <4>1. r > run
        BY <1>1, <3>2 DEF IInv, Shape
      <4>2. backup[r] = Absent
        BY <4>1 DEF IInv, Shape
      <4> QED
        BY <1>1, <2>2, <4>2 DEF Held, Absent
    <3> QED
      BY <3>1, <3>2
  <2> QED
    BY <2>1, <2>2, NothingLostInRun, SMTT(30) DEF NothingLost
<1>4. Stage'
  BY <1>1, <1>3, Lists DEF Stage, Ended, Trapped
<1>5. Fresh'
  BY <1>1 DEF Fresh, ExitIsHonest
<1> QED
  BY <1>2, <1>4, <1>5, SMTT(30) DEF IInv

LEMMA CopyKeeps ==
  ASSUME IInv, Copy
  PROVE  IInv'
<1> DEFINE n == Head(todo)
<1>1. /\ pc = "copy" /\ ~ready /\ todo # << >> /\ output = before /\ status = 0
      /\ run \in 1 .. MAX_RUNS
      /\ \A k \in Names \ ToSet(todo) : backup[run][k] = before[k]
      /\ \A k \in Names : Held(k)
  BY DEF Copy, IInv, Shape, Stage, Trapped, Ended
<1>2. /\ n \in Names /\ Tail(todo) \in Seq(Names) /\ Distinct(Tail(todo))
      /\ ToSet(Tail(todo)) = ToSet(todo) \ {n}
  BY <1>1, LoopTurn DEF IInv, Shape
<1>3. output' = output
  BY DEF Copy
<1>4. ASSUME NEW p \in Pieces, backup' = [backup EXCEPT ![run][n] = p],
             UNCHANGED <<run, before, good>>
      PROVE  /\ backup' \in [1 .. MAX_RUNS -> Trees]
             /\ backup'[run][n] = p
             /\ \A k \in Names \ {n} : backup'[run][k] = backup[run][k]
             /\ \A r \in 1 .. MAX_RUNS : r # run => backup'[r] = backup[r]
             /\ \A r \in 1 .. MAX_RUNS : r > run' => backup'[r] = Absent
             /\ \A k \in Names : Held(k)'
  <2>1. /\ backup' \in [1 .. MAX_RUNS -> Trees]
        /\ backup'[run][n] = p
        /\ \A k \in Names \ {n} : backup'[run][k] = backup[run][k]
        /\ \A r \in 1 .. MAX_RUNS : r # run => backup'[r] = backup[r]
    BY <1>1, <1>2, <1>4, SMTT(30) DEF IInv, Shape, Trees
  <2>2. \A r \in 1 .. MAX_RUNS : r > run' => backup'[r] = Absent
    BY <1>1, <1>4, <2>1, SMTT(30) DEF IInv, Shape
  <2>3. \A k \in Names : Held(k)'
    BY <1>1, <1>4, <2>1, HeldKept, SMTT(30)
  <2> QED
    BY <2>1, <2>2, <2>3, SMTT(30)
<1>5. CASE /\ backup' = [backup EXCEPT ![run][n] = output[n]]
           /\ todo' = Tail(todo) /\ ready' = BackupReady
           /\ Goto(IF todo' = << >> THEN "extract" ELSE "copy")
           /\ UNCHANGED <<status, good>>
  <2>1. UNCHANGED <<run, before, good, status>> /\ output[n] \in Pieces
    BY <1>2, <1>5 DEF Goto, IInv, Shape, Trees
  <2>2. /\ backup' \in [1 .. MAX_RUNS -> Trees]
        /\ \A r \in 1 .. MAX_RUNS : r > run' => backup'[r] = Absent
        /\ \A k \in Names : Held(k)'
        /\ \A k \in Names \ ToSet(todo') : backup'[run'][k] = before'[k]
    BY <1>1, <1>2, <1>4, <1>5, <2>1, Zenon
  <2>3. /\ ready' = (todo' = << >>)
        /\ pc' = IF todo' = << >> THEN "extract" ELSE "copy"
    BY <1>5 DEF BackupReady, Goto
  <2>4. Shape'
    BY <1>2, <1>3, <1>5, <2>1, <2>2, <2>3, Zenon DEF IInv, Shape, Trapped
  <2>5. todo' = << >> => ToSet(todo') = {}
    BY DEF ToSet
  <2>6. status' = 0 /\ run' # 0 /\ output' = before'
    BY <1>1, <1>3, <2>1, SMTT(30)
  <2> SUFFICES Stage'
    <3>1. Fresh'
      BY <2>3 DEF Fresh, ExitIsHonest
    <3> QED
      BY <2>4, <3>1 DEF IInv
  <2>7. CASE todo' = << >>
    <3>1. pc' = "extract" /\ ready' /\ Saved'
      BY <2>2, <2>3, <2>5, <2>7, Zenon DEF Saved
    <3> QED
      BY <2>2, <2>6, <3>1, SMTT(30) DEF Stage, Trapped, Ended
  <2>8. CASE todo' # << >>
    <3>1. pc' = "copy" /\ ~ready'
      BY <2>3, <2>8, Zenon
    <3> QED
      BY <2>2, <2>6, <2>8, <3>1, SMTT(30) DEF Stage, Trapped, Ended
  <2> QED
    BY <2>7, <2>8
<1>6. CASE backup' = [backup EXCEPT ![run][n] = Piece("torn")] /\ UNCHANGED ready /\ Fail
  <2>1. UNCHANGED <<run, before, good>> /\ Piece("torn") \in Pieces
    BY <1>1, <1>6, PieceType DEF Fail, Goto, States
  <2>2. /\ backup' \in [1 .. MAX_RUNS -> Trees]
        /\ \A r \in 1 .. MAX_RUNS : r # run => backup'[r] = backup[r]
        /\ \A r \in 1 .. MAX_RUNS : r > run' => backup'[r] = Absent
    BY <1>4, <1>6, <2>1, Zenon
  <2>3. /\ status' = 1 /\ todo' = BACKUP_FILES /\ pc' = "discard"
    BY <1>1, <1>6, SMTT(30) DEF Fail, Goto
  <2>4. Shape'
    BY <1>3, <1>6, <2>1, <2>2, <2>3, Lists, SMTT(30) DEF IInv, Shape
  <2> QED
    BY <1>1, <1>3, <1>6, <2>2, <2>4, FailKeeps, SMTT(30) DEF Trapped
<1> QED
  BY <1>5, <1>6, SMTT(30) DEF Copy

\* A failure between the copy and the end, with or without the payload changed.
LEMMA FailAfterCopy ==
  ASSUME IInv, pc \in Trapped \ {"copy"}, Fail, UNCHANGED <<backup, ready>>, output' \in Trees
  PROVE  IInv'
<1>1. /\ status' = 1 /\ todo' = BACKUP_FILES /\ UNCHANGED <<run, before, good>>
      /\ pc' \in {"remove", "discard"}
  BY DEF Fail, Goto
<1>2. Shape'
  BY <1>1, Lists DEF IInv, Shape
<1> QED
  BY <1>2, FailKeeps

\* A step of the extraction proper that goes on to the next one.
LEMMA GoOn ==
  ASSUME IInv, pc \in Trapped \ {"copy"}, pc' \in Trapped \ {"copy"}, output' \in Trees,
         todo' \in Seq(Names), Distinct(todo'),
         UNCHANGED <<run, before, good, status, backup, ready>>
  PROVE  Shape' /\ Stage'
<1>1. Shape'
  BY DEF IInv, Shape
<1>2. \A n \in Names : Held(n)'
  <2>1. \A n \in Names : Held(n)
    BY Zenon DEF IInv, Stage, Trapped, Ended
  <2> QED
    BY <2>1, HeldKept
<1>3. Saved'
  BY DEF IInv, Stage, Saved
<1>4. Stage'
  BY <1>2, <1>3, Zenon DEF IInv, Stage, Trapped, Ended
<1> QED
  BY <1>1, <1>4

LEMMA ExtractKeeps ==
  ASSUME IInv, Extract
  PROVE  IInv'
<1>1. pc = "extract" /\ UNCHANGED <<backup, ready>> /\ run \in Nat
  BY DEF Extract, IInv, Shape
<1>2. PICK p \in Extracted : output' = [output EXCEPT ![PROPRIETARY] = p]
  BY Zenon DEF Extract
<1>3. output' \in Trees /\ output'[PROPRIETARY] = p
  <2>1. p \in Pieces
    BY <1>1, PieceType DEF Extracted, States
  <2> QED
    BY <1>2, <2>1, Lists, SMTT(30) DEF IInv, Shape, Trees
<1>4. CASE Goto("check") /\ UNCHANGED <<status, todo, good>>
  <2>1. pc' = "check" /\ UNCHANGED <<run, clean, before, good, status, backup, ready, todo>>
    BY <1>1, <1>4 DEF Goto
  <2>2. Shape' /\ Stage'
    BY <1>1, <1>3, <2>1, GoOn, SMTT(30) DEF Trapped, IInv, Shape
  <2>3. Fresh'
    BY <1>3, <2>1 DEF Fresh, ExitIsHonest, Extracted, Piece
  <2> QED
    BY <2>2, <2>3 DEF IInv
<1>5. CASE Fail
  BY <1>1, <1>3, <1>5, FailAfterCopy DEF Trapped
<1> QED
  BY <1>4, <1>5 DEF Extract

LEMMA CheckFilesKeeps ==
  ASSUME IInv, CheckFiles
  PROVE  IInv'
<1>1. /\ pc = "check" /\ UNCHANGED <<output, backup, ready>> /\ output' \in Trees
      /\ output[PROPRIETARY] \in Extracted
  BY DEF CheckFiles, IInv, Shape, Fresh
<1>2. CASE AllPresent
  <2>1. /\ pc' = "sums"
        /\ UNCHANGED <<run, clean, before, good, status, backup, ready, todo, output>>
    BY <1>1, <1>2 DEF CheckFiles, Goto
  <2>2. Shape' /\ Stage'
    BY <1>1, <2>1, GoOn, SMTT(30) DEF Trapped, IInv, Shape
  <2>3. Complete'
    BY <1>1, <1>2, <2>1, CheckedIsComplete, SMTT(30) DEF Complete, Piece
  <2>4. Fresh'
    BY <2>1, <2>3 DEF Fresh, ExitIsHonest
  <2> QED
    BY <2>2, <2>4 DEF IInv
<1>3. CASE ~AllPresent
  BY <1>1, <1>3, FailAfterCopy DEF CheckFiles, Trapped
<1> QED
  BY <1>2, <1>3, SMTT(30)

LEMMA SumsKeeps ==
  ASSUME IInv, Sums
  PROVE  IInv'
<1>1. /\ pc = "sums" /\ UNCHANGED <<backup, ready>> /\ run \in Nat
      /\ output \in Trees /\ Complete
  BY DEF Sums, IInv, Shape, Fresh
<1>2. CASE /\ output' = [output EXCEPT ![PROPRIETARY] = Completed(@)]
           /\ todo' = MAKEFILES /\ Goto("makefiles") /\ UNCHANGED <<status, good>>
  <2>1. /\ pc' = "makefiles" /\ todo' = MAKEFILES
        /\ UNCHANGED <<run, clean, before, good, status, backup, ready>>
    BY <1>1, <1>2 DEF Goto
  <2> DEFINE p == IF clean THEN Piece("whole") ELSE Piece("blended")
  <2>2. Completed(output[PROPRIETARY]) = p /\ p \in Pieces
    BY <1>1, SumsFinish, PieceType, SMTT(30) DEF States
  <2>3. output' \in Trees /\ output'[PROPRIETARY] = p
    BY <1>1, <1>2, <2>2, Lists, SMTT(30) DEF Trees
  <2>4. Shape' /\ Stage'
    BY <1>1, <2>1, <2>3, Lists, GoOn, SMTT(30) DEF Trapped
  <2>5. \A n \in Names \ ToSet(todo') : Finished(n)'
    BY <2>1, <2>3, Lists DEF Finished, Piece
  <2>6. Fresh'
    BY <2>1, <2>5 DEF Fresh, ExitIsHonest
  <2> QED
    BY <2>4, <2>6 DEF IInv
<1>3. CASE UNCHANGED output /\ Fail
  BY <1>1, <1>3, FailAfterCopy DEF Trapped
<1> QED
  BY <1>2, <1>3 DEF Sums

LEMMA SetupMakefilesKeeps ==
  ASSUME IInv, SetupMakefiles
  PROVE  IInv'
<1> DEFINE n == Head(todo)
<1>1. /\ pc = "makefiles" /\ status = 0 /\ UNCHANGED <<backup, ready>> /\ run \in 1 .. MAX_RUNS
      /\ output \in Trees /\ todo \in Seq(Names) /\ Distinct(todo)
      /\ \A k \in Names \ ToSet(todo) : Finished(k)
  BY DEF SetupMakefiles, IInv, Shape, Stage, Fresh, Trapped, Ended
<1>2. CASE /\ todo # << >> /\ output' = [output EXCEPT ![n] = Piece("whole")]
           /\ todo' = Tail(todo) /\ Goto("makefiles") /\ UNCHANGED <<status, good>>
  <2>1. pc' = "makefiles" /\ UNCHANGED <<run, clean, before, good, status, backup, ready>>
    BY <1>1, <1>2 DEF Goto
  <2>2. /\ n \in Names /\ todo' \in Seq(Names) /\ Distinct(todo')
        /\ ToSet(todo') = ToSet(todo) \ {n}
    BY <1>1, <1>2, LoopTurn, SMTT(30)
  <2>3. /\ output' \in Trees /\ output'[n] = Piece("whole")
        /\ \A k \in Names \ {n} : output'[k] = output[k]
    BY <1>1, <1>2, <2>2, PieceType, SMTT(30) DEF Trees, States
  <2>4. Shape' /\ Stage'
    BY <1>1, <2>1, <2>2, <2>3, GoOn, SMTT(30) DEF Trapped
  <2>5. \A k \in Names \ ToSet(todo') : Finished(k)'
    BY <1>1, <2>1, <2>2, <2>3, SMTT(30) DEF Finished, Piece
  <2>6. Fresh'
    BY <2>1, <2>5, SMTT(30) DEF Fresh, ExitIsHonest
  <2> QED
    BY <2>4, <2>6 DEF IInv
<1>3. CASE /\ todo = << >> /\ good' = output /\ Goto("discard")
           /\ UNCHANGED <<output, status, todo>>
  <2>1. /\ pc' = "discard" /\ status' = 0 /\ good' = output'
        /\ UNCHANGED <<run, clean, before, status, todo, output, backup, ready>>
    BY <1>1, <1>3 DEF Goto
  <2>2. Shape'
    BY <1>1, <2>1 DEF IInv, Shape
  <2>3. Stage'
    BY <1>1, <2>1 DEF Stage, Trapped, Ended
  <2>4. ToSet(todo) = {}
    BY <1>3 DEF ToSet
  <2>5. \A k \in Names : Finished(k)'
    BY <1>1, <2>1, <2>4, SMTT(30) DEF Finished, Piece
  <2>6. Fresh'
    BY <2>1, <2>5 DEF Fresh, ExitIsHonest
  <2> QED
    BY <2>2, <2>3, <2>6 DEF IInv
<1>4. CASE UNCHANGED output /\ Fail
  BY <1>1, <1>4, FailAfterCopy, SMTT(30) DEF Trapped
<1> QED
  BY <1>2, <1>3, <1>4, SMTT(30) DEF SetupMakefiles

\* A run that ends without touching anything more.
LEMMA StopKeeps ==
  ASSUME IInv, pc' \in {"stopped", "restore failed"},
         UNCHANGED <<run, before, output, backup, ready, status, todo, good>>
  PROVE  IInv'
<1>1. Shape'
  BY Zenon DEF IInv, Shape, Ended
<1>2. Stage'
  <2>1. NothingLost'
    BY NothingLostInRun, Zenon DEF NothingLost
  <2> QED
    BY <2>1, Zenon DEF Stage, Ended, Trapped
<1>3. Fresh'
  BY Zenon DEF Fresh, ExitIsHonest
<1> QED
  BY <1>1, <1>2, <1>3, Zenon DEF IInv

LEMMA SignalKeeps ==
  ASSUME IInv, Signal
  PROVE  IInv'
<1>1. UNCHANGED <<output, backup, ready>> /\ output' \in Trees
  BY DEF Signal, IInv, Shape
<1>2. CASE pc \notin Trapped
  BY <1>1, <1>2, StopKeeps, SMTT(30) DEF Signal, Goto
<1>3. CASE pc \in Trapped
  <2>1. Fail
    BY <1>3 DEF Signal
  <2>2. Shape'
    BY <1>1, <2>1, Lists DEF IInv, Shape, Fail, Goto
  <2> QED
    BY <1>1, <1>3, <2>1, <2>2, FailKeeps, SMTT(30)
<1> QED
  BY <1>2, <1>3

LEMMA KillKeeps ==
  ASSUME IInv, Kill
  PROVE  IInv'
  BY StopKeeps DEF Kill, Goto, Keep

LEMMA RemoveOutputKeeps ==
  ASSUME IInv, RemoveOutput
  PROVE  IInv'
<1> DEFINE n == Head(todo)
<1>1. /\ pc = "remove" /\ status = 1 /\ run \in 1 .. MAX_RUNS /\ output \in Trees
      /\ todo # << >> /\ todo \in Seq(Names) /\ Distinct(todo)
      /\ \A k \in Names : Held(k)
      /\ \A k \in Names : IF k \in ToSet(todo) THEN backup[run][k] = before[k]
                                               ELSE output[k] = before[k]
      /\ UNCHANGED <<run, before, backup, status, todo, ready, good>>
  <2>1. pc = "remove" /\ UNCHANGED <<run, before, backup, status, todo, ready, good>>
    BY Zenon DEF RemoveOutput, Keep, Goto
  <2>2. /\ output \in Trees /\ todo \in Seq(Names) /\ Distinct(todo) /\ run \in 0 .. MAX_RUNS
    BY DEF IInv, Shape
  <2>3. /\ todo # << >> /\ status = 1 /\ run # 0
        /\ \A k \in Names : Held(k)
        /\ \A k \in Names : IF k \in ToSet(todo) THEN backup[run][k] = before[k]
                                                 ELSE output[k] = before[k]
    BY <2>1, SMTT(30) DEF IInv, Stage, Ended
  <2>4. run \in 1 .. MAX_RUNS
    BY <2>2, <2>3, SMTT(30)
  <2> QED
    BY <2>1, <2>2, <2>3, <2>4, SMTT(30)
<1>2. n \in Names /\ n \in ToSet(todo)
  BY <1>1, LoopTurn, SMTT(30)
<1>3. \A k \in Names : Held(k)'
  BY <1>1, HeldKept
<1>4. ASSUME NEW p \in Pieces, output' = [output EXCEPT ![n] = p]
      PROVE  /\ output' \in Trees
             /\ \A k \in Names : IF k \in ToSet(todo) THEN backup[run][k] = before[k]
                                                      ELSE output'[k] = before[k]
  BY <1>1, <1>2, <1>4, SMTT(30) DEF Trees
<1>5. CASE output' = [output EXCEPT ![n] = None] /\ Goto("move")
  <2>1. pc' = "move"
    BY <1>5 DEF Goto
  <2>2. /\ output' \in Trees
        /\ \A k \in Names : IF k \in ToSet(todo) THEN backup[run][k] = before[k]
                                                 ELSE output'[k] = before[k]
    BY <1>4, <1>5, PieceType, Zenon
  <2>3. Shape'
    BY <1>1, <2>1, <2>2, SMTT(30) DEF IInv, Shape
  <2>4. Stage'
    BY <1>1, <1>3, <2>1, <2>2, SMTT(30) DEF Stage, Trapped, Ended
  <2>5. Fresh'
    BY <2>1, SMTT(30) DEF Fresh, ExitIsHonest
  <2> QED
    BY <2>3, <2>4, <2>5 DEF IInv
<1>6. CASE output' = [output EXCEPT ![n] = Piece("torn")] /\ Goto("restore failed")
  <2>1. pc' = "restore failed"
    BY <1>6, Zenon DEF Goto
  <2>2. /\ output' \in Trees
        /\ \A k \in Names : IF k \in ToSet(todo) THEN backup[run][k] = before[k]
                                                 ELSE output'[k] = before[k]
    <3>1. Piece("torn") \in Pieces
      BY <1>1, PieceType DEF States
    <3> QED
      BY <1>4, <1>6, <3>1, Zenon
  <2>3. Shape'
    BY <1>1, <2>1, <2>2, Zenon DEF IInv, Shape, Ended
  <2>4. NothingLost'
    BY <1>1, <2>2 DEF NothingLost, Held
  <2>5. Stage'
    BY <2>1, <2>4, Zenon DEF Stage, Trapped, Ended
  <2>6. Fresh'
    BY <2>1, Zenon DEF Fresh, ExitIsHonest
  <2> QED
    BY <2>3, <2>5, <2>6 DEF IInv
<1> QED
  BY <1>5, <1>6, Zenon DEF RemoveOutput

LEMMA RestoreNameKeeps ==
  ASSUME IInv, RestoreName
  PROVE  IInv'
<1> DEFINE n == Head(todo)
<1>1. /\ pc = "move" /\ status = 1 /\ run \in 1 .. MAX_RUNS /\ output \in Trees
      /\ before \in Trees /\ backup \in [1 .. MAX_RUNS -> Trees]
      /\ todo # << >> /\ todo \in Seq(Names) /\ Distinct(todo)
      /\ \A k \in Names : Held(k)
      /\ \A k \in Names : IF k \in ToSet(todo) THEN backup[run][k] = before[k]
                                               ELSE output[k] = before[k]
      /\ UNCHANGED <<run, before, status, ready, good>>
  <2>1. pc = "move" /\ UNCHANGED <<run, before, status, ready, good>>
    BY Zenon DEF RestoreName, Goto
  <2>2. /\ output \in Trees /\ before \in Trees /\ backup \in [1 .. MAX_RUNS -> Trees]
        /\ todo \in Seq(Names) /\ Distinct(todo) /\ run \in 0 .. MAX_RUNS
    BY DEF IInv, Shape
  <2>3. /\ todo # << >> /\ status = 1 /\ run # 0
        /\ \A k \in Names : Held(k)
        /\ \A k \in Names : IF k \in ToSet(todo) THEN backup[run][k] = before[k]
                                                 ELSE output[k] = before[k]
    BY <2>1 DEF IInv, Stage, Ended
  <2>4. run \in 1 .. MAX_RUNS
    BY <2>2, <2>3
  <2> QED
    BY <2>1, <2>2, <2>3, <2>4, SMTT(30)
<1>2. CASE /\ output' = [output EXCEPT ![n] = backup[run][n]]
           /\ backup' = [backup EXCEPT ![run][n] = None]
           /\ todo' = Tail(todo) /\ Goto(IF todo' = << >> THEN "discard" ELSE "remove")
  <2>1. /\ n \in Names /\ n \in ToSet(todo) /\ todo' \in Seq(Names) /\ Distinct(todo')
        /\ ToSet(todo') = ToSet(todo) \ {n}
    BY <1>1, <1>2, LoopTurn, SMTT(30)
  <2>2. /\ backup' \in [1 .. MAX_RUNS -> Trees]
        /\ \A k \in Names \ {n} : backup'[run][k] = backup[run][k]
        /\ \A r \in 1 .. MAX_RUNS : r # run => backup'[r] = backup[r]
    BY <1>1, <1>2, <2>1, PieceType, SMTT(30) DEF Trees
  <2>3. backup[run][n] \in Pieces /\ backup[run][n] = before[n]
    BY <1>1, <2>1, SMTT(30) DEF Trees
  <2>4. /\ output' \in Trees /\ output'[n] = before[n]
        /\ \A k \in Names \ {n} : output'[k] = output[k]
    BY <1>1, <1>2, <2>1, <2>3, SMTT(30) DEF Trees
  <2>5. \A k \in Names : IF k \in ToSet(todo') THEN backup'[run'][k] = before'[k]
                                               ELSE output'[k] = before'[k]
    BY <1>1, <2>1, <2>2, <2>4, SMTT(30)
  <2>6. pc' = IF todo' = << >> THEN "discard" ELSE "remove"
    BY <1>2 DEF Goto
  <2>7. Shape'
    BY <1>1, <2>1, <2>2, <2>4, <2>6, SMTT(30) DEF IInv, Shape
  <2>8. \A k \in Names : Held(k)'
    BY <1>1, <2>2, HeldKept, SMTT(30)
  <2>9. Fresh'
    BY <1>1, <2>6 DEF Fresh, ExitIsHonest
  <2> SUFFICES Stage'
    BY <2>7, <2>9, SMTT(30) DEF IInv
  <2>10. CASE todo' # << >>
    BY <1>1, <2>5, <2>6, <2>8, <2>10, SMTT(30) DEF Stage, Trapped, Ended
  <2>11. CASE todo' = << >>
    <3>1. ToSet(todo') = {}
      BY <2>11 DEF ToSet
    <3>2. output' = before'
      BY <1>1, <2>4, <2>5, <3>1, SMTT(30) DEF Trees
    <3> QED
      BY <1>1, <2>6, <2>8, <2>11, <3>2, SMTT(30) DEF Stage, Trapped, Ended
  <2> QED
    BY <2>10, <2>11
<1>3. CASE Goto("restore failed") /\ UNCHANGED <<output, backup, todo>>
  BY <1>1, <1>3, StopKeeps, Zenon DEF Goto
<1> QED
  BY <1>2, <1>3, Zenon DEF RestoreName

LEMMA DiscardKeeps ==
  ASSUME IInv, Discard
  PROVE  IInv'
<1>1. /\ pc = "discard" /\ run \in 1 .. MAX_RUNS /\ status \in {0, 1}
      /\ backup \in [1 .. MAX_RUNS -> Trees]
      /\ IF status = 1 THEN output = before /\ \A n \in Names : Held(n)
                       ELSE good = output /\ \A n \in Names : Finished(n)
      /\ UNCHANGED <<run, clean, before, output, status, todo, ready, good>>
  <2>1. pc = "discard" /\ UNCHANGED <<run, clean, before, output, status, todo, ready, good>>
    BY DEF Discard, Keep, Goto
  <2>2. /\ run \in 0 .. MAX_RUNS /\ status \in {0, 1} /\ backup \in [1 .. MAX_RUNS -> Trees]
    BY DEF IInv, Shape
  <2>3. /\ run # 0 /\ IF status = 1 THEN output = before ELSE good = output
        /\ status = 1 => \A n \in Names : Held(n)
    BY <2>1 DEF IInv, Stage, Ended
  <2>4. status = 0 => \A n \in Names : Finished(n)
    BY <2>1 DEF IInv, Fresh
  <2> QED
    BY <2>1, <2>2, <2>3, <2>4, SMTT(30)
<1>2. PICK left \in SUBSET Names :
        /\ backup' = [backup EXCEPT ![run] = [n \in Names |-> IF n \in left THEN @[n] ELSE None]]
        /\ Goto(IF left # {} THEN "stopped" ELSE IF status = 0 THEN "succeeded" ELSE "restored")
  BY Zenon DEF Discard
<1>3. /\ backup' \in [1 .. MAX_RUNS -> Trees]
      /\ \A r \in 1 .. MAX_RUNS : r # run => backup'[r] = backup[r]
  BY <1>1, <1>2, PieceType, SMTT(30) DEF Trees
<1>4. pc' = IF left # {} THEN "stopped" ELSE IF status = 0 THEN "succeeded" ELSE "restored"
  BY <1>2 DEF Goto
<1>5. Shape'
  BY <1>1, <1>3, <1>4, SMTT(30) DEF IInv, Shape, Ended
<1>6. NothingLost'
  <2>1. CASE status = 0
    BY <1>1, <2>1, SMTT(30) DEF NothingLost
  <2>2. CASE status = 1
    <3>1. \A n \in Names : Held(n)'
      BY <1>1, <1>3, <2>2, HeldKept, SMTT(30)
    <3> QED
      BY <1>1, <2>2, <3>1, SMTT(30) DEF NothingLost, Held
  <2> QED
    BY <1>1, <2>1, <2>2, SMTT(30)
<1>7. Stage'
  BY <1>4, <1>6, SMTT(30) DEF Stage, Trapped, Ended
<1>8. Fresh'
  BY <1>1, <1>4 DEF Fresh, ExitIsHonest, Finished, Piece
<1> QED
  BY <1>5, <1>7, <1>8, SMTT(30) DEF IInv

LEMMA NextKeeps == IInv /\ [Next]_vars => IInv'
<1> SUFFICES ASSUME IInv, [Next]_vars PROVE IInv'
  OBVIOUS
<1>1. CASE UNCHANGED vars
  <2>1. Shape'
    BY <1>1, Zenon DEF vars, IInv, Shape
  <2>2. Stage'
    BY <1>1, Zenon DEF vars, IInv, Stage, Saved, Held, NothingLost
  <2>3. Fresh'
    BY <1>1, Zenon DEF vars, IInv, Fresh, ExitIsHonest, Finished, Extracted, Complete, Piece
  <2> QED
    BY <2>1, <2>2, <2>3, SMTT(30) DEF IInv
<1>2. CASE Next
  BY <1>2, BeginKeeps, CopyKeeps, ExtractKeeps, CheckFilesKeeps, SumsKeeps,
     SetupMakefilesKeeps, RemoveOutputKeeps, RestoreNameKeeps, DiscardKeeps, SignalKeeps,
     KillKeeps, SMTT(30) DEF Next
<1> QED
  BY <1>1, <1>2

\* However many runs of extract-files.sh fail, are interrupted or die, and
\* wherever they do, no piece of the last good vendor tree is lost: it is in the
\* tree or in a backup directory.  For any number of makefiles and of runs.
THEOREM VendorTreeSurvives == Spec => []NothingLost
<1>1. Init => IInv
  BY InitIInv
<1>2. IInv /\ [Next]_vars => IInv'
  BY NextKeeps
<1>3. IInv => NothingLost
  BY NothingLostInRun, SMTT(30)
<1> QED
  BY <1>1, <1>2, <1>3, PTL DEF Spec

\* A run that reports a restored tree has restored exactly what it found, and
\* one that reports success has made every piece itself, older files in the
\* payload after -n or -s excepted, whatever happened to the runs before it.
THEOREM ExtractionExitsHonestly == Spec => []ExitIsHonest
<1>1. Init => IInv
  BY InitIInv
<1>2. IInv /\ [Next]_vars => IInv'
  BY NextKeeps
<1>3. IInv => ExitIsHonest
  BY DEF IInv, Fresh
<1> QED
  BY <1>1, <1>2, <1>3, PTL DEF Spec
=============================================================================
