----------------------------- MODULE ExtractFiles -----------------------------
(***************************************************************************)
(* extract-files.sh from the backup to the end, with the update loop of    *)
(* setup-makefiles.sh.  A run copies the vendor tree, extracts, checks,    *)
(* and puts the copy back if anything fails.  The traps turn a signal into *)
(* an exit, finish_extraction clears only the EXIT trap, and the machine   *)
(* can stop at any moment; then somebody runs the script again.            *)
(*                                                                         *)
(* A piece of the tree is <<state, run that made it>>; run 0 made what was *)
(* there before.                                                           *)
(***************************************************************************)
EXTENDS Naturals, Sequences, SequencesExt

CONSTANTS
  PROPRIETARY,  \* the payload directory
  MAKEFILES,    \* the generated makefiles, in the order of BACKUP_FILES
  MAX_RUNS      \* bound on the runs of the script

ASSUME ConstantsAssumption ==
  /\ MAX_RUNS \in Nat /\ MAKEFILES \in Seq(STRING) /\ PROPRIETARY \in STRING
  /\ PROPRIETARY \notin ToSet(MAKEFILES)
  /\ \A i, j \in DOMAIN MAKEFILES : MAKEFILES[i] = MAKEFILES[j] => i = j

BACKUP_FILES == <<PROPRIETARY>> \o MAKEFILES
Names == ToSet(BACKUP_FILES)
None == <<"none", 0>>

VARIABLES
  run,      \* number of this run
  clean,    \* CLEAN_VENDOR
  pc,       \* where it is
  todo,     \* names its current loop has left
  ready,    \* BACKUP_READY
  status,   \* exit status it is about to end with: 0 or 1
  output,   \* VENDOR_OUTPUT: name -> piece
  backup,   \* BACKUP_DIR of every run: run -> name -> piece
  before,   \* the tree this run found
  good      \* the tree the last successful run left, at first the original

vars == <<run, clean, pc, todo, ready, status, output, backup, before, good>>

Piece(state) == <<state, run>>
Ended == {"idle", "succeeded", "restored", "restore failed", "stopped"}
Absent == [n \in Names |-> None]

TypeOK ==
  LET Pieces == {"none", "torn", "bare", "mixed", "whole", "blended"} \X (0 .. MAX_RUNS) IN
  /\ run \in 0 .. MAX_RUNS /\ clean \in BOOLEAN /\ ready \in BOOLEAN /\ status \in {0, 1}
  /\ pc \in Ended \cup {"copy", "extract", "check", "sums", "makefiles", "remove", "move",
                        "discard"}
  /\ IsSuffix(todo, BACKUP_FILES)
  /\ {output, before, good} \subseteq [Names -> Pieces]
  /\ backup \in [1 .. MAX_RUNS -> [Names -> Pieces]]

\* A first extraction finds nothing; later ones a complete tree.
Init ==
  /\ run = 0 /\ clean = TRUE /\ pc = "idle" /\ todo = <<>> /\ ready = FALSE /\ status = 0
  /\ output \in {Absent, [n \in Names |-> <<"whole", 0>>]}
  /\ backup = [r \in 1 .. MAX_RUNS |-> Absent]
  /\ before = output /\ good = output

Goto(label) == pc' = label /\ UNCHANGED <<run, clean, before>>
Keep == UNCHANGED <<todo, ready, good>>
-----------------------------------------------------------------------------
\* -n and -s leave the payload in place.
ParseOptions == clean' \in BOOLEAN

\* mktemp and the traps.
Begin ==
  /\ pc \in Ended /\ run < MAX_RUNS /\ ParseOptions
  /\ run' = run + 1 /\ pc' = "copy" /\ todo' = BACKUP_FILES
  /\ ready' = FALSE /\ status' = 0 /\ before' = output
  /\ UNCHANGED <<output, backup, good>>

\* Mutant: the copy counts as complete while it is being made.
BackupReady_Early == TRUE

\* Where BACKUP_READY becomes true: after the loop.
BackupReady == todo' = <<>>

\* The exit of a failed command; finish_extraction decides what follows.
Fail == /\ status' = 1 /\ todo' = BACKUP_FILES
        /\ Goto(IF ready' THEN "remove" ELSE "discard")
        /\ UNCHANGED good

\* cp -a of one name, which can stop in the middle.
Copy ==
  /\ pc = "copy" /\ UNCHANGED output
  /\ \/ /\ backup' = [backup EXCEPT ![run][Head(todo)] = output[Head(todo)]]
        /\ todo' = Tail(todo) /\ ready' = BackupReady
        /\ Goto(IF todo' = <<>> THEN "extract" ELSE "copy")
        /\ UNCHANGED <<status, good>>
     \/ /\ output[Head(todo)] # None
        /\ backup' = [backup EXCEPT ![run][Head(todo)] = Piece("torn")]
        /\ UNCHANGED ready /\ Fail

(***************************************************************************)
(* What extract makes of the payload.  It moves the old one away and       *)
(* rebuilds it, or extracts over it.  Missing files are skips, so it may   *)
(* succeed with less than everything; over an old payload the old file     *)
(* then stays.  "mixed": the selected files are there, of this run or      *)
(* older, and perhaps others.                                              *)
(***************************************************************************)
Extracted ==
  IF clean THEN {None, Piece("torn"), Piece("bare")} ELSE {Piece("torn"), Piece("mixed")}

Extract ==
  /\ pc = "extract" /\ UNCHANGED <<backup, ready>>
  /\ \E p \in Extracted : output' = [output EXCEPT ![PROPRIETARY] = p]
  /\ \/ Goto("check") /\ UNCHANGED <<status, todo, good>>
     \/ Fail

\* Mutant: the files are not looked for.
AllPresent_Unchecked == output[PROPRIETARY] # None

\* Something was selected and every selected file is there.
AllPresent == output[PROPRIETARY][1] \in {"bare", "mixed"}

CheckFiles ==
  /\ pc = "check" /\ UNCHANGED <<output, backup, ready>>
  /\ IF AllPresent THEN Goto("sums") /\ UNCHANGED <<status, todo, good>> ELSE Fail

Completed(p) ==
  CASE p[1] = "bare" -> Piece("whole")
    [] p[1] = "mixed" -> Piece("blended")
    [] OTHER -> p

\* SHA256SUMS completes the payload.
Sums ==
  /\ pc = "sums" /\ UNCHANGED <<backup, ready>>
  /\ \/ /\ output' = [output EXCEPT ![PROPRIETARY] = Completed(@)]
        /\ todo' = MAKEFILES /\ Goto("makefiles") /\ UNCHANGED <<status, good>>
     \/ UNCHANGED output /\ Fail

\* setup-makefiles.sh: generation can fail, or an mv between two makefiles.
SetupMakefiles ==
  /\ pc = "makefiles" /\ UNCHANGED <<backup, ready>>
  /\ \/ /\ todo # <<>> /\ output' = [output EXCEPT ![Head(todo)] = Piece("whole")]
        /\ todo' = Tail(todo) /\ Goto("makefiles") /\ UNCHANGED <<status, good>>
     \/ /\ todo = <<>> /\ good' = output /\ Goto("discard") /\ UNCHANGED <<output, status, todo>>
     \/ /\ todo # <<>> /\ UNCHANGED output /\ Fail
-----------------------------------------------------------------------------
(***************************************************************************)
(* finish_extraction                                                       *)
(***************************************************************************)
\* rm -rf of the name in the tree.
RemoveOutput ==
  /\ pc = "remove" /\ UNCHANGED <<backup, status>> /\ Keep
  /\ \/ /\ output' = [output EXCEPT ![Head(todo)] = None] /\ Goto("move")
     \/ /\ output[Head(todo)] # None
        /\ output' = [output EXCEPT ![Head(todo)] = Piece("torn")] /\ Goto("restore failed")

\* mv within one file system: it happens or it does not.
RestoreName ==
  /\ pc = "move" /\ UNCHANGED <<ready, status, good>>
  /\ LET n == Head(todo) IN
     \/ /\ output' = [output EXCEPT ![n] = backup[run][n]]
        /\ backup' = [backup EXCEPT ![run][n] = None]
        /\ todo' = Tail(todo) /\ Goto(IF todo' = <<>> THEN "discard" ELSE "remove")
     \/ /\ backup[run][n] # None
        /\ Goto("restore failed") /\ UNCHANGED <<output, backup, todo>>

\* rm -rf of the backup; stopped in the middle it leaves some names.
Discard ==
  /\ pc = "discard" /\ UNCHANGED <<output, status>> /\ Keep
  /\ \E left \in SUBSET Names :
       /\ backup' = [backup EXCEPT ![run] = [n \in Names |-> IF n \in left THEN @[n] ELSE None]]
       /\ Goto(IF left # {} THEN "stopped" ELSE IF status = 0 THEN "succeeded" ELSE "restored")

\* Where a signal still leads through finish_extraction.
Trapped == {"copy", "extract", "check", "sums", "makefiles"}

\* HUP, INT or TERM: exit, and with it finish_extraction unless it runs already.
Signal ==
  /\ pc \notin Ended /\ UNCHANGED <<output, backup, ready>>
  /\ IF pc \in Trapped THEN Fail ELSE Goto("stopped") /\ UNCHANGED <<status, todo, good>>

\* The machine or the shell dies.
Kill ==
  /\ pc \notin Ended /\ Goto("stopped")
  /\ UNCHANGED <<output, backup, status>> /\ Keep

Next == \/ Begin \/ Copy \/ Extract \/ CheckFiles \/ Sums \/ SetupMakefiles
        \/ RemoveOutput \/ RestoreName \/ Discard \/ Signal \/ Kill

Spec == Init /\ [][Next]_vars
-----------------------------------------------------------------------------
(***************************************************************************)
(* Properties                                                              *)
(***************************************************************************)
\* Whatever stops a run, and however often runs are stopped, every piece of
\* the last good tree is still in the tree or in some backup directory.
NothingLost ==
  \A n \in Names : good[n] = None \/ good[n] = output[n]
                     \/ \E r \in 1 .. MAX_RUNS : good[n] = backup[r][n]

\* A whole piece of this run; after -n or -s older files may be in the payload.
Finished(n) ==
  output[n] = Piece("whole") \/ (n = PROPRIETARY /\ ~clean /\ output[n] = Piece("blended"))

\* README: a failure restores the previous proprietary files and makefiles.  A
\* run that says so, or that failed before changing anything, leaves exactly
\* the tree it found; one that exits with 0 leaves only finished pieces.
ExitIsHonest ==
  /\ pc = "restored" => output = before
  /\ pc = "succeeded" => \A n \in Names : Finished(n)
=============================================================================
