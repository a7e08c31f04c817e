----------------------------- MODULE WmtFirmware -----------------------------
(***************************************************************************)
(* wmt-launcher/firmware.c and patch.c: the search of a directory for the  *)
(* normal patch set or for the ROM patches.  Entries come in the order the *)
(* file system likes; the first failure ends the search, and the output is *)
(* replaced only by a search that succeeds.                                *)
(***************************************************************************)
EXTENDS Naturals, FiniteSets

CONSTANTS
  NAMES,            \* file names with the prefix searched for
  WMT_MAX_PATCHES,  \* bound on a patch set
  WMT_ROM_TYPES,    \* number of ROM types
  FIELD_MAX,        \* largest count, sequence or type a header holds
  VERSIONS          \* version strings

ASSUME FirmwareAssumption ==
  /\ IsFiniteSet(NAMES)
  /\ WMT_MAX_PATCHES \in Nat \ {0} /\ WMT_ROM_TYPES \in Nat \ {0} /\ FIELD_MAX \in Nat
  /\ "none" \notin VERSIONS

VARIABLES
  search,  \* "patch" or "rom": which of the two searches runs; "none" before
  dir,     \* the directory: a file for each name present
  unread,  \* names readdir has yet to return
  count,   \* patches.count
  seen,    \* what each sequence or type taken so far was filled with
  version, \* wifi_version and bt_version, "none" if absent
  error,   \* error, "ok" while there is none
  done,    \* search_directory has returned
  output   \* *output

searchVars == <<search, dir, unread, count, seen, version, error, done, output>>

(***************************************************************************)
(* A file is unreadable, made for other firmware, or has a header.  A      *)
(* patch's count and sequence are nibbles; a ROM file's count stands for   *)
(* the nibble that must not be zero, and its index is the type.  The role  *)
(* is the one in a ROM file's name; a Bluetooth file may hold no version,  *)
(* or markers from which none can be extracted ("bad").                    *)
(***************************************************************************)
Roles == {"wifi", "bt"}
Patches == [kind : {"header"}, count : 0 .. FIELD_MAX, index : 0 .. FIELD_MAX,
            role : {"none"}, version : {"none"}]
RomVersion(role) == CASE role = "none" -> {"none"}
                      [] role = "wifi" -> VERSIONS
                      [] role = "bt" -> VERSIONS \cup {"none", "bad"}
Roms == UNION {[kind : {"header"}, count : 0 .. 1, index : 0 .. WMT_ROM_TYPES,
                role : {r}, version : RomVersion(r)] : r \in Roles \cup {"none"}}
Useless == {[kind |-> "unreadable"], [kind |-> "other"]}

Empty == [x \in {} |-> "none"]

\* What the caller had there before.
Untouched == [records |-> Empty, version |-> [r \in Roles |-> "untouched"]]

NotSearched ==
  /\ search = "none" /\ dir = Empty /\ unread = {} /\ done = FALSE /\ error = "ok"
  /\ count = 0 /\ seen = Empty /\ version = [r \in Roles |-> "none"] /\ output = Untouched

\* opendir, on whatever the directory holds at that moment.
OpenDirectory(which) ==
  /\ search' = which
  /\ \E names \in SUBSET NAMES :
       dir' \in [names -> Useless \cup IF which = "patch" THEN Patches ELSE Roms]
  /\ unread' = DOMAIN dir'
  /\ UNCHANGED <<count, seen, version, error, done, output>>
-----------------------------------------------------------------------------
\* wmt_patch_parse
PatchValid(f) == f.count \in 1 .. WMT_MAX_PATCHES /\ f.index \in 1 .. f.count

\* wmt_patch_parse and wmt_patch_set_add: the error, "ok" if there is none.
PatchError(f) ==
  CASE ~PatchValid(f) -> "EINVAL"
    [] count # 0 /\ count # f.count -> "EINVAL"
    [] f.index \in DOMAIN seen -> "EEXIST"
    [] OTHER -> "ok"

\* Mutant: the last version read is the one reported.
RomError_LastVersion(f) ==
  CASE f.count = 0 \/ f.index >= WMT_ROM_TYPES -> "EINVAL"
    [] f.index \in DOMAIN seen -> "EEXIST"
    [] f.version = "bad" -> "EBADMSG"
    [] OTHER -> "ok"

\* read_rom, read_bt_version and bt_version.
RomError(f) ==
  CASE f.count = 0 \/ f.index >= WMT_ROM_TYPES -> "EINVAL"
    [] f.index \in DOMAIN seen -> "EEXIST"
    [] f.version = "bad" -> "EBADMSG"
    [] f.version \in VERSIONS /\ version[f.role] \notin {"none", f.version} -> "EINVAL"
    [] OTHER -> "ok"

FileError(f) ==
  CASE f.kind = "unreadable" -> "EIO"
    [] f.kind = "other" -> "ok"
    [] f.kind = "header" /\ search = "patch" -> PatchError(f)
    [] f.kind = "header" /\ search = "rom" -> RomError(f)

\* read_patch and read_rom on a file without an error.
Take(name, f) ==
  /\ seen' = [i \in DOMAIN seen \cup {f.index} |-> IF i = f.index THEN name ELSE seen[i]]
  /\ count' = IF search = "patch" THEN f.count ELSE count + 1
  /\ version' = IF f.version \in VERSIONS THEN [version EXCEPT ![f.role] = f.version]
                                          ELSE version

\* One turn of search_directory.
ReadEntry ==
  /\ search # "none" /\ ~done
  /\ \E name \in unread :
       /\ unread' = unread \ {name}
       /\ error' = FileError(dir[name])
       /\ done' = (error' # "ok")
       /\ IF dir[name].kind = "header" /\ error' = "ok"
          THEN Take(name, dir[name])
          ELSE UNCHANGED <<count, seen, version>>
  /\ UNCHANGED <<search, dir, output>>

\* wmt_patch_set_complete
CompleteError ==
  CASE count = 0 -> "ENOENT"
    [] count # 0 /\ DOMAIN seen # 1 .. count -> "ENODATA"
    [] OTHER -> "ok"

\* What *output holds after a search that ended with e.
Returned(e) == IF e = "ok" THEN [records |-> seen, version |-> version] ELSE output

\* The end of the directory: wmt_firmware_search checks that the set is
\* complete, wmt_rom_search takes what there is.
Finish ==
  /\ search # "none" /\ ~done /\ unread = {} /\ done' = TRUE
  /\ error' = IF search = "patch" THEN CompleteError ELSE "ok"
  /\ output' = Returned(error')
  /\ UNCHANGED <<search, dir, unread, count, seen, version>>

\* opendir, readdir at any entry, the close of a file that was taken, or
\* closedir fails.
DirectoryFails ==
  /\ search # "none" /\ ~done /\ done' = TRUE
  /\ error' = "EIO"
  /\ UNCHANGED <<search, dir, unread, count, seen, version, output>>

Search == ReadEntry \/ Finish \/ DirectoryFails
-----------------------------------------------------------------------------
(***************************************************************************)
(* The reference: which directories are good, and what a search of a good  *)
(* one returns, said without an order.                                     *)
(***************************************************************************)
Matching == {n \in DOMAIN dir : dir[n].kind = "header"}
NoUnreadable == \A n \in DOMAIN dir : dir[n].kind # "unreadable"
OneEach == \A m, n \in Matching : dir[m].index = dir[n].index => m = n

GoodPatches ==
  /\ NoUnreadable /\ OneEach
  /\ \E total \in 1 .. WMT_MAX_PATCHES :
       /\ \A n \in Matching : dir[n].count = total
       /\ {dir[n].index : n \in Matching} = 1 .. total

Versions(role) == {dir[n].version : n \in {m \in Matching : dir[m].role = role}} \cap VERSIONS
GoodRom ==
  /\ NoUnreadable /\ OneEach /\ (\A r \in Roles : Cardinality(Versions(r)) <= 1)
  /\ \A n \in Matching : /\ dir[n].count # 0 /\ dir[n].index < WMT_ROM_TYPES
                         /\ dir[n].version # "bad"

Good == IF search = "patch" THEN GoodPatches ELSE GoodRom

Reference ==
  [records |-> [i \in {dir[n].index : n \in Matching} |->
                  CHOOSE n \in Matching : dir[n].index = i],
   version |-> [r \in Roles |-> IF Versions(r) = {} THEN "none"
                                ELSE CHOOSE v \in Versions(r) : TRUE]]

\* Whatever order readdir returns the entries in, a successful search of a
\* directory returns the reference set, and no incomplete, duplicate or
\* inconsistent directory is accepted.  A search that fails, at whichever
\* entry, leaves the caller's output alone.
OnlyGoodAccepted ==
  /\ done /\ error = "ok" => Good /\ output = Reference
  /\ error # "ok" => output = Untouched
=============================================================================
