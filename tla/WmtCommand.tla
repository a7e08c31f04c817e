------------------------------ MODULE WmtCommand ------------------------------
(***************************************************************************)
(* wmt-launcher: one command of the kernel from the frame that is read to  *)
(* the frame that is written: wmt_command_decode and the reply encoders of *)
(* protocol.c around handle_command, which runs a search of WmtFirmware.   *)
(*                                                                         *)
(* A frame is the record of its fields; those that only have to match a    *)
(* constant say whether they do.                                           *)
(***************************************************************************)
EXTENDS WmtFirmware, Sequences

CONSTANTS
  WMT_CMD2_PATCH_MAX,  \* most records of a patch list, and of a frame
  WMT_CMD2_ROM_MAX     \* ROM types a list may name

\* Whatever a search may find fits the frame (patch.h:10, firmware.h:10 and
\* mtk_wmt_cmd.h:12-13).
ASSUME LimitsAssumption ==
  /\ WMT_CMD2_PATCH_MAX \in Nat /\ WMT_CMD2_ROM_MAX \in Nat
  /\ WMT_MAX_PATCHES <= WMT_CMD2_PATCH_MAX
  /\ WMT_ROM_TYPES <= WMT_CMD2_ROM_MAX /\ WMT_ROM_TYPES <= WMT_CMD2_PATCH_MAX

VARIABLES
  frame,      \* what was read
  phase,      \* "decode", "chip", "search", "reply", "end"
  decoded,    \* struct wmt_command
  result,     \* result of handle_command, "ok" for 0
  reply,      \* the frame written
  properties  \* the version properties set

commandVars == <<frame, phase, decoded, result, reply, properties>>
handlerVars == <<searchVars, commandVars>>

Session == 1
NoCommand == [session |-> 0, transaction |-> 0, text |-> "none"]
NoReply == [kind |-> "none"]

Frames ==
  [header : BOOLEAN, magic : BOOLEAN, version : BOOLEAN, kind : BOOLEAN,
   session : {Session, 2}, transaction : 0 .. 1, length : BOOLEAN, nul : BOOLEAN,
   text : {"srh_patch", "srh_rom_patch", "other"}]

CommandInit ==
  /\ NotSearched /\ frame \in Frames /\ phase = "decode"
  /\ decoded = NoCommand /\ result = "ok" /\ reply = NoReply /\ properties = {}
-----------------------------------------------------------------------------
wmt_command_decode ==
  CASE ~frame.header -> "EMSGSIZE"
    [] ~(frame.magic /\ frame.version) -> "EPROTONOSUPPORT"
    [] ~frame.kind -> "EPROTO"
    [] frame.session # Session -> "ESTALE"
    [] frame.transaction = 0 -> "EPROTO"
    [] ~frame.length -> "EMSGSIZE"
    [] frame.nul -> "EPROTO"
    [] OTHER -> "ok"

\* A frame that does not decode ends the command loop.
Decode ==
  /\ phase = "decode"
  /\ IF wmt_command_decode = "ok"
     THEN /\ decoded' = [session |-> frame.session, transaction |-> frame.transaction,
                         text |-> frame.text]
          /\ phase' = "chip"
     ELSE phase' = "end" /\ UNCHANGED decoded
  /\ UNCHANGED <<searchVars, frame, result, reply, properties>>

Fails(e) == result' = e /\ phase' = "reply" /\ UNCHANGED searchVars

\* The chip queries come before a search; they and opendir may fail.
QueryChip ==
  /\ phase = "chip"
  /\ \/ decoded.text = "other" /\ Fails("EOPNOTSUPP")
     \/ decoded.text # "other" /\ \E e \in {"ENODEV", "ERANGE", "EIO", "ENOENT"} : Fails(e)
     \/ /\ decoded.text # "other"
        /\ OpenDirectory(IF decoded.text = "srh_patch" THEN "patch" ELSE "rom")
        /\ phase' = "search" /\ UNCHANGED result
  /\ UNCHANGED <<frame, decoded, reply, properties>>

RunSearch ==
  /\ phase = "search"
  /\ Search /\ IF done' THEN phase' = "reply" /\ result' = error'
                        ELSE UNCHANGED <<phase, result>>
  /\ UNCHANGED <<frame, decoded, reply, properties>>
-----------------------------------------------------------------------------
Record(i) == [index |-> i, name |-> output.records[i]]

\* The place of a record in the reply: one further for each index present.
Place(i) == Cardinality({j \in DOMAIN output.records : j <= i})
IndexAt(k) == CHOOSE i \in DOMAIN output.records : Place(i) = k

\* Mutant: a ROM record is numbered by its place in the reply.
Records_Renumbered ==
  [k \in 1 .. Cardinality(DOMAIN output.records) |->
     [Record(IndexAt(k)) EXCEPT !.index = IF search = "rom" THEN k - 1 ELSE @]]

\* Patches in the order of their sequence, ROM files in that of their type.
Records == [k \in 1 .. Cardinality(DOMAIN output.records) |-> Record(IndexAt(k))]

\* Mutant: sequences are taken to start at 0.
IndexOk_FromZero(i, total) ==
  IF search = "patch" THEN i < total ELSE i < WMT_CMD2_ROM_MAX

IndexOk(i, total) ==
  IF search = "patch" THEN i \in 1 .. total ELSE i < WMT_CMD2_ROM_MAX

\* The checks of wmt_reply_list; the frame has room for WMT_CMD2_PATCH_MAX records.
wmt_reply_list(rs) ==
  CASE search = "patch" /\ rs = << >> -> "EINVAL"
    [] Len(rs) > (IF search = "patch" THEN WMT_CMD2_PATCH_MAX ELSE WMT_CMD2_ROM_MAX) -> "E2BIG"
    [] Len(rs) > WMT_CMD2_PATCH_MAX -> "EMSGSIZE"
    [] \E i \in DOMAIN rs : ~IndexOk(rs[i].index, Len(rs)) -> "EINVAL"
    [] \E i, j \in DOMAIN rs : i # j /\ rs[i].index = rs[j].index -> "EEXIST"
    [] OTHER -> "ok"

Frame(kind, e, rs) ==
  [kind |-> kind, session |-> decoded.session, transaction |-> decoded.transaction,
   result |-> e, records |-> rs]

ListReply == Frame(search, "ok", Records)
wmt_reply_status(e) == Frame("status", e, << >>)

\* What a successful search publishes: the build of the first patch, or the
\* versions found in the ROM files.
Versioned ==
  IF search = "patch" THEN {<<"patch", output.records[1]>>}
  ELSE {<<r, output.version[r]>> : r \in {x \in Roles : output.version[x] # "none"}}

\* The end of handle_command: encode, write, and publish once it is accepted.
Respond ==
  /\ phase = "reply" /\ phase' = "end"
  /\ result' = IF result = "ok" THEN wmt_reply_list(Records) ELSE result
  /\ reply' = IF result' = "ok" THEN ListReply ELSE wmt_reply_status(result')
  /\ \/ properties' = IF result' = "ok" THEN Versioned ELSE {}
     \/ UNCHANGED properties
  /\ UNCHANGED <<searchVars, frame, decoded>>

CommandNext == Decode \/ QueryChip \/ RunSearch \/ Respond
CommandSpec == CommandInit /\ [][CommandNext]_handlerVars
-----------------------------------------------------------------------------
(***************************************************************************)
(* Properties, against the reference of WmtFirmware.                       *)
(***************************************************************************)
\* A good directory is refused in no order of its entries and by no limit of
\* the encoder: only a directory call that fails, at whichever entry, turns it
\* into a status.
GoodNeverRefused ==
  reply.kind = "status" /\ search # "none" /\ Good => result = "EIO"

\* A list carries exactly the files of the directory, each under the index of
\* its header and in ascending order, and answers the transaction of the frame
\* that asked; a frame of another session is never answered, and a version is
\* published only with the list it describes.
AnswerMatches ==
  /\ reply.kind # "none" =>
       /\ reply.session = Session /\ reply.transaction = frame.transaction /\ frame.transaction # 0
       /\ (reply.kind = "status") = (reply.result # "ok")
  /\ reply.kind \in {"patch", "rom"} =>
       /\ frame.text = IF reply.kind = "patch" THEN "srh_patch" ELSE "srh_rom_patch"
       /\ Len(reply.records) = Cardinality(Matching)
       /\ \A i \in DOMAIN reply.records :
            /\ reply.records[i].name \in Matching
            /\ reply.records[i].index = dir[reply.records[i].name].index
            /\ \A j \in 1 .. i - 1 : reply.records[j].index < reply.records[i].index
  /\ properties # {} => reply.kind \in {"patch", "rom"}
=============================================================================
