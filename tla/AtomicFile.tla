----------------------------- MODULE AtomicFile -----------------------------
(***************************************************************************)
(* How a JSON file is replaced: WriteJSONFileAtomic (internal/license/     *)
(* util.go), which writes license.json, hardware.json and the Go           *)
(* verifier's .watermark, and saveWatermark (verifier-node/src/            *)
(* watermark.ts), which writes the twin's.  Several writers may replace    *)
(* the same file at once, any system call may fail, a writer may be        *)
(* killed, and the power may go.                                           *)
(*                                                                         *)
(* The file system is modelled from POSIX: a rename is atomic for those    *)
(* who look, but what a power loss leaves of it is decided later, and the  *)
(* blocks of a file that was not fsynced may be missing even when its name *)
(* is there.  onDisk is the set of contents that a power loss now could    *)
(* leave behind.                                                           *)
(***************************************************************************)
EXTENDS Naturals, FiniteSets

CONSTANTS
  Writers,      \* processes that may replace the file
  NodeWriters,  \* those that run the TypeScript twin
  Values,       \* complete documents
  Absent,       \* no file
  Torn,         \* a file whose blocks did not all reach the disk
  MaxLitter     \* bound: temporary files left behind

ASSUME FileSystemAssumption ==
  /\ NodeWriters \subseteq Writers
  /\ Absent \notin Values /\ Torn \notin Values /\ Absent # Torn
  /\ MaxLitter \in Nat

VARIABLES
  visible,    \* what a reader of the path sees
  onDisk,     \* what it may see after a power loss
  pc,         \* where each writer is
  value,      \* the document it writes
  temp,       \* its temporary file: "none", "open", "written", "synced"
  result,     \* its last result: "none", "ok", "error"
  litter      \* temporary files that nobody will remove

vars == <<visible, onDisk, pc, value, temp, result, litter>>
files == <<visible, onDisk, litter>>

Steps ==
  {"idle", "create", "write", "sync", "close", "chmod", "rename", "clean"}
Contents == Values \union {Absent, Torn}

Init ==
  /\ visible \in Values \union {Absent}
  /\ onDisk = {visible}
  /\ pc = [w \in Writers |-> "idle"]
  /\ value = [w \in Writers |-> Absent]
  /\ temp = [w \in Writers |-> "none"]
  /\ result = [w \in Writers |-> "none"]
  /\ litter = 0

Begin(w) ==
  /\ pc[w] = "idle"
  /\ litter < MaxLitter
  /\ \E v \in Values : value' = [value EXCEPT ![w] = v]
  /\ pc' = [pc EXCEPT ![w] = "create"]
  /\ result' = [result EXCEPT ![w] = "none"]
  /\ UNCHANGED <<files, temp>>

(* A call succeeded: the next one, and what it made of the temporary file. *)
Proceed(w, from, to, file) ==
  /\ pc[w] = from
  /\ pc' = [pc EXCEPT ![w] = to]
  /\ temp' = [temp EXCEPT ![w] = file]
  /\ UNCHANGED <<files, value, result>>

BugFinishLeavesTemp(w, res) ==
  /\ pc' = [pc EXCEPT ![w] = "idle"]
  /\ temp' = IF pc[w] = "chmod" THEN temp ELSE [temp EXCEPT ![w] = "none"]
  /\ value' = [value EXCEPT ![w] = Absent]
  /\ result' = [result EXCEPT ![w] = res]

(* Done, one way or the other: the temporary file is not there any more.   *)
Finish(w, res) ==
  /\ pc' = [pc EXCEPT ![w] = "idle"]
  /\ temp' = [temp EXCEPT ![w] = "none"]
  /\ value' = [value EXCEPT ![w] = Absent]
  /\ result' = [result EXCEPT ![w] = res]

BugNoSync(w) ==
  /\ w \notin NodeWriters
  /\ \/ Proceed(w, "create", "write", "open")
     \/ Proceed(w, "write", "rename", "written")

(* The Go writer: CreateTemp, Write, Sync, Close, Chmod.                   *)
GoPrepare(w) ==
  /\ w \notin NodeWriters
  /\ \/ Proceed(w, "create", "write", "open")
     \/ Proceed(w, "write", "sync", "written")
     \/ Proceed(w, "sync", "close", "synced")
     \/ Proceed(w, "close", "chmod", "synced")
     \/ Proceed(w, "chmod", "rename", "synced")

(* The twin: mkdtempSync and writeFileSync, which creates, writes and      *)
(* closes the file with its mode, but does not sync it.                    *)
NodePrepare(w) ==
  /\ w \in NodeWriters
  /\ \/ Proceed(w, "create", "write", "open")
     \/ Proceed(w, "write", "rename", "written")

(* The rename replaces the file for every reader.  Until the file system   *)
(* writes its journal, a power loss may still find what was there before;  *)
(* if the data was not synced, it may find the name without the data.      *)
Replaced(w) ==
  /\ visible' = value[w]
  /\ onDisk' = onDisk \union {value[w]}
                 \union (IF temp[w] = "synced" THEN {} ELSE {Torn})

BugRenameNeedsAbsence(w) ==
  /\ pc[w] = "rename"
  /\ visible' = IF visible = Absent THEN value[w] ELSE Absent
  /\ onDisk' = onDisk \union {visible'}
  /\ Finish(w, "ok")
  /\ UNCHANGED litter

(* The Go writer is done with it.  The twin still has to remove the        *)
(* directory its temporary file was in.                                    *)
Rename(w) ==
  /\ pc[w] = "rename"
  /\ Replaced(w)
  /\ IF w \in NodeWriters
       THEN /\ pc' = [pc EXCEPT ![w] = "clean"]
            /\ UNCHANGED <<value, temp, result>>
       ELSE Finish(w, "ok")
  /\ UNCHANGED litter

CleanUp(w) ==
  /\ pc[w] = "clean"
  /\ Finish(w, "ok")
  /\ UNCHANGED files

(* A call fails: the writer tries to remove its temporary file, without    *)
(* looking whether it could, and reports the error.                        *)
Fail(w) ==
  /\ pc[w] # "idle"
  /\ litter' \in IF temp[w] = "none" THEN {litter} ELSE {litter, litter + 1}
  /\ Finish(w, "error")
  /\ UNCHANGED <<visible, onDisk>>

(* The process is killed; its temporary file stays.                        *)
Kill(w) ==
  /\ pc[w] # "idle"
  /\ litter' = IF temp[w] = "none" THEN litter ELSE litter + 1
  /\ Finish(w, "none")
  /\ UNCHANGED <<visible, onDisk>>

(* The file system catches up: what is visible is what is on disk.         *)
WriteBack ==
  /\ onDisk # {visible}
  /\ onDisk' = {visible}
  /\ UNCHANGED <<visible, pc, value, temp, result, litter>>

(* The power goes: every writer dies and the disk decides.                 *)
PowerLoss ==
  /\ \E c \in onDisk : visible' = c /\ onDisk' = {c}
  /\ pc' = [w \in Writers |-> "idle"]
  /\ temp' = [w \in Writers |-> "none"]
  /\ value' = [w \in Writers |-> Absent]
  /\ result' = [w \in Writers |-> "none"]
  /\ litter' \in litter..(litter + Cardinality({w \in Writers : temp[w] # "none"}))

Next ==
  \/ \E w \in Writers :
       Begin(w) \/ GoPrepare(w) \/ NodePrepare(w) \/ Rename(w)
       \/ CleanUp(w) \/ Fail(w) \/ Kill(w)
  \/ WriteBack
  \/ PowerLoss

Spec == Init /\ [][Next]_vars

-----------------------------------------------------------------------------
(* Types; and a writer holds a temporary file exactly between the call     *)
(* that made it and the one that ends the write (util.go:54-80).           *)
TypeOK ==
  /\ visible \in Contents
  /\ onDisk \in SUBSET Contents /\ visible \in onDisk
  /\ pc \in [Writers -> Steps]
  /\ value \in [Writers -> Values \union {Absent}]
  /\ temp \in [Writers -> {"none", "open", "written", "synced"}]
  /\ result \in [Writers -> {"none", "ok", "error"}]
  /\ litter \in Nat
  /\ \A w \in Writers :
       /\ pc[w] \in {"idle", "create"} <=> temp[w] = "none"
       /\ pc[w] = "idle" <=> value[w] = Absent

(* util.go:38-39: "partial writes can never leave a half-baked file",      *)
(* whatever fails, whoever is killed and whenever the power goes.          *)
NeverHalfBaked == visible # Torn

(* That file can only become one by the rename of a writer that runs the   *)
(* twin: a Go writer beside it, its failures and its temporary files leave *)
(* nothing torn (util.go:64, watermark.ts:32).                             *)
NodeRenames ==
  \E w \in NodeWriters : pc[w] = "rename" /\ pc'[w] = "clean"

OnlyNodeTears ==
  [][~NodeRenames /\ Torn \notin onDisk => Torn \notin onDisk']_vars

(* A file that has reached the disk never disappears: replacing it has no  *)
(* moment in which it is not there, and no failure, kill or power loss     *)
(* makes one (util.go:77).  The watermark depends on it: a verifier that   *)
(* finds no file starts a new one (watermark.go:33).                       *)
NeverLost ==
  [][Absent \notin onDisk => visible' # Absent /\ Absent \notin onDisk']_vars

(* The abstract file: one cell that writers replace at once with a whole   *)
(* document, and that a power loss may set back to a document it held      *)
(* since it was last written back.  With the twin among the writers, Torn  *)
(* has to count as a document.                                             *)
Cell ==
  INSTANCE FileCell WITH
    Values <- Values \union (IF NodeWriters = {} THEN {} ELSE {Torn}),
    cell <- visible, past <- onDisk, acked <- result,
    wrote <- [w \in Writers |-> pc[w] = "clean"]

ImplementsFileCell == Cell!CellSpec

=============================================================================
