------------------------------ MODULE Registry ------------------------------
(***************************************************************************)
(* The registry of issued licenses: scripts/issue-and-store.sh, which runs *)
(* issuer sign, reads license.json piece by piece with jq and issuer       *)
(* inspect, and hands a record to cmd/licensedb, which migrates a MySQL    *)
(* table and inserts a row.                                                *)
(*                                                                         *)
(* Several runs share a directory and the database.  Any of them may be    *)
(* killed, the database may go down, and a pooled connection may be lost   *)
(* between two statements or before an answer.                             *)
(***************************************************************************)
EXTENDS License, Sequences, FiniteSets

CONSTANTS
  Runs,       \* runs of the script
  Orders,     \* requests, without the hardware
  Machines,   \* fingerprints of the hardware.json files an operator delivers
  MaxUpsets,  \* bound: faults, and files an operator replaces
  Null        \* SQL NULL

Order == [permanent : BOOLEAN, notBefore : Time, notAfter : Time, maxOfflineDays : Nat]

(* The shell variables of a run, which become the record it stores.        *)
Fields == <<"id", "issuedAt", "notBefore", "notAfter", "fp">>
Vars == {"id", "issuedAt", "notBefore", "notAfter", "fp", "maxOfflineDays",
         "doc", "remark"}
NoVars == [v \in Vars |-> Null]

(* A row without its key.  expires is Null while the column is missing.    *)
Row ==
  [issuedAt : Time, notBefore : Time, notAfter : Time \union {Null},
   expires : BOOLEAN \union {Null}, fp : Fingerprints, maxOfflineDays : Nat,
   doc : LicenseDoc, remark : Machines]

RequestFor(o, fp) ==
  [hwFp |-> fp, recomputedFp |-> fp, permanent |-> o.permanent,
   notBefore |-> o.notBefore, notAfter |-> o.notAfter,
   maxOfflineDays |-> o.maxOfflineDays]

(* Orders that issuer sign accepts: what it refuses changes nothing.       *)
ASSUME RegistryAssumption ==
  /\ Orders \subseteq Order
  /\ Machines \subseteq Fingerprints
  /\ MaxUpsets \in Nat
  /\ IsFiniteSet(Ids)
  /\ Null \notin Nat \union Machines \union Ids \union BOOLEAN \union LicenseDoc \union Row
  /\ \A o \in Orders, m \in Machines : Issuable(RequestFor(o, m))

VARIABLES
  out,       \* license.json: the license in it, or NoFile
  hwFile,    \* hardware.json: its fingerprint, or NoFile
  layout,    \* "none", "empty" (no table), "old", "half" migrated, "current"
  rows,      \* the table: a row for each license id, or Null
  up,        \* the database server answers
  pc,        \* where each run is
  order,     \* what it was asked for
  force,     \* its -force
  spelt,     \* -out was written as the script expects it (or not at all)
  hw,        \* the fingerprint sign has read from hardware.json
  signed,    \* the license its sign has put into license.json
  got,       \* its shell variables
  conn,      \* its connection: "none", "plain", or "used" after USE
  usedIds,   \* license identifiers given so far
  upsets,    \* how many faults and replaced files there were
  disturbed, \* history: others wrote license.json or hardware.json under it
  faulted,   \* history: a fault has hit it
  mixed      \* history: ids whose row was written by a disturbed run

files == <<out, hwFile>>
database == <<layout, rows, up>>
flags == <<order, force, spelt>>
locals == <<order, force, spelt, hw, signed, got, conn>>
counters == <<usedIds, upsets>>
ghosts == <<disturbed, faulted>>
vars == <<out, hwFile, layout, rows, up, pc, order, force, spelt, hw, signed,
          got, conn, usedIds, upsets, disturbed, faulted, mixed>>

(* A row that a version before the permanent licenses has left.            *)
OldRow(lic) ==
  [issuedAt |-> lic.issuedAt, notBefore |-> lic.notBefore,
   notAfter |-> lic.notAfter, expires |-> Null, fp |-> lic.fp,
   maxOfflineDays |-> lic.payload.maxOfflineDays, doc |-> lic,
   remark |-> lic.fp]

Init ==
  /\ out = NoFile
  /\ hwFile \in Machines
  /\ \/ layout \in {"none", "empty"} /\ rows = [id \in Ids |-> Null] /\ usedIds = {}
     \/ \E id \in Ids, o \in Orders :
          /\ layout = "old" /\ ~o.permanent
          /\ rows = [i \in Ids |-> IF i = id THEN OldRow(Issue(RequestFor(o, hwFile), id, 1))
                                   ELSE Null]
          /\ usedIds = {id}
  /\ up = TRUE
  /\ pc = [p \in Runs |-> "idle"]
  /\ order = [p \in Runs |-> Null]
  /\ force = [p \in Runs |-> FALSE]
  /\ spelt = [p \in Runs |-> TRUE]
  /\ hw = [p \in Runs |-> Null]
  /\ signed = [p \in Runs |-> Null]
  /\ got = [p \in Runs |-> NoVars]
  /\ conn = [p \in Runs |-> "none"]
  /\ upsets = 0
  /\ disturbed = [p \in Runs |-> FALSE]
  /\ faulted = [p \in Runs |-> FALSE]
  /\ mixed = {}

Goto(p, step) == pc' = [pc EXCEPT ![p] = step]

ForgetFlags(p) ==
  /\ order' = [order EXCEPT ![p] = Null]
  /\ force' = [force EXCEPT ![p] = FALSE]
  /\ spelt' = [spelt EXCEPT ![p] = TRUE]

(* The run ends with "done", "error", or a "fault" it did not cause.       *)
Exit(p, how) ==
  /\ Goto(p, how)
  /\ ForgetFlags(p)
  /\ hw' = [hw EXCEPT ![p] = Null]
  /\ signed' = [signed EXCEPT ![p] = Null]
  /\ got' = [got EXCEPT ![p] = NoVars]
  /\ conn' = [conn EXCEPT ![p] = "none"]
  /\ disturbed' = [disturbed EXCEPT ![p] = FALSE]
  /\ faulted' = [faulted EXCEPT ![p] = FALSE]

(* Someone writes license.json or hardware.json: the runs that have begun  *)
(* to read and are not at the database yet are disturbed.                  *)
Reading == {"write", "id", "issuedAt", "notBefore", "notAfter", "fp",
            "inspect", "document", "remark"}
DisturbOthers(p) ==
  disturbed' = [q \in Runs |-> disturbed[q] \/ (q # p /\ pc[q] \in Reading)]

-----------------------------------------------------------------------------
(* The script up to its record.                                            *)
Start(p) ==
  /\ pc[p] = "idle"
  /\ \E o \in Orders, f, s \in BOOLEAN :
       /\ order' = [order EXCEPT ![p] = o]
       /\ force' = [force EXCEPT ![p] = f]
       /\ spelt' = [spelt EXCEPT ![p] = s]
  /\ Goto(p, "sign")
  /\ UNCHANGED <<files, database, hw, signed, got, conn, counters, ghosts, mixed>>

(* issuer sign looks for its output and reads hardware.json; later it      *)
(* writes the license and is gone, with all it knew.  With -out=X it works *)
(* on another file, which the script does not know about.                  *)
SignReads(p) ==
  /\ pc[p] = "sign"
  /\ IF /\ force[p] \/ ~spelt[p] \/ out = NoFile
        /\ hwFile # NoFile
       THEN /\ hw' = [hw EXCEPT ![p] = hwFile]
            /\ Goto(p, "write")
            /\ UNCHANGED <<flags, signed, got, conn, ghosts>>
       ELSE Exit(p, "error")
  /\ UNCHANGED <<files, database, counters, mixed>>

SignWrites(p) ==
  /\ pc[p] = "write"
  /\ \E id \in Ids \ usedIds :
       LET lic == Issue(RequestFor(order[p], hw[p]), id, Cardinality(usedIds) + 1)
       IN  /\ usedIds' = usedIds \union {id}
           /\ IF spelt[p]
                THEN out' = lic /\ signed' = [signed EXCEPT ![p] = lic] /\ DisturbOthers(p)
                ELSE UNCHANGED <<out, signed, disturbed>>
  /\ ForgetFlags(p)
  /\ hw' = [hw EXCEPT ![p] = Null]
  /\ Goto(p, Fields[1])
  /\ UNCHANGED <<hwFile, database, got, conn, upsets, faulted, mixed>>

BugStopsOneShort(p) ==
  \E i \in DOMAIN Fields :
    /\ pc[p] = Fields[i]
    /\ IF out # NoFile /\ (i = 1 => hwFile # NoFile)
         THEN /\ got' = [got EXCEPT ![p][Fields[i]] = out[Fields[i]]]
              /\ Goto(p, IF i + 1 < Len(Fields) THEN Fields[i + 1] ELSE "inspect")
              /\ UNCHANGED <<flags, hw, signed, conn, ghosts>>
         ELSE Exit(p, "error")
    /\ UNCHANGED <<files, database, counters, mixed>>

(* Both files must be there; then license_id=$(jq -r .id "$OUT") and so    *)
(* on, every one of which opens the file again.                            *)
JqReads(p) ==
  \E i \in DOMAIN Fields :
    /\ pc[p] = Fields[i]
    /\ IF out # NoFile /\ (i = 1 => hwFile # NoFile)
         THEN /\ got' = [got EXCEPT ![p][Fields[i]] = out[Fields[i]]]
              /\ Goto(p, IF i < Len(Fields) THEN Fields[i + 1] ELSE "inspect")
              /\ UNCHANGED <<flags, hw, signed, conn, ghosts>>
         ELSE Exit(p, "error")
    /\ UNCHANGED <<files, database, counters, mixed>>

(* issuer inspect reads both files and decrypts the payload.  When the     *)
(* fingerprints differ it prints a string instead, in which jq finds no    *)
(* features, and the script ends (set -e).                                 *)
BugNoFeaturesIsFine(p) ==
  /\ pc[p] = "inspect"
  /\ IF out # NoFile /\ hwFile # NoFile
       THEN /\ got' = [got EXCEPT ![p].maxOfflineDays =
                         IF hwFile = out.fp THEN out.payload.maxOfflineDays ELSE 0]
            /\ Goto(p, "document")
            /\ UNCHANGED <<flags, hw, signed, conn, ghosts>>
       ELSE Exit(p, "error")
  /\ UNCHANGED <<files, database, counters, mixed>>

Inspect(p) ==
  /\ pc[p] = "inspect"
  /\ IF out # NoFile /\ hwFile # NoFile /\ hwFile = out.fp
       THEN /\ got' = [got EXCEPT ![p].maxOfflineDays = out.payload.maxOfflineDays]
            /\ Goto(p, "document")
            /\ UNCHANGED <<flags, hw, signed, conn, ghosts>>
       ELSE Exit(p, "error")
  /\ UNCHANGED <<files, database, counters, mixed>>

(* license_json and hardware_remark, then licensedb is started.            *)
ReadWhole(p) ==
  /\ \/ /\ pc[p] = "document" /\ out # NoFile
        /\ got' = [got EXCEPT ![p].doc = out]
        /\ Goto(p, "remark")
        /\ UNCHANGED <<flags, hw, signed, conn, ghosts>>
     \/ /\ pc[p] = "remark" /\ hwFile # NoFile
        /\ got' = [got EXCEPT ![p].remark = hwFile]
        /\ Goto(p, "ping")
        /\ UNCHANGED <<flags, hw, signed, conn, ghosts>>
     \/ /\ \/ pc[p] = "document" /\ out = NoFile
           \/ pc[p] = "remark" /\ hwFile = NoFile
        /\ Exit(p, "error")
  /\ UNCHANGED <<files, database, counters, mixed>>

-----------------------------------------------------------------------------
(* licensedb store: one statement a step.  database/sql opens a connection *)
(* when the pool has none; only USE gives a connection its database, and   *)
(* only the connection it runs on.                                         *)
Connection(p) == IF conn[p] = "none" THEN "plain" ELSE conn[p]

Upset == upsets < MaxUpsets /\ upsets' = upsets + 1

(* A statement was executed: p goes on, or its answer is lost.             *)
AnswerIsLost(p) == Upset /\ Exit(p, "fault")

Executed(p, next, connection) ==
  \/ /\ Goto(p, next)
     /\ conn' = [conn EXCEPT ![p] = connection]
     /\ UNCHANGED <<flags, hw, signed, got, upsets, ghosts>>
  \/ AnswerIsLost(p)

(* It was not.                                                             *)
Refused(p) == Exit(p, "error") /\ UNCHANGED <<layout, rows, mixed, upsets>>

CreateDatabase(p) ==
  /\ \/ /\ pc[p] = "ping"
        /\ IF up
             THEN /\ Executed(p, "create database", "plain")
                  /\ UNCHANGED <<layout, rows, mixed>>
             ELSE Refused(p)
     \/ /\ pc[p] = "create database"
        /\ IF up
             THEN /\ layout' = IF layout = "none" THEN "empty" ELSE layout
                  /\ Executed(p, "use", Connection(p))
                  /\ UNCHANGED <<rows, mixed>>
             ELSE Refused(p)
     \/ /\ pc[p] = "use"
        /\ IF up
             THEN /\ Executed(p, "create table", "used")
                  /\ UNCHANGED <<layout, rows, mixed>>
             ELSE Refused(p)
  /\ UNCHANGED <<files, up, usedIds>>

(* A statement on the table needs the server and a connection with a       *)
(* database (else error 1046).                                             *)
CanQuery(p) == up /\ Connection(p) = "used"

BugDropsTheTable(p) ==
  /\ pc[p] = "create table"
  /\ IF CanQuery(p)
       THEN /\ layout' = "current"
            /\ rows' = IF layout = "current" THEN rows ELSE [id \in Ids |-> Null]
            /\ Executed(p, "modify", "used")
            /\ UNCHANGED mixed
       ELSE Refused(p)
  /\ UNCHANGED <<files, up, usedIds>>

CreateTable(p) ==
  /\ pc[p] = "create table"
  /\ IF CanQuery(p)
       THEN /\ layout' = IF layout = "empty" THEN "current" ELSE layout
            /\ Executed(p, "modify", "used")
            /\ UNCHANGED <<rows, mixed>>
       ELSE Refused(p)
  /\ UNCHANGED <<files, up, usedIds>>

ModifyColumn(p) ==
  /\ pc[p] = "modify"
  /\ IF CanQuery(p)
       THEN /\ layout' = IF layout = "old" THEN "half" ELSE layout
            /\ Executed(p, "add column", "used")
            /\ UNCHANGED <<rows, mixed>>
       ELSE Refused(p)
  /\ UNCHANGED <<files, up, usedIds>>

BugDefaultIsPermanent(value) ==
  [id \in Ids |-> IF rows[id] = Null THEN Null ELSE [rows[id] EXCEPT !.expires = FALSE]]

(* ALTER TABLE ADD COLUMN expires with a default, for the rows there are.  *)
WithColumn(value) ==
  [id \in Ids |-> IF rows[id] = Null THEN Null ELSE [rows[id] EXCEPT !.expires = value]]

BugDuplicateColumnFails(p) ==
  /\ pc[p] = "add column"
  /\ IF CanQuery(p) /\ layout \in {"old", "half"}
       THEN /\ layout' = "current" /\ rows' = WithColumn(TRUE)
            /\ Executed(p, "insert", "used")
            /\ UNCHANGED mixed
       ELSE Refused(p)
  /\ UNCHANGED <<files, up, usedIds>>

(* Adding the column again is error 1060, which isHarmlessAlterErr         *)
(* forgives.                                                               *)
AddColumn(p) ==
  /\ pc[p] = "add column"
  /\ IF CanQuery(p)
       THEN /\ IF layout \in {"old", "half"}
                 THEN layout' = "current" /\ rows' = WithColumn(TRUE)
                 ELSE UNCHANGED <<layout, rows>>
            /\ Executed(p, "insert", "used")
            /\ UNCHANGED mixed
       ELSE Refused(p)
  /\ UNCHANGED <<files, up, usedIds>>

BugZeroTimeIsATime(g) ==
  [issuedAt |-> g.issuedAt, notBefore |-> g.notBefore, notAfter |-> g.notAfter,
   expires |-> TRUE, fp |-> g.fp, maxOfflineDays |-> g.maxOfflineDays,
   doc |-> g.doc, remark |-> g.remark]

(* The zero time of a permanent license becomes NULL; the script sends no  *)
(* expires, which is inferred.                                             *)
RowOf(g) ==
  [issuedAt |-> g.issuedAt, notBefore |-> g.notBefore,
   notAfter |-> IF g.notAfter = ZeroTime THEN Null ELSE g.notAfter,
   expires |-> g.notAfter # ZeroTime, fp |-> g.fp,
   maxOfflineDays |-> g.maxOfflineDays, doc |-> g.doc, remark |-> g.remark]

BugIgnoresTheError(p) ==
  /\ pc[p] = "insert"
  /\ IF CanQuery(p) /\ layout = "current"
       THEN /\ rows' = [rows EXCEPT ![got[p].id] = RowOf(got[p])]
            /\ mixed' = IF disturbed[p] THEN mixed \union {got[p].id} ELSE mixed
            /\ \/ Exit(p, "done") /\ UNCHANGED upsets
               \/ AnswerIsLost(p)
            /\ UNCHANGED layout
       ELSE Exit(p, "done") /\ UNCHANGED <<layout, rows, mixed, upsets>>
  /\ UNCHANGED <<files, up, usedIds>>

(* INSERT ... ON DUPLICATE KEY UPDATE.  Then the script says "done.".      *)
Insert(p) ==
  /\ pc[p] = "insert"
  /\ IF CanQuery(p) /\ layout = "current"
       THEN /\ rows' = [rows EXCEPT ![got[p].id] = RowOf(got[p])]
            /\ mixed' = IF disturbed[p] THEN mixed \union {got[p].id} ELSE mixed
            /\ \/ Exit(p, "done") /\ UNCHANGED upsets
               \/ AnswerIsLost(p)
            /\ UNCHANGED layout
       ELSE Refused(p)
  /\ UNCHANGED <<files, up, usedIds>>

-----------------------------------------------------------------------------
(* Faults and operators.                                                   *)
AtDatabase == {"ping", "create database", "use", "create table", "modify",
               "add column", "insert"}

DatabaseGoesDown ==
  /\ up /\ up' = FALSE /\ Upset
  /\ conn' = [p \in Runs |-> "none"]
  /\ faulted' = [p \in Runs |-> faulted[p] \/ pc[p] \in AtDatabase]
  /\ UNCHANGED <<files, layout, rows, pc, flags, hw, signed, got, usedIds, disturbed, mixed>>

DatabaseComesUp ==
  /\ ~up /\ up' = TRUE
  /\ UNCHANGED <<files, layout, rows, pc, locals, counters, ghosts, mixed>>

ConnectionIsLost(p) ==
  /\ conn[p] # "none" /\ conn' = [conn EXCEPT ![p] = "none"] /\ Upset
  /\ faulted' = [faulted EXCEPT ![p] = TRUE]
  /\ UNCHANGED <<files, database, pc, flags, hw, signed, got, usedIds, disturbed, mixed>>

Kill(p) ==
  /\ pc[p] \in {"sign"} \union Reading \union AtDatabase
  /\ Upset /\ Exit(p, "fault")
  /\ UNCHANGED <<files, database, usedIds, mixed>>

(* Another machine's hardware.json, or either file moved away.             *)
ReplaceFiles ==
  /\ \/ hwFile' \in (Machines \union {NoFile}) \ {hwFile} /\ UNCHANGED out
     \/ out # NoFile /\ out' = NoFile /\ UNCHANGED hwFile
  /\ Upset
  /\ disturbed' = [q \in Runs |-> disturbed[q] \/ pc[q] \in Reading]
  /\ UNCHANGED <<database, pc, locals, usedIds, faulted, mixed>>

Script(p) ==
  \/ Start(p)
  \/ SignReads(p)
  \/ SignWrites(p)
  \/ JqReads(p)
  \/ Inspect(p)
  \/ ReadWhole(p)

Store(p) ==
  \/ CreateDatabase(p)
  \/ CreateTable(p)
  \/ ModifyColumn(p)
  \/ AddColumn(p)
  \/ Insert(p)

Next ==
  \/ \E p \in Runs : Script(p) \/ Store(p) \/ ConnectionIsLost(p) \/ Kill(p)
  \/ DatabaseGoesDown
  \/ DatabaseComesUp
  \/ ReplaceFiles

Spec == Init /\ [][Next]_vars
-----------------------------------------------------------------------------
(* The types; what is at the database has a complete record.               *)
TypeOK ==
  /\ out \in LicenseDoc \union {NoFile}
  /\ hwFile \in Machines \union {NoFile}
  /\ layout \in {"none", "empty", "old", "half", "current"}
  /\ rows \in [Ids -> Row \union {Null}]
  /\ up \in BOOLEAN
  /\ pc \in [Runs -> {"idle", "sign", "done", "error", "fault"}
                  \union Reading \union AtDatabase]
  /\ order \in [Runs -> Orders \union {Null}]
  /\ force \in [Runs -> BOOLEAN] /\ spelt \in [Runs -> BOOLEAN]
  /\ hw \in [Runs -> Machines \union {Null}]
  /\ signed \in [Runs -> LicenseDoc \union {Null}]
  /\ conn \in [Runs -> {"none", "plain", "used"}]
  /\ usedIds \subseteq Ids
  /\ upsets \in 0..MaxUpsets
  /\ disturbed \in [Runs -> BOOLEAN] /\ faulted \in [Runs -> BOOLEAN]
  /\ mixed \subseteq Ids
  /\ \A p \in Runs :
       pc[p] \in AtDatabase => got[p].id \in Ids /\ RowOf(got[p]) \in Row

(* A row says in its columns what its license says, and the hardware       *)
(* beside it is the one the license is for.                                *)
Describes(row, id, lic) ==
  /\ row.doc = lic /\ lic.id = id
  /\ row.issuedAt = lic.issuedAt /\ row.notBefore = lic.notBefore
  /\ row.notAfter = IF lic.expires THEN lic.notAfter ELSE Null
  /\ row.expires \in {lic.expires, Null}
  /\ row.fp = lic.fp /\ row.remark = lic.fp
  /\ row.maxOfflineDays = lic.payload.maxOfflineDays

(* Every row describes one license, however the run that wrote it ended,   *)
(* with whichever spelling of -out and whichever file it therefore stored, *)
(* and whatever was migrated since - unless the files were changed while   *)
(* the script was reading them (issue-and-store.sh:130-149).               *)
RowsAreWhole ==
  \A id \in Ids \ mixed : rows[id] # Null => Describes(rows[id], id, rows[id].doc)

(* The column expires and the NULL in not_after agree, for old rows after  *)
(* a migration (main.go:177-180), for permanent licenses (93-106) and even *)
(* for mixed rows.                                                         *)
ExpiresTellsNull ==
  layout = "current" =>
    \A id \in Ids : rows[id] # Null => rows[id].expires = (rows[id].notAfter # Null)

(* "done." means that the license this run signed is in the table          *)
(* (issue-and-store.sh:184), unless its files were changed under it, or    *)
(* the script did not understand -out.                                     *)
DoneMeansStored ==
  [][\A p \in Runs :
       /\ pc[p] # "done" /\ pc'[p] = "done"
       /\ signed[p] # Null /\ ~disturbed[p]
       => rows'[signed[p].id] # Null
          /\ Describes(rows'[signed[p].id], signed[p].id, signed[p])]_vars

(* The table is a ledger: no migration and no other run removes a license  *)
(* from it or puts another in its place (main.go:149-191).                 *)
RowsStay ==
  [][\A id \in Ids \ mixed' :
       rows[id] # Null => rows'[id] # Null /\ rows'[id].doc = rows[id].doc]_vars

(* "the migration is safe to re-run" (main.go:183-184), also by two runs   *)
(* at once over a table of any age: once connected, licensedb fails only   *)
(* when a fault has hit it.                                                *)
OnlyFaultsFail ==
  [][\A p \in Runs :
       pc[p] \in AtDatabase \ {"ping"} /\ pc'[p] = "error" => faulted[p]]_vars
=============================================================================
