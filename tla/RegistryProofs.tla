--------------------------- MODULE RegistryProofs ---------------------------
(***************************************************************************)
(* Machine-checked proofs about Registry, for every value of its           *)
(* constants: any number of runs, licenses, orders and machines, and any   *)
(* number of faults.                                                       *)
(***************************************************************************)
EXTENDS Registry, FiniteSetTheorems, TLAPS

USE DEF Time, ZeroTime

-----------------------------------------------------------------------------
(* The places of a run at which it knows what.                             *)
AfterRemark == AtDatabase
AfterDocument == {"remark"} \union AfterRemark
AfterInspect == {"document"} \union AfterDocument
AfterFp == {"inspect"} \union AfterInspect
AfterNotAfter == {"fp"} \union AfterFp
AfterNotBefore == {"notAfter"} \union AfterNotAfter
AfterIssuedAt == {"notBefore"} \union AfterNotBefore
AfterId == {"issuedAt"} \union AfterIssuedAt
AfterWrite == {"id"} \union AfterId

Steps == {"idle", "sign", "write", "done", "error", "fault"} \union AfterWrite

(* What issuer sign makes: notAfter is there exactly if it counts.         *)
Genuine == {lic \in LicenseDoc : lic.expires <=> lic.notAfter # ZeroTime}

(* Whatever a shell variable may hold.                                     *)
Values == Nat \union Ids \union Fingerprints \union LicenseDoc \union {Null}

(* The types, with what each run knows where.                              *)
Files ==
  /\ out \in Genuine \union {NoFile}
  /\ hwFile \in Machines \union {NoFile}

Database ==
  /\ layout \in {"none", "empty", "old", "half", "current"}
  /\ rows \in [Ids -> Row \union {Null}]
  /\ up \in BOOLEAN
  /\ usedIds \subseteq Ids
  /\ upsets \in 0..MaxUpsets
  /\ mixed \subseteq Ids

Locals ==
  /\ pc \in [Runs -> Steps]
  /\ order \in [Runs -> Orders \union {Null}]
  /\ force \in [Runs -> BOOLEAN]
  /\ spelt \in [Runs -> BOOLEAN]
  /\ hw \in [Runs -> Machines \union {Null}]
  /\ signed \in [Runs -> Genuine \union {Null}]
  /\ got \in [Runs -> [Vars -> Values]]
  /\ conn \in [Runs -> {"none", "plain", "used"}]
  /\ disturbed \in [Runs -> BOOLEAN]
  /\ faulted \in [Runs -> BOOLEAN]

Knows(p) ==
  /\ pc[p] \in {"sign", "write"} => order[p] \in Orders
  /\ pc[p] = "write" => hw[p] \in Machines
  /\ pc[p] \in {"idle", "sign", "write"} => signed[p] = Null
  /\ pc[p] \in AfterId => got[p].id \in Ids
  /\ pc[p] \in AfterIssuedAt => got[p].issuedAt \in Time
  /\ pc[p] \in AfterNotBefore => got[p].notBefore \in Time
  /\ pc[p] \in AfterNotAfter => got[p].notAfter \in Time
  /\ pc[p] \in AfterFp => got[p].fp \in Fingerprints
  /\ pc[p] \in AfterInspect => got[p].maxOfflineDays \in Nat
  /\ pc[p] \in AfterDocument => got[p].doc \in Genuine
  /\ pc[p] \in AfterRemark => got[p].remark \in Machines

Typed == Files /\ Database /\ Locals /\ \A p \in Runs : Knows(p)

USE DEF AfterRemark, AfterDocument, AfterInspect, AfterFp, AfterNotAfter,
        AfterNotBefore, AfterIssuedAt, AfterId, AfterWrite, AtDatabase, Reading

-----------------------------------------------------------------------------
LEMMA FieldsAre ==
  /\ DOMAIN Fields = 1..5 /\ Len(Fields) = 5
  /\ Fields[1] = "id" /\ Fields[2] = "issuedAt" /\ Fields[3] = "notBefore"
  /\ Fields[4] = "notAfter" /\ Fields[5] = "fp"
BY DEF Fields

LEMMA FieldsRead ==
  ASSUME NEW i \in DOMAIN Fields
  PROVE  Fields[i] \in {"id", "issuedAt", "notBefore", "notAfter", "fp"}
<1>1. i \in 1..5
  BY FieldsAre
<1>2. i = 1 \/ i = 2 \/ i = 3 \/ i = 4 \/ i = 5
  BY <1>1
<1> QED BY <1>2, FieldsAre

LEMMA FieldsLead ==
  ASSUME NEW i \in DOMAIN Fields
  PROVE  (IF i < Len(Fields) THEN Fields[i + 1] ELSE "inspect")
           \in {"issuedAt", "notBefore", "notAfter", "fp", "inspect"}
<1>1. i \in 1..5
  BY FieldsAre
<1>2. i = 1 \/ i = 2 \/ i = 3 \/ i = 4 \/ i = 5
  BY <1>1
<1> QED BY <1>2, FieldsAre

LEMMA NothingKnown == NoVars \in [Vars -> Values]
BY DEF NoVars, Values

(* A run that ends knows nothing.                                          *)
LEMMA ExitTyped ==
  ASSUME Locals, \A q \in Runs : Knows(q), NEW p \in Runs,
         NEW how \in {"done", "error", "fault"}, Exit(p, how)
  PROVE  Locals' /\ \A q \in Runs : Knows(q)'
<1>1. Locals'
  BY NothingKnown DEF Locals, Exit, ForgetFlags, Goto, Steps
<1>2. ASSUME NEW q \in Runs, q # p PROVE Knows(q)'
  BY <1>2 DEF Locals, Knows, Exit, ForgetFlags, Goto
<1>3. Knows(p)'
  BY DEF Locals, Knows, Exit, ForgetFlags, Goto
<1> QED BY <1>1, <1>2, <1>3

(* What issuer sign makes of an order.                                     *)
LEMMA IssueMakes ==
  ASSUME NEW o \in Orders, NEW m \in Machines, NEW id \in Ids, NEW t \in Nat
  PROVE  /\ Issue(RequestFor(o, m), id, t) \in Genuine
         /\ Issue(RequestFor(o, m), id, t).id = id
         /\ Issue(RequestFor(o, m), id, t).expires = ~o.permanent
         /\ Issue(RequestFor(o, m), id, t).fp = m
         /\ OldRow(Issue(RequestFor(o, m), id, t)).remark = m
<1>1. o \in Order /\ m \in Fingerprints /\ Issuable(RequestFor(o, m))
  BY RegistryAssumption
<1>2. /\ o.permanent \in BOOLEAN /\ o.notBefore \in Nat /\ o.notAfter \in Nat
      /\ o.maxOfflineDays \in Nat
      /\ o.permanent <=> o.notAfter = 0
  BY <1>1 DEF Order, Issuable, RequestFor
<1> DEFINE lic == Issue(RequestFor(o, m), id, t)
           load == [key |-> DeriveKey(m, id), id |-> id, expires |-> ~o.permanent,
                    notAfter |-> o.notAfter, maxOfflineDays |-> o.maxOfflineDays]
<1>3. load \in Payload
  BY <1>1, <1>2 DEF Payload, Key, DeriveKey
<1>4. lic = [version |-> 4, complete |-> TRUE, id |-> id, issuedAt |-> t,
             notBefore |-> IF o.notBefore = 0 THEN t ELSE o.notBefore,
             notAfter |-> o.notAfter, expires |-> ~o.permanent,
             fp |-> m, signed |-> TRUE, payload |-> load]
  BY DEF Issue, RequestFor, FormatVersion
<1>5. lic \in LicenseDoc
  BY <1>1, <1>2, <1>3, <1>4 DEF LicenseDoc
<1> HIDE DEF load
<1>6. lic.id = id /\ lic.expires = ~o.permanent /\ lic.fp = m /\ lic.notAfter = o.notAfter
  BY <1>4
<1> HIDE DEF lic
<1>7. lic \in Genuine /\ OldRow(lic).remark = m
  BY <1>2, <1>5, <1>6 DEF Genuine, OldRow
<1> QED BY <1>6, <1>7 DEF lic

-----------------------------------------------------------------------------
(* Typed is inductive.                                                     *)
LEMMA TypedInit == ASSUME Init PROVE Typed
<1>1. hwFile \in Machines
  BY DEF Init
<1>2. \A id \in Ids : rows[id] # Null => rows[id] \in Row
  <2>1. ASSUME NEW id \in Ids, NEW o \in Orders, ~o.permanent
        PROVE  OldRow(Issue(RequestFor(o, hwFile), id, 1)) \in Row
    <3> DEFINE lic == Issue(RequestFor(o, hwFile), id, 1)
    <3>1. lic \in LicenseDoc /\ lic.fp = hwFile
      BY <1>1, IssueMakes DEF Genuine
    <3> HIDE DEF lic
    <3>2. /\ lic.payload.maxOfflineDays \in Nat
          /\ lic.issuedAt \in Nat /\ lic.notBefore \in Nat /\ lic.notAfter \in Nat
          /\ lic.fp \in Fingerprints
      BY <3>1 DEF LicenseDoc, Payload
    <3>3. OldRow(lic) \in Row
      BY <1>1, <3>1, <3>2 DEF OldRow, Row
    <3> QED BY <3>3 DEF lic
  <2> QED BY <2>1 DEF Init
<1>3. Files /\ Database
  BY <1>1, <1>2, RegistryAssumption DEF Init, Files, Database
<1>4. Locals
  BY NothingKnown DEF Init, Locals, Steps
<1>5. \A p \in Runs : Knows(p)
  BY DEF Init, Knows
<1> QED BY <1>3, <1>4, <1>5 DEF Typed

LEMMA StartTyped ==
  ASSUME Typed, NEW p \in Runs, Start(p) PROVE Typed'
<1> USE DEF Typed
<1>1. (Files /\ Database)'
  BY DEF Files, Database, Start, files, database, counters
<1>2. Locals'
  <2>1. PICK o \in Orders, f \in BOOLEAN, s \in BOOLEAN :
          /\ order' = [order EXCEPT ![p] = o]
          /\ force' = [force EXCEPT ![p] = f]
          /\ spelt' = [spelt EXCEPT ![p] = s]
    BY DEF Start
  <2> QED BY <2>1 DEF Locals, Start, Goto, ghosts, Steps
<1>3. ASSUME NEW q \in Runs PROVE Knows(q)'
  BY DEF Locals, Knows, Start, Goto
<1> QED BY <1>1, <1>2, <1>3

LEMMA SignReadsTyped ==
  ASSUME Typed, NEW p \in Runs, SignReads(p) PROVE Typed'
<1> USE DEF Typed
<1>1. (Files /\ Database)'
  BY DEF Files, Database, SignReads, files, database, counters
<1>2. CASE Exit(p, "error")
  BY <1>1, <1>2, ExitTyped
<1>3. CASE ~Exit(p, "error")
  <2>1. Locals'
    BY <1>3 DEF Files, Locals, SignReads, Goto, flags, ghosts, Steps
  <2>2. ASSUME NEW q \in Runs PROVE Knows(q)'
    BY <1>3 DEF Files, Locals, Knows, SignReads, Goto, flags
  <2> QED BY <1>1, <2>1, <2>2
<1> QED BY <1>2, <1>3

LEMMA SignWritesTyped ==
  ASSUME Typed, NEW p \in Runs, SignWrites(p) PROVE Typed'
<1> USE DEF Typed
<1>1. PICK id \in Ids \ usedIds :
        LET lic == Issue(RequestFor(order[p], hw[p]), id, Cardinality(usedIds) + 1)
        IN  /\ usedIds' = usedIds \union {id}
            /\ IF spelt[p]
                 THEN out' = lic /\ signed' = [signed EXCEPT ![p] = lic] /\ DisturbOthers(p)
                 ELSE UNCHANGED <<out, signed, disturbed>>
  BY DEF SignWrites
<1> DEFINE lic == Issue(RequestFor(order[p], hw[p]), id, Cardinality(usedIds) + 1)
<1>2. lic \in Genuine
  <2>1. order[p] \in Orders /\ hw[p] \in Machines
    BY DEF SignWrites, Knows
  <2>2. Cardinality(usedIds) + 1 \in Nat
    <3>1. IsFiniteSet(usedIds)
      BY RegistryAssumption, FS_Subset DEF Database
    <3> QED BY <3>1, FS_CardinalityType
  <2> QED BY <2>1, <2>2, IssueMakes
<1>3. /\ usedIds' = usedIds \union {id}
      /\ IF spelt[p]
           THEN out' = lic /\ signed' = [signed EXCEPT ![p] = lic] /\ DisturbOthers(p)
           ELSE UNCHANGED <<out, signed, disturbed>>
  BY <1>1
<1> HIDE DEF lic
<1>4. (Files /\ Database)'
  BY <1>2, <1>3 DEF Files, Database, SignWrites, database
<1>5. Locals'
  <2>1. disturbed' \in [Runs -> BOOLEAN]
    BY <1>3 DEF Locals, DisturbOthers
  <2>2. signed' \in [Runs -> Genuine \union {Null}]
    BY <1>2, <1>3 DEF Locals
  <2>3. pc' \in [Runs -> Steps]
    BY FieldsAre DEF Locals, SignWrites, Goto, Steps
  <2> QED BY <2>1, <2>2, <2>3 DEF Locals, SignWrites, ForgetFlags
<1>6. ASSUME NEW q \in Runs PROVE Knows(q)'
  BY <1>2, <1>3, FieldsAre DEF Locals, Knows, SignWrites, ForgetFlags, Goto
<1> QED BY <1>4, <1>5, <1>6

LEMMA GenuineFields ==
  ASSUME NEW lic \in Genuine
  PROVE  /\ lic \in LicenseDoc
         /\ lic.id \in Ids /\ lic.issuedAt \in Nat /\ lic.notBefore \in Nat
         /\ lic.notAfter \in Nat /\ lic.expires \in BOOLEAN /\ lic.fp \in Fingerprints
         /\ lic.payload.maxOfflineDays \in Nat
         /\ lic.expires <=> lic.notAfter # 0
BY DEF Genuine, LicenseDoc, Payload

(* A run reads v into its variable f and goes on to next.                  *)
Learns(p, f, v, next) ==
  /\ got' = [got EXCEPT ![p][f] = v]
  /\ Goto(p, next)
  /\ UNCHANGED <<flags, hw, signed, conn, ghosts>>

LEMMA UpsetTyped ==
  ASSUME upsets \in 0..MaxUpsets, Upset PROVE upsets' \in 0..MaxUpsets
BY RegistryAssumption DEF Upset

LEMMA LearnsTyped ==
  ASSUME Locals, \A q \in Runs : Knows(q),
         NEW p \in Runs, NEW f \in Vars, NEW v \in Values, NEW next \in Steps,
         Learns(p, f, v, next)
  PROVE  /\ Locals'
         /\ \A q \in Runs \ {p} : Knows(q)'
         /\ \A x \in Vars \ {f} : got'[p][x] = got[p][x]
         /\ got'[p][f] = v
         /\ pc'[p] = next
         /\ order'[p] = order[p] /\ hw'[p] = hw[p] /\ signed'[p] = signed[p]
<1>1. got' \in [Runs -> [Vars -> Values]]
  BY DEF Learns, Locals
<1>2. Locals'
  BY <1>1 DEF Learns, Locals, Goto, flags, ghosts
<1>3. ASSUME NEW q \in Runs \ {p} PROVE Knows(q)'
  BY DEF Learns, Locals, Knows, Goto, flags
<1>4. /\ \A x \in Vars \ {f} : got'[p][x] = got[p][x]
      /\ got'[p][f] = v
      /\ pc'[p] = next
      /\ order'[p] = order[p] /\ hw'[p] = hw[p] /\ signed'[p] = signed[p]
  BY DEF Learns, Locals, Goto, flags
<1> QED BY <1>2, <1>3, <1>4

LEMMA JqReadsTyped ==
  ASSUME Typed, NEW p \in Runs, JqReads(p) PROVE Typed'
<1> USE DEF Typed
<1>1. PICK i \in 1..5 :
        /\ pc[p] = Fields[i]
        /\ IF out # NoFile /\ (i = 1 => hwFile # NoFile)
             THEN /\ got' = [got EXCEPT ![p][Fields[i]] = out[Fields[i]]]
                  /\ Goto(p, IF i < 5 THEN Fields[i + 1] ELSE "inspect")
                  /\ UNCHANGED <<flags, hw, signed, conn, ghosts>>
             ELSE Exit(p, "error")
        /\ UNCHANGED <<files, database, counters, mixed>>
  BY FieldsAre DEF JqReads
<1>2. (Files /\ Database)'
  BY <1>1 DEF Files, Database, files, database, counters
<1>3. CASE Exit(p, "error")
  BY <1>2, <1>3, ExitTyped
<1>4. CASE ~Exit(p, "error")
  <2> DEFINE f == Fields[i]
             next == IF i < 5 THEN Fields[i + 1] ELSE "inspect"
  <2>1. /\ out \in Genuine
        /\ got' = [got EXCEPT ![p][f] = out[f]]
        /\ pc' = [pc EXCEPT ![p] = next]
        /\ pc[p] = f
        /\ UNCHANGED <<flags, hw, signed, conn, ghosts>>
    BY <1>1, <1>4 DEF Files, Goto
  <2>2. \/ f = "id" /\ next = "issuedAt"
        \/ f = "issuedAt" /\ next = "notBefore"
        \/ f = "notBefore" /\ next = "notAfter"
        \/ f = "notAfter" /\ next = "fp"
        \/ f = "fp" /\ next = "inspect"
    BY FieldsAre
  <2>3. f \in Vars /\ next \in Steps
    BY <2>2 DEF Vars, Steps
  <2>4. /\ out.id \in Ids /\ out.issuedAt \in Nat /\ out.notBefore \in Nat
        /\ out.notAfter \in Nat /\ out.fp \in Fingerprints
    BY <2>1, GenuineFields
  <2>5. out[f] \in Values
    BY <2>2, <2>4 DEF Values
  <2> HIDE DEF f, next
  <2>6. Learns(p, f, out[f], next)
    BY <2>1 DEF Learns, Goto
  <2>7. /\ Locals' /\ \A q \in Runs \ {p} : Knows(q)'
        /\ \A x \in Vars \ {f} : got'[p][x] = got[p][x]
        /\ got'[p][f] = out[f] /\ pc'[p] = next
    BY <2>3, <2>5, <2>6, LearnsTyped
  <2>8. Knows(p)'
    BY <2>1, <2>2, <2>4, <2>7 DEF Knows, Vars
  <2> QED BY <1>2, <2>7, <2>8
<1> QED BY <1>3, <1>4

LEMMA InspectTyped ==
  ASSUME Typed, NEW p \in Runs, Inspect(p) PROVE Typed'
<1> USE DEF Typed
<1>1. (Files /\ Database)'
  BY DEF Files, Database, Inspect, files, database, counters
<1>2. CASE Exit(p, "error")
  BY <1>1, <1>2, ExitTyped
<1>3. CASE ~Exit(p, "error")
  <2> DEFINE v == out.payload.maxOfflineDays
  <2>1. out \in Genuine /\ pc[p] = "inspect"
    BY <1>3 DEF Files, Inspect
  <2>2. v \in Nat
    BY <2>1, GenuineFields
  <2>3. v \in Values /\ "maxOfflineDays" \in Vars /\ "document" \in Steps
    BY <2>2 DEF Values, Vars, Steps
  <2>4. Learns(p, "maxOfflineDays", v, "document")
    BY <1>3 DEF Inspect, Learns
  <2> HIDE DEF v
  <2>5. /\ Locals' /\ \A q \in Runs \ {p} : Knows(q)'
        /\ \A x \in Vars \ {"maxOfflineDays"} : got'[p][x] = got[p][x]
        /\ got'[p]["maxOfflineDays"] = v /\ pc'[p] = "document"
    BY <2>3, <2>4, LearnsTyped
  <2>6. Knows(p)'
    BY <2>1, <2>2, <2>5 DEF Knows, Vars
  <2> QED BY <1>1, <2>5, <2>6
<1> QED BY <1>2, <1>3

LEMMA ReadWholeTyped ==
  ASSUME Typed, NEW p \in Runs, ReadWhole(p) PROVE Typed'
<1> USE DEF Typed
<1>1. (Files /\ Database)'
  BY DEF Files, Database, ReadWhole, files, database, counters
<1>2. CASE Exit(p, "error")
  BY <1>1, <1>2, ExitTyped
<1>3. CASE pc[p] = "document" /\ out # NoFile /\ Learns(p, "doc", out, "remark")
  <2>1. /\ out \in Genuine /\ out \in Values
        /\ "doc" \in Vars /\ "remark" \in Steps
    BY <1>3 DEF Files, Genuine, Values, Vars, Steps
  <2>2. /\ Locals' /\ \A q \in Runs \ {p} : Knows(q)'
        /\ \A x \in Vars \ {"doc"} : got'[p][x] = got[p][x]
        /\ got'[p]["doc"] = out /\ pc'[p] = "remark"
    BY <1>3, <2>1, LearnsTyped
  <2>3. Knows(p)'
    BY <1>3, <2>1, <2>2 DEF Knows, Vars
  <2> QED BY <1>1, <2>2, <2>3
<1>4. CASE pc[p] = "remark" /\ hwFile # NoFile /\ Learns(p, "remark", hwFile, "ping")
  <2>1. /\ hwFile \in Machines /\ hwFile \in Values
        /\ "remark" \in Vars /\ "ping" \in Steps
    BY <1>4, RegistryAssumption DEF Files, Values, Vars, Steps
  <2>2. /\ Locals' /\ \A q \in Runs \ {p} : Knows(q)'
        /\ \A x \in Vars \ {"remark"} : got'[p][x] = got[p][x]
        /\ got'[p]["remark"] = hwFile /\ pc'[p] = "ping"
    BY <1>4, <2>1, LearnsTyped
  <2>3. Knows(p)'
    BY <1>4, <2>1, <2>2 DEF Knows, Vars
  <2> QED BY <1>1, <2>2, <2>3
<1> QED BY <1>2, <1>3, <1>4 DEF ReadWhole, Learns

-----------------------------------------------------------------------------
(* A statement was executed: p goes on, or fails and knows nothing.        *)
LEMMA ExecutedTyped ==
  ASSUME Locals, \A q \in Runs : Knows(q), upsets \in 0..MaxUpsets,
         NEW p \in Runs, pc[p] \in AtDatabase,
         NEW next \in AtDatabase, NEW c \in {"none", "plain", "used"},
         Executed(p, next, c)
  PROVE  /\ Locals' /\ \A q \in Runs : Knows(q)'
         /\ upsets' \in 0..MaxUpsets
<1>1. CASE AnswerIsLost(p)
  BY <1>1, ExitTyped, UpsetTyped DEF AnswerIsLost
<1>2. CASE /\ Goto(p, next)
           /\ conn' = [conn EXCEPT ![p] = c]
           /\ UNCHANGED <<flags, hw, signed, got, upsets, ghosts>>
  <2>1. Locals'
    BY <1>2 DEF Locals, Goto, Steps, flags, ghosts
  <2>2. ASSUME NEW q \in Runs PROVE Knows(q)'
    BY <1>2 DEF Locals, Knows, Goto, flags
  <2> QED BY <1>2, <2>1, <2>2
<1> QED BY <1>1, <1>2 DEF Executed

LEMMA RefusedTyped ==
  ASSUME Typed, NEW p \in Runs, Refused(p), UNCHANGED <<files, up, usedIds>>
  PROVE  Typed'
<1>1. (Files /\ Database)'
  BY DEF Typed, Files, Database, Refused, files
<1> QED BY <1>1, ExitTyped DEF Typed, Refused

(* The four statements that leave the rows alone or give them a column.    *)
LEMMA CreateDatabaseTyped ==
  ASSUME Typed, NEW p \in Runs, CreateDatabase(p) PROVE Typed'
<1>1. CASE Refused(p)
  BY <1>1, RefusedTyped DEF CreateDatabase
<1>2. CASE ~Refused(p)
  <2>1. /\ pc[p] \in AtDatabase
        /\ layout' \in {layout, "empty"}
        /\ UNCHANGED <<files, up, usedIds, rows, mixed>>
        /\ \/ Executed(p, "create database", "plain")
           \/ Executed(p, "use", Connection(p))
           \/ Executed(p, "create table", "used")
    BY <1>2 DEF CreateDatabase
  <2>2. Connection(p) \in {"none", "plain", "used"}
    BY DEF Typed, Locals, Connection
  <2>3. Locals' /\ (\A q \in Runs : Knows(q)') /\ upsets' \in 0..MaxUpsets
    BY <2>1, <2>2, ExecutedTyped DEF Typed, Database
  <2> QED BY <2>1, <2>3 DEF Typed, Files, Database, files
<1> QED BY <1>1, <1>2

LEMMA CreateTableTyped ==
  ASSUME Typed, NEW p \in Runs, CreateTable(p) PROVE Typed'
<1>1. CASE Refused(p)
  BY <1>1, RefusedTyped DEF CreateTable
<1>2. CASE ~Refused(p)
  <2>1. /\ pc[p] \in AtDatabase
        /\ layout' \in {layout, "current"}
        /\ UNCHANGED <<files, up, usedIds, rows, mixed>>
        /\ Executed(p, "modify", "used")
    BY <1>2 DEF CreateTable
  <2>2. Locals' /\ (\A q \in Runs : Knows(q)') /\ upsets' \in 0..MaxUpsets
    BY <2>1, ExecutedTyped DEF Typed, Database
  <2> QED BY <2>1, <2>2 DEF Typed, Files, Database, files
<1> QED BY <1>1, <1>2

LEMMA ModifyColumnTyped ==
  ASSUME Typed, NEW p \in Runs, ModifyColumn(p) PROVE Typed'
<1>1. CASE Refused(p)
  BY <1>1, RefusedTyped DEF ModifyColumn
<1>2. CASE ~Refused(p)
  <2>1. /\ pc[p] \in AtDatabase
        /\ layout' \in {layout, "half"}
        /\ UNCHANGED <<files, up, usedIds, rows, mixed>>
        /\ Executed(p, "add column", "used")
    BY <1>2 DEF ModifyColumn
  <2>2. Locals' /\ (\A q \in Runs : Knows(q)') /\ upsets' \in 0..MaxUpsets
    BY <2>1, ExecutedTyped DEF Typed, Database
  <2> QED BY <2>1, <2>2 DEF Typed, Files, Database, files
<1> QED BY <1>1, <1>2

LEMMA AddColumnTyped ==
  ASSUME Typed, NEW p \in Runs, AddColumn(p) PROVE Typed'
<1>1. CASE Refused(p)
  BY <1>1, RefusedTyped DEF AddColumn
<1>2. CASE ~Refused(p)
  <2>1. /\ pc[p] \in AtDatabase
        /\ layout' \in {layout, "current"}
        /\ rows' \in {rows, WithColumn(TRUE)}
        /\ UNCHANGED <<files, up, usedIds, mixed>>
        /\ Executed(p, "insert", "used")
    BY <1>2 DEF AddColumn
  <2>2. Locals' /\ (\A q \in Runs : Knows(q)') /\ upsets' \in 0..MaxUpsets
    BY <2>1, ExecutedTyped DEF Typed, Database
  <2>3. WithColumn(TRUE) \in [Ids -> Row \union {Null}]
    <3>1. ASSUME NEW r \in Row PROVE [r EXCEPT !.expires = TRUE] \in Row
      BY DEF Row
    <3> QED BY <3>1 DEF Typed, Database, WithColumn
  <2> QED BY <2>1, <2>2, <2>3 DEF Typed, Files, Database, files
<1> QED BY <1>1, <1>2

LEMMA InsertTyped ==
  ASSUME Typed, NEW p \in Runs, Insert(p) PROVE Typed'
<1>1. CASE Refused(p)
  BY <1>1, RefusedTyped DEF Insert
<1>2. CASE ~Refused(p)
  <2>1. /\ pc[p] = "insert"
        /\ rows' = [rows EXCEPT ![got[p].id] = RowOf(got[p])]
        /\ mixed' = IF disturbed[p] THEN mixed \union {got[p].id} ELSE mixed
        /\ \/ Exit(p, "done") /\ UNCHANGED upsets
           \/ AnswerIsLost(p)
        /\ UNCHANGED <<files, up, usedIds, layout>>
    BY <1>2 DEF Insert
  <2>2. RowOf(got[p]) \in Row /\ got[p].id \in Ids
    <3>1. /\ got[p].id \in Ids /\ got[p].issuedAt \in Nat /\ got[p].notBefore \in Nat
          /\ got[p].notAfter \in Nat /\ got[p].fp \in Fingerprints
          /\ got[p].maxOfflineDays \in Nat /\ got[p].doc \in LicenseDoc
          /\ got[p].remark \in Machines
      BY <2>1 DEF Typed, Knows, Genuine
    <3> QED BY <3>1 DEF RowOf, Row
  <2>3. Locals' /\ (\A q \in Runs : Knows(q)') /\ upsets' \in 0..MaxUpsets
    BY <2>1, ExitTyped, UpsetTyped DEF Typed, Database, AnswerIsLost
  <2>4. rows' \in [Ids -> Row \union {Null}] /\ mixed' \subseteq Ids
    BY <2>1, <2>2 DEF Typed, Database
  <2> QED BY <2>1, <2>3, <2>4 DEF Typed, Files, Database, files
<1> QED BY <1>1, <1>2

LEMMA FaultsTyped ==
  ASSUME Typed,
         \/ DatabaseGoesDown \/ DatabaseComesUp \/ ReplaceFiles
         \/ \E p \in Runs : ConnectionIsLost(p) \/ Kill(p)
  PROVE  Typed'
<1> USE DEF Typed
<1>1. CASE DatabaseGoesDown
  <2>1. (Files /\ Database)'
    BY <1>1, UpsetTyped DEF DatabaseGoesDown, Files, Database, files
  <2>2. Locals'
    BY <1>1 DEF DatabaseGoesDown, Locals, flags
  <2>3. ASSUME NEW q \in Runs PROVE Knows(q)'
    BY <1>1 DEF DatabaseGoesDown, Knows, flags
  <2> QED BY <2>1, <2>2, <2>3
<1>2. CASE DatabaseComesUp
  <2>1. (Files /\ Database)'
    BY <1>2 DEF DatabaseComesUp, Files, Database, files, counters
  <2>2. Locals'
    BY <1>2 DEF DatabaseComesUp, Locals, locals, ghosts
  <2>3. ASSUME NEW q \in Runs PROVE Knows(q)'
    BY <1>2 DEF DatabaseComesUp, Knows, locals
  <2> QED BY <2>1, <2>2, <2>3
<1>3. CASE ReplaceFiles
  <2>1. (Files /\ Database)'
    BY <1>3, UpsetTyped DEF ReplaceFiles, Files, Database, database
  <2>2. Locals'
    BY <1>3 DEF ReplaceFiles, Locals, locals
  <2>3. ASSUME NEW q \in Runs PROVE Knows(q)'
    BY <1>3 DEF ReplaceFiles, Knows, locals
  <2> QED BY <2>1, <2>2, <2>3
<1>4. ASSUME NEW p \in Runs, ConnectionIsLost(p) PROVE Typed'
  <2>1. (Files /\ Database)'
    BY <1>4, UpsetTyped DEF ConnectionIsLost, Files, Database, files, database
  <2>2. Locals'
    BY <1>4 DEF ConnectionIsLost, Locals, flags
  <2>3. ASSUME NEW q \in Runs PROVE Knows(q)'
    BY <1>4 DEF ConnectionIsLost, Knows, flags
  <2> QED BY <2>1, <2>2, <2>3
<1>5. ASSUME NEW p \in Runs, Kill(p) PROVE Typed'
  <2>1. (Files /\ Database)'
    BY <1>5, UpsetTyped DEF Kill, Files, Database, files, database
  <2> QED BY <1>5, <2>1, ExitTyped DEF Kill
<1> QED BY <1>1, <1>2, <1>3, <1>4, <1>5

LEMMA TypedNext == ASSUME Typed, [Next]_vars PROVE Typed'
<1>1. CASE UNCHANGED vars
  <2>1. (Files /\ Database /\ Locals)'
    BY <1>1 DEF vars, Typed, Files, Database, Locals
  <2>2. ASSUME NEW q \in Runs PROVE Knows(q)'
    BY <1>1 DEF vars, Typed, Knows
  <2> QED BY <2>1, <2>2 DEF Typed
<1>2. ASSUME NEW p \in Runs, Script(p) PROVE Typed'
  BY <1>2, StartTyped, SignReadsTyped, SignWritesTyped, JqReadsTyped, InspectTyped,
     ReadWholeTyped DEF Script
<1>3. ASSUME NEW p \in Runs, Store(p) PROVE Typed'
  BY <1>3, CreateDatabaseTyped, CreateTableTyped, ModifyColumnTyped, AddColumnTyped,
     InsertTyped DEF Store
<1> QED BY <1>1, <1>2, <1>3, FaultsTyped DEF Next

LEMMA TypedImplies == Typed => TypeOK
<1> SUFFICES ASSUME Typed PROVE TypeOK
  OBVIOUS
<1>1. ASSUME NEW p \in Runs, pc[p] \in AtDatabase
      PROVE  got[p].id \in Ids /\ RowOf(got[p]) \in Row
  <2>1. /\ got[p].id \in Ids /\ got[p].issuedAt \in Nat /\ got[p].notBefore \in Nat
        /\ got[p].notAfter \in Nat /\ got[p].fp \in Fingerprints
        /\ got[p].maxOfflineDays \in Nat /\ got[p].doc \in LicenseDoc
        /\ got[p].remark \in Machines
    BY <1>1 DEF Typed, Knows, Genuine
  <2> QED BY <2>1 DEF RowOf, Row
<1>2. pc \in [Runs -> {"idle", "sign", "done", "error", "fault"} \union Reading \union AtDatabase]
  BY DEF Typed, Locals, Steps
<1> QED BY <1>1, <1>2 DEF TypeOK, Typed, Files, Database, Locals, Genuine

(* The script's runs and the table keep their types.                       *)
THEOREM TypeCorrect == Spec => []TypeOK
<1>1. Spec => []Typed
  BY TypedInit, TypedNext, PTL DEF Spec
<1> QED BY <1>1, TypedImplies, PTL

-----------------------------------------------------------------------------
(* A run's own steps leave the others alone, but for their disturbance.    *)
Untouched(q) ==
  /\ pc'[q] = pc[q] /\ conn'[q] = conn[q] /\ got'[q] = got[q]
  /\ signed'[q] = signed[q] /\ faulted'[q] = faulted[q]
  /\ disturbed[q] => disturbed'[q]

LEMMA OthersStay ==
  ASSUME Typed, NEW p \in Runs, Script(p) \/ Store(p), NEW q \in Runs, q # p
  PROVE  Untouched(q) /\ up' = up
<1> USE DEF Typed, Locals, Untouched
<1>1. ASSUME NEW how, Exit(p, how) PROVE Untouched(q)
  BY <1>1 DEF Exit, Goto
<1>2. ASSUME NEW next, NEW c, Executed(p, next, c) PROVE Untouched(q)
  BY <1>1, <1>2 DEF Executed, AnswerIsLost, Goto, flags, ghosts
<1>3. CASE Start(p)
  BY <1>3 DEF Start, Goto, database, ghosts
<1>4. CASE SignReads(p)
  BY <1>4, <1>1 DEF SignReads, Goto, database, ghosts
<1>5. CASE SignWrites(p)
  <2>1. /\ Goto(p, Fields[1]) /\ UNCHANGED <<got, conn, faulted, up>>
        /\ disturbed' = disturbed \/ DisturbOthers(p)
        /\ \/ UNCHANGED signed
           \/ \E lic : signed' = [signed EXCEPT ![p] = lic]
    BY <1>5 DEF SignWrites, database
  <2> QED BY <2>1 DEF Goto, DisturbOthers
<1>6. CASE JqReads(p)
  <2>1. PICK i \in DOMAIN Fields :
          /\ IF out # NoFile /\ (i = 1 => hwFile # NoFile)
               THEN /\ got' = [got EXCEPT ![p][Fields[i]] = out[Fields[i]]]
                    /\ Goto(p, IF i < Len(Fields) THEN Fields[i + 1] ELSE "inspect")
                    /\ UNCHANGED <<flags, hw, signed, conn, ghosts>>
               ELSE Exit(p, "error")
          /\ UNCHANGED up
    BY <1>6 DEF JqReads, database
  <2> QED BY <1>1, <2>1 DEF Goto, ghosts
<1>7. CASE Inspect(p)
  BY <1>7, <1>1 DEF Inspect, Goto, database, ghosts
<1>8. CASE ReadWhole(p)
  BY <1>8, <1>1 DEF ReadWhole, Goto, database, ghosts
<1>9. CASE CreateDatabase(p)
  BY <1>9, <1>1, <1>2 DEF CreateDatabase, Refused
<1>10. CASE CreateTable(p)
  BY <1>10, <1>1, <1>2 DEF CreateTable, Refused
<1>11. CASE ModifyColumn(p)
  BY <1>11, <1>1, <1>2 DEF ModifyColumn, Refused
<1>12. CASE AddColumn(p)
  BY <1>12, <1>1, <1>2 DEF AddColumn, Refused
<1>13. CASE Insert(p)
  BY <1>13, <1>1 DEF Insert, Refused, AnswerIsLost
<1> QED BY <1>3, <1>4, <1>5, <1>6, <1>7, <1>8, <1>9, <1>10, <1>11, <1>12, <1>13
        DEF Script, Store

(* No step takes a table back to an earlier layout.                        *)
Ages ==
  \/ layout' = layout
  \/ layout = "none" /\ layout' = "empty"
  \/ layout = "old" /\ layout' = "half"
  \/ layout \in {"empty", "old", "half"} /\ layout' = "current"

LEMMA LayoutAges == ASSUME [Next]_vars PROVE Ages
<1> USE DEF Ages
<1>1. ASSUME NEW p \in Runs, Script(p) PROVE layout' = layout
  BY <1>1 DEF Script, Start, SignReads, SignWrites, JqReads, Inspect, ReadWhole, database
<1>2. ASSUME NEW p \in Runs, Store(p) PROVE Ages
  BY <1>2 DEF Store, CreateDatabase, CreateTable, ModifyColumn, AddColumn, Insert, Refused
<1>3. ASSUME DatabaseGoesDown \/ DatabaseComesUp \/ ReplaceFiles PROVE layout' = layout
  BY <1>3 DEF DatabaseGoesDown, DatabaseComesUp, ReplaceFiles, database
<1>4. ASSUME NEW p \in Runs, ConnectionIsLost(p) \/ Kill(p) PROVE layout' = layout
  BY <1>4 DEF ConnectionIsLost, Kill, database
<1>5. CASE UNCHANGED vars
  BY <1>5 DEF vars
<1> QED BY <1>1, <1>2, <1>3, <1>4, <1>5 DEF Next

-----------------------------------------------------------------------------
(* How far a run that is at the database has brought it, and what it has   *)
(* in hand if no fault has hit it.                                         *)
Prepared(p) ==
  /\ pc[p] \in {"use", "create table", "modify", "add column", "insert"} => layout # "none"
  /\ pc[p] \in {"modify", "add column", "insert"} => layout \notin {"none", "empty"}
  /\ pc[p] \in {"add column", "insert"} => layout \in {"half", "current"}
  /\ pc[p] = "insert" => layout = "current"

Connected(p) ==
  ~faulted[p] =>
    /\ pc[p] \in AtDatabase \ {"ping"} => up
    /\ pc[p] \in {"create table", "modify", "add column", "insert"} => conn[p] = "used"

Migrated == \A p \in Runs : Prepared(p) /\ Connected(p)

LEMMA MigratedInit == ASSUME Init PROVE Migrated
BY DEF Init, Migrated, Prepared, Connected

(* Wherever a run ends, or goes on before the database, there is nothing   *)
(* to show.                                                                *)
LEMMA ExitMigrated ==
  ASSUME Typed, NEW p \in Runs, NEW how \in {"done", "error", "fault"}, Exit(p, how)
  PROVE  (Prepared(p) /\ Connected(p))'
BY DEF Typed, Locals, Exit, Goto, Prepared, Connected

LEMMA ScriptMigrated ==
  ASSUME Typed, Migrated, NEW p \in Runs, Script(p)
  PROVE  (Prepared(p) /\ Connected(p))'
<1>1. pc'[p] \notin AtDatabase \/ pc'[p] = "ping"
  <2>1. ASSUME NEW how \in {"done", "error", "fault"}, Exit(p, how)
        PROVE  pc'[p] \notin AtDatabase
    BY <2>1 DEF Typed, Locals, Exit, Goto
  <2>2. CASE JqReads(p)
    <3>1. PICK i \in DOMAIN Fields :
            \/ Goto(p, IF i < Len(Fields) THEN Fields[i + 1] ELSE "inspect")
            \/ Exit(p, "error")
      BY <2>2 DEF JqReads
    <3>2. CASE Goto(p, IF i < Len(Fields) THEN Fields[i + 1] ELSE "inspect")
      BY <3>2, FieldsLead DEF Typed, Locals, Goto
    <3> QED BY <2>1, <3>1, <3>2
  <2>3. CASE SignWrites(p)
    BY <2>3, FieldsAre DEF Typed, Locals, SignWrites, Goto
  <2>4. CASE Start(p) \/ SignReads(p) \/ Inspect(p) \/ ReadWhole(p)
    BY <2>1, <2>4 DEF Typed, Locals, Start, SignReads, Inspect, ReadWhole, Goto
  <2> QED BY <2>2, <2>3, <2>4 DEF Script
<1> QED BY <1>1 DEF Prepared, Connected

LEMMA StoreMigrated ==
  ASSUME Typed, Migrated, NEW p \in Runs, Store(p)
  PROVE  (Prepared(p) /\ Connected(p))'
<1> USE DEF Typed, Locals
<1>1. CASE \E how \in {"done", "error", "fault"} : Exit(p, how)
  BY <1>1, ExitMigrated
<1>2. CASE ~\E how \in {"done", "error", "fault"} : Exit(p, how)
  <2>1. CASE CreateDatabase(p)
    <3>1. ~Refused(p) /\ ~AnswerIsLost(p)
      BY <1>2 DEF Refused, AnswerIsLost
    <3>2. /\ up /\ up' = up
          /\ \/ Goto(p, "create database") /\ layout' = layout
             \/ Goto(p, "use") /\ layout' = IF layout = "none" THEN "empty" ELSE layout
             \/ /\ Goto(p, "create table") /\ layout' = layout
                /\ conn' = [conn EXCEPT ![p] = "used"] /\ pc[p] = "use"
      BY <2>1, <3>1 DEF CreateDatabase, Executed
    <3> QED BY <3>2 DEF Goto, Prepared, Connected, Migrated
  <2>2. CASE CreateTable(p)
    <3>1. ~Refused(p) /\ ~AnswerIsLost(p)
      BY <1>2 DEF Refused, AnswerIsLost
    <3>2. /\ up /\ up' = up /\ pc[p] = "create table"
          /\ Goto(p, "modify") /\ conn' = [conn EXCEPT ![p] = "used"]
          /\ layout' = IF layout = "empty" THEN "current" ELSE layout
      BY <2>2, <3>1 DEF CreateTable, Executed, CanQuery
    <3> QED BY <3>2 DEF Goto, Prepared, Connected, Migrated
  <2>3. CASE ModifyColumn(p)
    <3>1. ~Refused(p) /\ ~AnswerIsLost(p)
      BY <1>2 DEF Refused, AnswerIsLost
    <3>2. /\ up /\ up' = up /\ pc[p] = "modify"
          /\ Goto(p, "add column") /\ conn' = [conn EXCEPT ![p] = "used"]
          /\ layout' = IF layout = "old" THEN "half" ELSE layout
      BY <2>3, <3>1 DEF ModifyColumn, Executed, CanQuery
    <3> QED BY <3>2 DEF Goto, Prepared, Connected, Migrated, Database
  <2>4. CASE AddColumn(p)
    <3>1. ~Refused(p) /\ ~AnswerIsLost(p)
      BY <1>2 DEF Refused, AnswerIsLost
    <3>2. /\ up /\ up' = up /\ pc[p] = "add column"
          /\ Goto(p, "insert") /\ conn' = [conn EXCEPT ![p] = "used"]
          /\ layout' = IF layout \in {"old", "half"} THEN "current" ELSE layout
      BY <2>4, <3>1 DEF AddColumn, Executed, CanQuery
    <3> QED BY <3>2 DEF Goto, Prepared, Connected, Migrated
  <2>5. CASE Insert(p)
    BY <1>2, <2>5 DEF Insert, Refused, AnswerIsLost
  <2> QED BY <2>1, <2>2, <2>3, <2>4, <2>5 DEF Store
<1> QED BY <1>1, <1>2

LEMMA MigratedNext ==
  ASSUME Typed, Migrated, [Next]_vars PROVE Migrated'
<1>1. Ages
  BY LayoutAges
<1>2. ASSUME NEW q \in Runs, Untouched(q), up' = up PROVE (Prepared(q) /\ Connected(q))'
  BY <1>1, <1>2 DEF Ages, Untouched, Migrated, Prepared, Connected
<1>3. ASSUME NEW p \in Runs, Script(p) \/ Store(p) PROVE Migrated'
  BY <1>2, <1>3, OthersStay, ScriptMigrated, StoreMigrated DEF Migrated
<1>4. CASE DatabaseGoesDown
  BY <1>4 DEF DatabaseGoesDown, Typed, Locals, Migrated, Prepared, Connected
<1>5. CASE DatabaseComesUp
  BY <1>5 DEF DatabaseComesUp, locals, ghosts, Migrated, Prepared, Connected
<1>6. CASE ReplaceFiles
  BY <1>6 DEF ReplaceFiles, locals, database, Migrated, Prepared, Connected
<1>7. ASSUME NEW p \in Runs, ConnectionIsLost(p) PROVE Migrated'
  BY <1>7 DEF ConnectionIsLost, database, Typed, Locals, Migrated, Prepared, Connected
<1>8. ASSUME NEW p \in Runs, Kill(p) PROVE Migrated'
  <2>1. ASSUME NEW q \in Runs, q # p PROVE Untouched(q) /\ up' = up
    BY <1>8, <2>1 DEF Kill, Exit, Goto, database, Typed, Locals, Untouched
  <2> QED BY <1>2, <1>8, <2>1, ExitMigrated DEF Kill, Migrated
<1>9. CASE UNCHANGED vars
  BY <1>9 DEF vars, Migrated, Prepared, Connected
<1> QED BY <1>3, <1>4, <1>5, <1>6, <1>7, <1>8, <1>9 DEF Next

LEMMA OnlyFaultsEnd ==
  ASSUME Typed, Migrated, [Next]_vars, NEW p \in Runs,
         pc[p] \in AtDatabase \ {"ping"}, pc'[p] = "error"
  PROVE  faulted[p]
<1> USE DEF Typed, Locals
<1>1. CASE Script(p)
  <2>1. ~JqReads(p)
    BY FieldsRead DEF JqReads
  <2> QED BY <1>1, <2>1 DEF Script, Start, SignReads, SignWrites, Inspect, ReadWhole
<1>2. CASE Store(p)
  <2>1. CASE Refused(p)
    <3>1. \/ ~up
          \/ /\ pc[p] \in {"create table", "modify", "add column", "insert"}
             /\ conn[p] # "used"
          \/ pc[p] = "insert" /\ layout # "current"
      <4>1. ASSUME NEW how \in {"done", "fault"} PROVE ~Exit(p, how)
        BY DEF Exit, Goto
      <4>2. ASSUME NEW next \in AtDatabase, NEW c PROVE ~Executed(p, next, c)
        BY <4>1 DEF Executed, AnswerIsLost, Goto
      <4>3. CASE CreateDatabase(p)
        BY <4>2, <4>3 DEF CreateDatabase
      <4>4. CASE CreateTable(p)
        BY <4>2, <4>4 DEF CreateTable, CanQuery, Connection
      <4>5. CASE ModifyColumn(p)
        BY <4>2, <4>5 DEF ModifyColumn, CanQuery, Connection
      <4>6. CASE AddColumn(p)
        BY <4>2, <4>6 DEF AddColumn, CanQuery, Connection
      <4>7. CASE Insert(p)
        BY <4>1, <4>7 DEF Insert, AnswerIsLost, CanQuery, Connection
      <4> QED BY <1>2, <4>3, <4>4, <4>5, <4>6, <4>7 DEF Store
    <3> QED BY <3>1 DEF Migrated, Prepared, Connected
  <2>2. CASE ~Refused(p)
    <3>1. ASSUME NEW how \in {"done", "fault"} PROVE ~Exit(p, how)
      BY DEF Exit, Goto
    <3>2. ASSUME NEW next \in AtDatabase, NEW c PROVE ~Executed(p, next, c)
      BY <3>1 DEF Executed, AnswerIsLost, Goto
    <3> QED BY <1>2, <2>2, <3>1, <3>2 DEF Store, CreateDatabase, CreateTable, ModifyColumn,
            AddColumn, Insert, AnswerIsLost
  <2> QED BY <2>1, <2>2
<1>3. ASSUME pc'[p] = pc[p] PROVE FALSE
  BY <1>3
<1>4. ASSUME NEW q \in Runs, q # p, Script(q) \/ Store(q) PROVE FALSE
  BY <1>3, <1>4, OthersStay DEF Untouched
<1>5. ASSUME NEW q \in Runs, ConnectionIsLost(q) \/ Kill(q) PROVE FALSE
  BY <1>5 DEF ConnectionIsLost, Kill, Exit, Goto
<1>6. CASE DatabaseGoesDown \/ DatabaseComesUp \/ ReplaceFiles \/ UNCHANGED vars
  BY <1>6 DEF DatabaseGoesDown, DatabaseComesUp, ReplaceFiles, locals, vars
<1> QED BY <1>1, <1>2, <1>4, <1>5, <1>6 DEF Next

(* However many runs migrate a table of whatever age at once, a run that   *)
(* is connected fails only when a fault has hit it.                        *)
THEOREM OnlyFaultsEverFail == Spec => OnlyFaultsFail
<1>1. Spec => [](Typed /\ Migrated)
  <2>1. Typed /\ Migrated /\ [Next]_vars => (Typed /\ Migrated)'
    BY TypedNext, MigratedNext
  <2> QED BY TypedInit, MigratedInit, <2>1, PTL DEF Spec
<1>2. ASSUME Typed, Migrated, [Next]_vars
      PROVE  \A p \in Runs :
               pc[p] \in AtDatabase \ {"ping"} /\ pc'[p] = "error" => faulted[p]
  BY <1>2, OnlyFaultsEnd
<1>3. Typed /\ Migrated /\ [Next]_vars =>
        [\A p \in Runs :
           pc[p] \in AtDatabase \ {"ping"} /\ pc'[p] = "error" => faulted[p]]_vars
  BY <1>2
<1> QED BY <1>1, <1>3, PTL DEF Spec, OnlyFaultsFail

-----------------------------------------------------------------------------
(* What can happen to the table in a step: nothing but its age, the new    *)
(* column, or a row.                                                       *)
Grown ==
  \/ layout' = layout
  \/ layout = "none" /\ layout' = "empty"
  \/ layout = "empty" /\ layout' = "current"
  \/ layout = "old" /\ layout' = "half"

Widened ==
  /\ layout \in {"old", "half"} /\ layout' = "current"
  /\ rows' = WithColumn(TRUE)

Inserted(p) ==
  /\ pc[p] = "insert" /\ layout = "current" /\ layout' = layout
  /\ rows' = [rows EXCEPT ![got[p].id] = RowOf(got[p])]
  /\ mixed' = IF disturbed[p] THEN mixed \union {got[p].id} ELSE mixed

LEMMA RowsStep ==
  ASSUME [Next]_vars
  PROVE  \/ rows' = rows /\ mixed' = mixed /\ Grown
         \/ mixed' = mixed /\ Widened
         \/ \E p \in Runs : Inserted(p)
<1> USE DEF Grown
<1>1. ASSUME NEW p \in Runs, Script(p)
      PROVE  rows' = rows /\ mixed' = mixed /\ layout' = layout
  BY <1>1 DEF Script, Start, SignReads, SignWrites, JqReads, Inspect, ReadWhole, database
<1>2. ASSUME NEW p \in Runs, Store(p)
      PROVE  \/ rows' = rows /\ mixed' = mixed /\ Grown
             \/ mixed' = mixed /\ Widened
             \/ Inserted(p)
  <2>1. CASE CreateDatabase(p) \/ CreateTable(p) \/ ModifyColumn(p)
    BY <2>1 DEF CreateDatabase, CreateTable, ModifyColumn, Refused
  <2>2. CASE AddColumn(p)
    BY <2>2 DEF AddColumn, Refused, Widened
  <2>3. CASE Insert(p)
    BY <2>3 DEF Insert, Refused, Inserted
  <2> QED BY <1>2, <2>1, <2>2, <2>3 DEF Store
<1>3. ASSUME DatabaseGoesDown \/ DatabaseComesUp \/ ReplaceFiles
      PROVE  rows' = rows /\ mixed' = mixed /\ layout' = layout
  BY <1>3 DEF DatabaseGoesDown, DatabaseComesUp, ReplaceFiles, database
<1>4. ASSUME NEW p \in Runs, ConnectionIsLost(p) \/ Kill(p)
      PROVE  rows' = rows /\ mixed' = mixed /\ layout' = layout
  BY <1>4 DEF ConnectionIsLost, Kill, database
<1>5. CASE UNCHANGED vars
  BY <1>5 DEF vars
<1> QED BY <1>1, <1>2, <1>3, <1>4, <1>5 DEF Next

(* The rows fit the layout: before the column expires there are only       *)
(* licenses that end.                                                      *)
RowsFit ==
  /\ layout \in {"none", "empty"} => \A id \in Ids : rows[id] = Null
  /\ layout \in {"old", "half"} =>
       \A id \in Ids : rows[id] # Null => rows[id].notAfter # Null
  /\ ExpiresTellsNull

LEMMA NullIsNoRow ==
  /\ \A row \in Row : row # Null
  /\ \A n \in Nat : n # Null
  /\ \A b \in BOOLEAN : b # Null
  /\ \A lic \in LicenseDoc : lic # Null
BY RegistryAssumption

LEMMA RowsFitInit == ASSUME Init PROVE RowsFit
<1>1. layout # "current"
  BY DEF Init
<1>2. ASSUME NEW id \in Ids, rows[id] # Null, layout \notin {"none", "empty"}
      PROVE  rows[id].notAfter # Null
  <2>1. PICK o \in Orders, i \in Ids : rows[id] = OldRow(Issue(RequestFor(o, hwFile), i, 1))
    BY <1>2 DEF Init
  <2>2. Issue(RequestFor(o, hwFile), i, 1) \in Genuine
    BY IssueMakes DEF Init
  <2>3. rows[id].notAfter \in Nat
    BY <2>1, <2>2, GenuineFields DEF OldRow
  <2> QED BY <2>3, NullIsNoRow
<1>3. layout \in {"none", "empty"} => \A id \in Ids : rows[id] = Null
  BY DEF Init
<1> QED BY <1>1, <1>2, <1>3 DEF RowsFit, ExpiresTellsNull

(* What the step of Insert writes.                                         *)
LEMMA InsertedRow ==
  ASSUME Typed, NEW p \in Runs, Inserted(p)
  PROVE  /\ got[p].id \in Ids
         /\ rows' \in [Ids -> Row \union {Null}]
         /\ rows'[got[p].id] = RowOf(got[p])
         /\ RowOf(got[p]) \in Row
         /\ \A id \in Ids \ {got[p].id} : rows'[id] = rows[id]
         /\ got[p].notAfter \in Nat
<1>1. /\ got[p].id \in Ids /\ got[p].issuedAt \in Nat /\ got[p].notBefore \in Nat
      /\ got[p].notAfter \in Nat /\ got[p].fp \in Fingerprints
      /\ got[p].maxOfflineDays \in Nat /\ got[p].doc \in LicenseDoc
      /\ got[p].remark \in Machines
  BY DEF Inserted, Typed, Knows, Genuine
<1>2. RowOf(got[p]) \in Row
  BY <1>1 DEF RowOf, Row
<1> QED BY <1>1, <1>2 DEF Inserted, Typed, Database

LEMMA RowsFitNext == ASSUME Typed, RowsFit, [Next]_vars PROVE RowsFit'
<1>1. CASE rows' = rows /\ Grown
  BY <1>1 DEF Grown, RowsFit, ExpiresTellsNull
<1>2. CASE Widened
  <2>1. ASSUME NEW id \in Ids, rows'[id] # Null
        PROVE  rows'[id].expires = (rows'[id].notAfter # Null)
    <3>1. /\ rows[id] # Null /\ rows[id] \in Row
          /\ rows'[id] = [rows[id] EXCEPT !.expires = TRUE]
      BY <1>2, <2>1 DEF Widened, WithColumn, Typed, Database
    <3>2. rows'[id].expires = TRUE /\ rows'[id].notAfter = rows[id].notAfter
      BY <3>1 DEF Row
    <3>3. rows[id].notAfter # Null
      BY <1>2, <3>1 DEF Widened, RowsFit
    <3> QED BY <3>2, <3>3
  <2> QED BY <1>2, <2>1 DEF Widened, RowsFit, ExpiresTellsNull
<1>3. ASSUME NEW p \in Runs, Inserted(p) PROVE RowsFit'
  <2>1. RowOf(got[p]).expires = (RowOf(got[p]).notAfter # Null)
    BY <1>3, InsertedRow, NullIsNoRow DEF RowOf
  <2>2. layout = "current" /\ layout' = "current"
    BY <1>3 DEF Inserted
  <2>3. ASSUME NEW id \in Ids, rows'[id] # Null
        PROVE  rows'[id].expires = (rows'[id].notAfter # Null)
    BY <1>3, <2>1, <2>2, <2>3, InsertedRow DEF RowsFit, ExpiresTellsNull
  <2> QED BY <2>2, <2>3 DEF RowsFit, ExpiresTellsNull
<1> QED BY <1>1, <1>2, <1>3, RowsStep

(* In a table with the column expires, it and the NULL in not_after agree, *)
(* for rows from before the migration, permanent licenses and mixed rows.  *)
THEOREM ExpiresAlwaysTellsNull == Spec => []ExpiresTellsNull
<1>1. Spec => [](Typed /\ RowsFit)
  <2>1. Typed /\ RowsFit /\ [Next]_vars => (Typed /\ RowsFit)'
    BY TypedNext, RowsFitNext
  <2> QED BY TypedInit, RowsFitInit, <2>1, PTL DEF Spec
<1> QED BY <1>1, PTL DEF RowsFit

-----------------------------------------------------------------------------
(* What a run that nobody has disturbed has read is all of the license     *)
(* lic: what is in the file while it reads, and later its own copy.        *)
ReadSoFar(p, lic) ==
  /\ signed[p] \in {lic, Null}
  /\ pc[p] \in AfterId => got[p].id = lic.id
  /\ pc[p] \in AfterIssuedAt => got[p].issuedAt = lic.issuedAt
  /\ pc[p] \in AfterNotBefore => got[p].notBefore = lic.notBefore
  /\ pc[p] \in AfterNotAfter => got[p].notAfter = lic.notAfter
  /\ pc[p] \in AfterFp => got[p].fp = lic.fp
  /\ pc[p] \in AfterInspect => got[p].maxOfflineDays = lic.payload.maxOfflineDays
  /\ pc[p] \in AfterDocument => got[p].doc = lic
  /\ pc[p] \in AfterRemark => got[p].remark = lic.fp

Undisturbed(p) ==
  ~disturbed[p] =>
    /\ pc[p] \in Reading \ {"write"} =>
         /\ ReadSoFar(p, out)
         /\ pc[p] \in {"document", "remark"} => hwFile = out.fp
    /\ pc[p] \in AtDatabase => ReadSoFar(p, got[p].doc)

(* A run whose files stay, or which is disturbed if they do not.           *)
LEMMA UntouchedStays ==
  ASSUME Typed, NEW q \in Runs, Undisturbed(q), Untouched(q),
         UNCHANGED files \/ (pc[q] \in Reading => disturbed'[q])
  PROVE  Undisturbed(q)'
<1>1. CASE pc[q] \in Reading /\ UNCHANGED files
  BY <1>1 DEF Undisturbed, ReadSoFar, Untouched, files
<1>2. CASE pc[q] \in Reading /\ disturbed'[q]
  BY <1>2 DEF Undisturbed, Untouched
<1>3. CASE pc[q] \notin Reading
  BY <1>3 DEF Undisturbed, ReadSoFar, Untouched
<1> QED BY <1>1, <1>2, <1>3

LEMMA ExitUndisturbed ==
  ASSUME Typed, NEW p \in Runs, NEW how \in {"done", "error", "fault"}, Exit(p, how)
  PROVE  Undisturbed(p)'
BY DEF Typed, Locals, Exit, Goto, Undisturbed

LEMMA JqReadsUndisturbed ==
  ASSUME Typed, NEW p \in Runs, Undisturbed(p), JqReads(p)
  PROVE  Undisturbed(p)'
<1>1. PICK i \in 1..5 :
        /\ pc[p] = Fields[i]
        /\ IF out # NoFile /\ (i = 1 => hwFile # NoFile)
             THEN /\ got' = [got EXCEPT ![p][Fields[i]] = out[Fields[i]]]
                  /\ Goto(p, IF i < 5 THEN Fields[i + 1] ELSE "inspect")
                  /\ UNCHANGED <<flags, hw, signed, conn, ghosts>>
             ELSE Exit(p, "error")
        /\ UNCHANGED files
  BY FieldsAre DEF JqReads
<1>2. CASE Exit(p, "error")
  BY <1>2, ExitUndisturbed
<1>3. CASE ~Exit(p, "error")
  <2> DEFINE f == Fields[i]
             next == IF i < 5 THEN Fields[i + 1] ELSE "inspect"
  <2>1. \/ f = "id" /\ next = "issuedAt"
        \/ f = "issuedAt" /\ next = "notBefore"
        \/ f = "notBefore" /\ next = "notAfter"
        \/ f = "notAfter" /\ next = "fp"
        \/ f = "fp" /\ next = "inspect"
    BY FieldsAre
  <2>2. f \in Vars
    BY <2>1 DEF Vars
  <2>3. /\ got' = [got EXCEPT ![p][f] = out[f]]
        /\ pc' = [pc EXCEPT ![p] = next]
        /\ pc[p] = f
        /\ UNCHANGED <<signed, disturbed, out, hwFile>>
    BY <1>1, <1>3 DEF Goto, ghosts, files
  <2> HIDE DEF f, next
  <2>4. /\ \A x \in Vars \ {f} : got'[p][x] = got[p][x]
        /\ got'[p][f] = out[f] /\ pc'[p] = next
    BY <2>2, <2>3 DEF Typed, Locals
  <2> QED BY <2>1, <2>3, <2>4 DEF Undisturbed, ReadSoFar, Vars
<1> QED BY <1>2, <1>3

LEMMA InspectUndisturbed ==
  ASSUME Typed, NEW p \in Runs, Undisturbed(p), Inspect(p)
  PROVE  Undisturbed(p)'
<1>1. CASE Exit(p, "error")
  BY <1>1, ExitUndisturbed
<1>2. CASE ~Exit(p, "error")
  <2>1. /\ pc[p] = "inspect" /\ hwFile = out.fp
        /\ got' = [got EXCEPT ![p].maxOfflineDays = out.payload.maxOfflineDays]
        /\ pc' = [pc EXCEPT ![p] = "document"]
        /\ UNCHANGED <<signed, disturbed, out, hwFile>>
    BY <1>2 DEF Inspect, Goto, ghosts, files
  <2>2. /\ \A x \in Vars \ {"maxOfflineDays"} : got'[p][x] = got[p][x]
        /\ got'[p].maxOfflineDays = out.payload.maxOfflineDays /\ pc'[p] = "document"
    BY <2>1 DEF Typed, Locals, Vars
  <2> QED BY <2>1, <2>2 DEF Undisturbed, ReadSoFar, Vars
<1> QED BY <1>1, <1>2

LEMMA ReadWholeUndisturbed ==
  ASSUME Typed, NEW p \in Runs, Undisturbed(p), ReadWhole(p)
  PROVE  Undisturbed(p)'
<1>1. CASE Exit(p, "error")
  BY <1>1, ExitUndisturbed
<1>2. CASE ~Exit(p, "error")
  <2>1. /\ \/ /\ pc[p] = "document" /\ got' = [got EXCEPT ![p].doc = out]
              /\ pc' = [pc EXCEPT ![p] = "remark"]
           \/ /\ pc[p] = "remark" /\ got' = [got EXCEPT ![p].remark = hwFile]
              /\ pc' = [pc EXCEPT ![p] = "ping"]
        /\ UNCHANGED <<signed, disturbed, out, hwFile>>
    BY <1>2 DEF ReadWhole, Goto, ghosts, files
  <2>2. CASE pc[p] = "document"
    <3>1. /\ \A x \in Vars \ {"doc"} : got'[p][x] = got[p][x]
          /\ got'[p].doc = out /\ pc'[p] = "remark"
      BY <2>1, <2>2 DEF Typed, Locals, Vars
    <3> QED BY <2>1, <2>2, <3>1 DEF Undisturbed, ReadSoFar, Vars
  <2>3. CASE pc[p] = "remark"
    <3>1. /\ \A x \in Vars \ {"remark"} : got'[p][x] = got[p][x]
          /\ got'[p].remark = hwFile /\ pc'[p] = "ping"
      BY <2>1, <2>3 DEF Typed, Locals, Vars
    <3> QED BY <2>1, <2>3, <3>1 DEF Undisturbed, ReadSoFar, Vars
  <2> QED BY <2>1, <2>2, <2>3
<1> QED BY <1>1, <1>2

LEMMA SignWritesUndisturbed ==
  ASSUME Typed, NEW p \in Runs, SignWrites(p)
  PROVE  Undisturbed(p)'
<1>1. pc'[p] = "id" /\ signed[p] = Null
  BY FieldsAre DEF SignWrites, Goto, Typed, Locals, Knows
<1>2. signed'[p] \in {out', Null}
  BY <1>1 DEF SignWrites, Typed, Locals
<1> QED BY <1>1, <1>2 DEF Undisturbed, ReadSoFar

LEMMA StoreUndisturbed ==
  ASSUME Typed, NEW p \in Runs, Undisturbed(p), Store(p)
  PROVE  Undisturbed(p)'
<1>1. CASE \E how \in {"done", "error", "fault"} : Exit(p, how)
  BY <1>1, ExitUndisturbed
<1>2. CASE ~\E how \in {"done", "error", "fault"} : Exit(p, how)
  <2>1. ~Refused(p) /\ ~AnswerIsLost(p)
    BY <1>2 DEF Refused, AnswerIsLost
  <2>2. /\ pc[p] \in AtDatabase
        /\ \E next \in AtDatabase : Goto(p, next)
        /\ UNCHANGED <<got, signed, disturbed>>
    BY <1>2, <2>1 DEF Store, CreateDatabase, CreateTable, ModifyColumn, AddColumn, Insert,
       Executed, ghosts
  <2>3. pc'[p] \in AtDatabase
    BY <2>2 DEF Goto, Typed, Locals
  <2> QED BY <2>2, <2>3 DEF Undisturbed, ReadSoFar
<1> QED BY <1>1, <1>2

LEMMA UndisturbedNext ==
  ASSUME Typed, \A q \in Runs : Undisturbed(q), [Next]_vars
  PROVE  \A q \in Runs : Undisturbed(q)'
<1>1. ASSUME NEW p \in Runs, Script(p) PROVE Undisturbed(p)'
  <2>1. CASE Start(p) \/ SignReads(p)
    <3>1. pc'[p] \in {"sign", "write", "error"}
      BY <2>1 DEF Start, SignReads, Exit, Goto, Typed, Locals
    <3> QED BY <3>1 DEF Undisturbed
  <2> QED BY <1>1, <2>1, JqReadsUndisturbed, InspectUndisturbed, ReadWholeUndisturbed,
          SignWritesUndisturbed DEF Script
<1>2. ASSUME NEW p \in Runs, Script(p) \/ Store(p), NEW q \in Runs, q # p
      PROVE  Undisturbed(q)'
  <2>1. UNCHANGED files \/ (pc[q] \in Reading => disturbed'[q])
    <3>1. CASE SignWrites(p)
      BY <1>2, <3>1 DEF SignWrites, DisturbOthers, files
    <3>2. CASE ~SignWrites(p)
      BY <1>2, <3>2 DEF Script, Store, Start, SignReads, JqReads, Inspect, ReadWhole,
         CreateDatabase, CreateTable, ModifyColumn, AddColumn, Insert
    <3> QED BY <3>1, <3>2
  <2> QED BY <1>2, <2>1, OthersStay, UntouchedStays
<1>3. ASSUME NEW q \in Runs, DatabaseGoesDown \/ DatabaseComesUp \/ UNCHANGED vars
      PROVE  Undisturbed(q)'
  BY <1>3 DEF DatabaseGoesDown, DatabaseComesUp, vars, files, locals, ghosts,
     Undisturbed, ReadSoFar
<1>4. ASSUME NEW q \in Runs, ReplaceFiles PROVE Undisturbed(q)'
  BY <1>4 DEF ReplaceFiles, locals, Undisturbed, ReadSoFar
<1>5. ASSUME NEW p \in Runs, ConnectionIsLost(p), NEW q \in Runs PROVE Undisturbed(q)'
  BY <1>5 DEF ConnectionIsLost, files, Undisturbed, ReadSoFar
<1>6. ASSUME NEW p \in Runs, Kill(p), NEW q \in Runs PROVE Undisturbed(q)'
  <2>1. CASE q = p
    BY <1>6, <2>1, ExitUndisturbed DEF Kill
  <2>2. CASE q # p
    <3>1. UNCHANGED files /\ pc'[q] = pc[q] /\ got'[q] = got[q] /\ signed'[q] = signed[q]
          /\ disturbed'[q] = disturbed[q]
      BY <1>6, <2>2 DEF Kill, Exit, Goto, Typed, Locals
    <3> QED BY <3>1 DEF files, Undisturbed, ReadSoFar
  <2> QED BY <2>1, <2>2
<1> QED BY <1>1, <1>2, <1>3, <1>4, <1>5, <1>6, StoreUndisturbed DEF Next

(* The row an undisturbed run writes is all of the license it has.         *)
LEMMA UndisturbedWrites ==
  ASSUME Typed, NEW p \in Runs, Undisturbed(p), Inserted(p), ~disturbed[p]
  PROVE  /\ Describes(RowOf(got[p]), got[p].id, got[p].doc)
         /\ signed[p] \in {got[p].doc, Null}
<1> DEFINE lic == got[p].doc
<1>1. ReadSoFar(p, lic) /\ pc[p] = "insert"
  BY DEF Inserted, Undisturbed
<1>2. lic \in Genuine
  BY <1>1 DEF Typed, Knows
<1> HIDE DEF lic
<1>3. /\ got[p].id = lic.id /\ got[p].issuedAt = lic.issuedAt
      /\ got[p].notBefore = lic.notBefore /\ got[p].notAfter = lic.notAfter
      /\ got[p].fp = lic.fp /\ got[p].maxOfflineDays = lic.payload.maxOfflineDays
      /\ got[p].doc = lic /\ got[p].remark = lic.fp /\ signed[p] \in {lic, Null}
  BY <1>1 DEF ReadSoFar
<1>4. lic.expires = (lic.notAfter # 0) /\ lic.expires \in BOOLEAN
  BY <1>2, GenuineFields DEF Genuine
<1>5. Describes(RowOf(got[p]), got[p].id, lic)
  BY <1>3, <1>4 DEF Describes, RowOf
<1> QED BY <1>3, <1>5 DEF lic

(* What else is known of the runs and the rows, in one invariant.          *)
Whole ==
  /\ Typed /\ Migrated /\ RowsFit /\ RowsAreWhole
  /\ \A p \in Runs : Undisturbed(p)

LEMMA RowsWholeInit == ASSUME Init PROVE RowsAreWhole
<1> SUFFICES ASSUME NEW id \in Ids, rows[id] # Null
             PROVE  Describes(rows[id], id, rows[id].doc)
  BY DEF RowsAreWhole
<1>1. PICK o \in Orders :
        ~o.permanent /\ rows[id] = OldRow(Issue(RequestFor(o, hwFile), id, 1))
  BY DEF Init
<1> DEFINE lic == Issue(RequestFor(o, hwFile), id, 1)
<1>2. hwFile \in Machines /\ o \in Order
  BY RegistryAssumption DEF Init
<1>3. lic.id = id /\ lic.expires = TRUE
  <2>1. lic.id = id /\ lic.expires = ~o.permanent
    BY <1>2, IssueMakes
  <2> HIDE DEF lic
  <2> QED BY <1>1, <2>1
<1> HIDE DEF lic
<1>4. Describes(OldRow(lic), id, lic) /\ OldRow(lic).doc = lic
  BY <1>3 DEF Describes, OldRow
<1> QED BY <1>1, <1>4 DEF lic

(* A new column does not change what a row says: it had a not_after.       *)
LEMMA WidenedDescribes ==
  ASSUME Typed, RowsFit, Widened, NEW id \in Ids, rows[id] # Null,
         Describes(rows[id], id, rows[id].doc)
  PROVE  Describes(rows'[id], id, rows'[id].doc) /\ rows'[id].doc = rows[id].doc
<1> DEFINE row == rows[id]
<1>1. row \in Row /\ row.notAfter # Null /\ rows'[id] = [row EXCEPT !.expires = TRUE]
  BY DEF Typed, Database, RowsFit, Widened, WithColumn
<1>2. Describes(row, id, row.doc)
  OBVIOUS
<1> HIDE DEF row
<1>3. row.doc.expires \in BOOLEAN
  BY <1>1 DEF Row, LicenseDoc
<1>4. row.doc.expires = TRUE
  BY <1>1, <1>2, <1>3 DEF Describes
<1>5. /\ rows'[id].expires = TRUE /\ rows'[id].issuedAt = row.issuedAt
      /\ rows'[id].notBefore = row.notBefore /\ rows'[id].notAfter = row.notAfter
      /\ rows'[id].fp = row.fp /\ rows'[id].remark = row.remark
      /\ rows'[id].maxOfflineDays = row.maxOfflineDays /\ rows'[id].doc = row.doc
  BY <1>1 DEF Row
<1> QED BY <1>2, <1>4, <1>5 DEF Describes, row

LEMMA RowsWholeNext ==
  ASSUME Whole, [Next]_vars PROVE RowsAreWhole'
<1> SUFFICES ASSUME NEW id \in Ids \ mixed', rows'[id] # Null
             PROVE  Describes(rows'[id], id, rows'[id].doc)
  BY DEF RowsAreWhole, Describes
<1> USE DEF Whole
<1>1. CASE rows' = rows /\ mixed' = mixed
  BY <1>1 DEF RowsAreWhole
<1>2. CASE mixed' = mixed /\ Widened
  <2>1. rows[id] # Null
    BY <1>2 DEF Widened, WithColumn
  <2> QED BY <1>2, <2>1, WidenedDescribes DEF RowsAreWhole
<1>3. ASSUME NEW p \in Runs, Inserted(p)
      PROVE  Describes(rows'[id], id, rows'[id].doc)
  <2>1. id \notin mixed
    BY <1>3 DEF Inserted
  <2>2. CASE id # got[p].id
    BY <1>3, <2>1, <2>2, InsertedRow DEF RowsAreWhole
  <2>3. CASE id = got[p].id
    <3>1. ~disturbed[p]
      BY <1>3, <2>3 DEF Inserted, Typed, Locals
    <3>2. rows'[id] = RowOf(got[p]) /\ RowOf(got[p]).doc = got[p].doc
      BY <1>3, <2>3, InsertedRow DEF RowOf
    <3> QED BY <1>3, <2>3, <3>1, <3>2, UndisturbedWrites
  <2> QED BY <2>2, <2>3
<1> QED BY <1>1, <1>2, <1>3, RowsStep

LEMMA WholeNext == ASSUME Whole, [Next]_vars PROVE Whole'
BY TypedNext, MigratedNext, RowsFitNext, RowsWholeNext, UndisturbedNext DEF Whole

LEMMA WholeAlways == Spec => []Whole
<1>1. Init => Whole
  <2>1. ASSUME Init PROVE \A p \in Runs : Undisturbed(p)
    BY <2>1 DEF Init, Undisturbed
  <2> QED BY <2>1, TypedInit, MigratedInit, RowsFitInit, RowsWholeInit DEF Whole
<1>2. Whole /\ [Next]_vars => Whole'
  BY WholeNext
<1> QED BY <1>1, <1>2, PTL DEF Spec

(* Every row is one license, column by column and document, with the       *)
(* hardware it is for, unless its files were changed while it was read.    *)
THEOREM RowsAreAlwaysWhole == Spec => []RowsAreWhole
BY WholeAlways, PTL DEF Whole

-----------------------------------------------------------------------------
(* Only Insert reports done.                                               *)
LEMMA OnlyInsertIsDone ==
  ASSUME Typed, [Next]_vars, NEW p \in Runs, pc[p] # "done", pc'[p] = "done"
  PROVE  Inserted(p)
<1> USE DEF Typed, Locals
<1>1. CASE Script(p)
  <2>1. ~JqReads(p)
    <3>1. ASSUME NEW i \in DOMAIN Fields
          PROVE  ~Goto(p, IF i < Len(Fields) THEN Fields[i + 1] ELSE "inspect")
      <4>1. (IF i < Len(Fields) THEN Fields[i + 1] ELSE "inspect") # "done"
        BY <3>1, FieldsLead
      <4> QED BY <4>1 DEF Goto
    <3> QED BY <3>1 DEF JqReads, Exit, Goto
  <2>2. ~SignWrites(p)
    BY FieldsAre DEF SignWrites, Goto
  <2> QED BY <1>1, <2>1, <2>2 DEF Script, Start, SignReads, Inspect, ReadWhole, Exit, Goto
<1>2. CASE Store(p)
  <2>1. ~Refused(p) /\ ~AnswerIsLost(p)
    BY DEF Refused, AnswerIsLost, Exit, Goto
  <2>2. ASSUME NEW next \in AtDatabase, NEW c PROVE ~Executed(p, next, c)
    BY <2>1 DEF Executed, Goto
  <2>3. Insert(p)
    BY <1>2, <2>1, <2>2 DEF Store, CreateDatabase, CreateTable, ModifyColumn, AddColumn
  <2> QED BY <2>1, <2>3 DEF Insert, Inserted
<1>3. ASSUME NEW q \in Runs, q # p, Script(q) \/ Store(q) PROVE FALSE
  BY <1>3, OthersStay DEF Untouched
<1>4. ASSUME NEW q \in Runs, ConnectionIsLost(q) \/ Kill(q) PROVE FALSE
  BY <1>4 DEF ConnectionIsLost, Kill, Exit, Goto
<1>5. CASE DatabaseGoesDown \/ DatabaseComesUp \/ ReplaceFiles \/ UNCHANGED vars
  BY <1>5 DEF DatabaseGoesDown, DatabaseComesUp, ReplaceFiles, locals, vars
<1> QED BY <1>1, <1>2, <1>3, <1>4, <1>5 DEF Next

(* A run that says done has stored the license it signed.                  *)
THEOREM DoneAlwaysMeansStored == Spec => DoneMeansStored
<1> DEFINE Stored(p) ==
             /\ pc[p] # "done" /\ pc'[p] = "done"
             /\ signed[p] # Null /\ ~disturbed[p]
             => rows'[signed[p].id] # Null
                /\ Describes(rows'[signed[p].id], signed[p].id, signed[p])
<1>1. ASSUME Whole, [Next]_vars, NEW p \in Runs PROVE Stored(p)
  <2> SUFFICES ASSUME pc[p] # "done", pc'[p] = "done", signed[p] # Null, ~disturbed[p]
               PROVE  /\ rows'[signed[p].id] # Null
                      /\ Describes(rows'[signed[p].id], signed[p].id, signed[p])
    OBVIOUS
  <2>1. Inserted(p)
    BY <1>1, OnlyInsertIsDone DEF Whole
  <2>2. /\ Describes(RowOf(got[p]), got[p].id, signed[p])
        /\ got[p].id = signed[p].id
    BY <1>1, <2>1, UndisturbedWrites DEF Whole, Describes
  <2>3. rows'[got[p].id] = RowOf(got[p]) /\ RowOf(got[p]) # Null
    BY <1>1, <2>1, InsertedRow, NullIsNoRow DEF Whole
  <2> QED BY <2>2, <2>3
<1>2. Whole /\ [Next]_vars => [\A p \in Runs : Stored(p)]_vars
  BY <1>1
<1> QED BY <1>2, WholeAlways, PTL DEF Spec, DoneMeansStored

-----------------------------------------------------------------------------
(* The licenses there are anywhere: no two of them share an identifier.    *)
Present ==
  {lic \in LicenseDoc :
     \/ lic = out
     \/ \E p \in Runs : pc[p] \in AfterDocument /\ got[p].doc = lic
     \/ \E id \in Ids : rows[id] # Null /\ rows[id].doc = lic}

OneDocument ==
  /\ \A lic \in Present : lic.id \in usedIds
  /\ \A a, b \in Present : a.id = b.id => a = b

LEMMA OneDocumentInit == ASSUME Init PROVE OneDocument
<1>1. ASSUME NEW lic \in Present
      PROVE  \E id \in Ids : rows[id] # Null /\ rows[id].doc = lic
  BY <1>1, FileAssumption DEF Init, Present
<1>2. CASE \A id \in Ids : rows[id] = Null
  BY <1>1, <1>2 DEF OneDocument
<1>3. ASSUME NEW id \in Ids, NEW o \in Orders,
             rows = [i \in Ids |-> IF i = id THEN OldRow(Issue(RequestFor(o, hwFile), id, 1))
                                   ELSE Null],
             usedIds = {id}
      PROVE  OneDocument
  <2> DEFINE old == Issue(RequestFor(o, hwFile), id, 1)
  <2>1. old.id = id
    BY IssueMakes DEF Init
  <2> HIDE DEF old
  <2>2. rows = [i \in Ids |-> IF i = id THEN OldRow(old) ELSE Null]
    BY <1>3 DEF old
  <2>3. OldRow(old).doc = old
    BY DEF OldRow
  <2>4. \A lic \in Present : lic = old
    BY <1>1, <2>2, <2>3
  <2> QED BY <1>3, <2>1, <2>4 DEF OneDocument
<1> QED BY <1>2, <1>3 DEF Init

(* Only issuer sign brings a license: what is stored was a run's copy,     *)
(* which was the file.                                                     *)
LEMMA StoredWasPresent ==
  ASSUME Typed, [Next]_vars, NEW id \in Ids, rows'[id] # Null
  PROVE  rows'[id].doc \in Present
<1> USE DEF Typed, Database
<1>1. ASSUME NEW i \in Ids, rows[i] # Null PROVE rows[i].doc \in Present
  <2>1. rows[i].doc \in LicenseDoc
    BY <1>1 DEF Row
  <2> QED BY <1>1, <2>1 DEF Present
<1>2. CASE rows' = rows
  BY <1>1, <1>2
<1>3. CASE Widened
  <2>1. /\ rows[id] # Null /\ rows[id] \in Row
        /\ rows'[id] = [rows[id] EXCEPT !.expires = TRUE]
    BY <1>3 DEF Widened, WithColumn
  <2>2. rows'[id].doc = rows[id].doc
    BY <2>1 DEF Row
  <2> QED BY <1>1, <2>1, <2>2
<1>4. ASSUME NEW p \in Runs, Inserted(p) PROVE rows'[id].doc \in Present
  <2>1. got[p].doc \in Present
    BY <1>4 DEF Inserted, Knows, Genuine, Present
  <2>2. RowOf(got[p]).doc = got[p].doc
    BY DEF RowOf
  <2>3. rows'[id] \in {rows[id], RowOf(got[p])}
    BY <1>4, InsertedRow
  <2> QED BY <1>1, <2>1, <2>2, <2>3
<1> QED BY <1>2, <1>3, <1>4, RowsStep

LEMMA CopyWasPresent ==
  ASSUME Typed, [Next]_vars, NEW p \in Runs, pc'[p] \in AfterDocument
  PROVE  got'[p].doc \in Present
<1> USE DEF Typed, Locals
<1>1. ASSUME pc[p] \in AfterDocument, got'[p].doc = got[p].doc PROVE got'[p].doc \in Present
  BY <1>1 DEF Knows, Genuine, Present
<1>2. ASSUME NEW how \in {"done", "error", "fault"} PROVE ~Exit(p, how)
  BY DEF Exit, Goto
<1>3. CASE Script(p)
  <2>1. ~JqReads(p)
    <3>1. ASSUME NEW i \in DOMAIN Fields
          PROVE  ~Goto(p, IF i < Len(Fields) THEN Fields[i + 1] ELSE "inspect")
      <4>1. (IF i < Len(Fields) THEN Fields[i + 1] ELSE "inspect") \notin AfterDocument
        BY <3>1, FieldsLead
      <4> QED BY <4>1 DEF Goto
    <3> QED BY <1>2, <3>1 DEF JqReads
  <2>2. ~Start(p) /\ ~SignReads(p) /\ ~SignWrites(p) /\ ~Inspect(p)
    BY <1>2, FieldsAre DEF Start, SignReads, SignWrites, Inspect, Goto
  <2>3. ReadWhole(p)
    BY <1>3, <2>1, <2>2 DEF Script
  <2>4. CASE pc[p] = "document"
    <3>1. out # NoFile /\ got' = [got EXCEPT ![p].doc = out]
      BY <1>2, <2>3, <2>4 DEF ReadWhole
    <3>2. out \in LicenseDoc
      BY <3>1 DEF Files, Genuine
    <3>3. got'[p].doc = out
      BY <3>1 DEF Vars
    <3> QED BY <3>2, <3>3 DEF Present
  <2>5. CASE pc[p] = "remark"
    <3>1. got' = [got EXCEPT ![p].remark = hwFile]
      BY <1>2, <2>3, <2>5 DEF ReadWhole
    <3>2. got'[p].doc = got[p].doc
      BY <3>1 DEF Vars
    <3> QED BY <1>1, <2>5, <3>2
  <2> QED BY <2>3, <2>4, <2>5 DEF ReadWhole
<1>4. CASE Store(p)
  <2>1. ~Refused(p) /\ ~AnswerIsLost(p)
    BY <1>2 DEF Refused, AnswerIsLost
  <2>2. pc[p] \in AtDatabase /\ got' = got
    BY <1>2, <1>4, <2>1 DEF Store, CreateDatabase, CreateTable, ModifyColumn, AddColumn, Insert,
       Executed
  <2> QED BY <1>1, <2>2
<1>5. ASSUME NEW q \in Runs, q # p, Script(q) \/ Store(q) PROVE got'[p].doc \in Present
  BY <1>1, <1>5, OthersStay DEF Untouched
<1>6. ASSUME NEW q \in Runs, ConnectionIsLost(q) \/ Kill(q) PROVE got'[p].doc \in Present
  <2>1. pc[p] = pc'[p] /\ got'[p] = got[p]
    BY <1>2, <1>6 DEF ConnectionIsLost, Kill, Exit, Goto
  <2> QED BY <1>1, <2>1
<1>7. CASE DatabaseGoesDown \/ DatabaseComesUp \/ ReplaceFiles \/ UNCHANGED vars
  BY <1>1, <1>7 DEF DatabaseGoesDown, DatabaseComesUp, ReplaceFiles, locals, vars
<1> QED BY <1>3, <1>4, <1>5, <1>6, <1>7 DEF Next

LEMMA FileWasPresent ==
  ASSUME Typed, [Next]_vars, \A p \in Runs : ~SignWrites(p)
  PROVE  /\ out' \in LicenseDoc => out' \in Present
         /\ usedIds' = usedIds
<1>1. out' \in {out, NoFile} /\ usedIds' = usedIds
  <2>1. ASSUME NEW p \in Runs, Script(p) \/ Store(p) PROVE UNCHANGED <<out, usedIds>>
    BY <2>1 DEF Script, Store, Start, SignReads, JqReads, Inspect, ReadWhole, CreateDatabase,
       CreateTable, ModifyColumn, AddColumn, Insert, files, counters
  <2>2. ASSUME NEW p \in Runs, ConnectionIsLost(p) \/ Kill(p) PROVE UNCHANGED <<out, usedIds>>
    BY <2>2 DEF ConnectionIsLost, Kill, files
  <2>3. CASE DatabaseGoesDown \/ DatabaseComesUp \/ ReplaceFiles \/ UNCHANGED vars
    BY <2>3 DEF DatabaseGoesDown, DatabaseComesUp, ReplaceFiles, files, counters, vars
  <2> QED BY <2>1, <2>2, <2>3 DEF Next
<1> QED BY <1>1, FileAssumption DEF Present

(* The identifier of the license a sign writes was nobody's.               *)
LEMMA WrittenIsNew ==
  ASSUME Typed, NEW p \in Runs, SignWrites(p)
  PROVE  \E lic \in Genuine :
           /\ lic.id \notin usedIds /\ usedIds' = usedIds \union {lic.id}
           /\ out' \in {out, lic}
<1>1. order[p] \in Orders /\ hw[p] \in Machines /\ usedIds \subseteq Ids
  BY DEF SignWrites, Typed, Knows, Database
<1>2. Cardinality(usedIds) + 1 \in Nat
  <2>1. IsFiniteSet(usedIds)
    BY <1>1, RegistryAssumption, FS_Subset
  <2> QED BY <2>1, FS_CardinalityType
<1>3. PICK id \in Ids \ usedIds :
        LET lic == Issue(RequestFor(order[p], hw[p]), id, Cardinality(usedIds) + 1)
        IN  usedIds' = usedIds \union {id} /\ out' \in {out, lic}
  BY DEF SignWrites
<1> DEFINE lic == Issue(RequestFor(order[p], hw[p]), id, Cardinality(usedIds) + 1)
<1>4. lic \in Genuine /\ lic.id = id
  BY <1>1, <1>2, IssueMakes
<1> QED BY <1>3, <1>4

LEMMA OneDocumentNext ==
  ASSUME Typed, OneDocument, [Next]_vars PROVE OneDocument'
<1>1. ASSUME NEW new, new \in Genuine, new.id \notin usedIds,
             usedIds' = usedIds \union {new.id}, Present' \subseteq Present \union {new}
      PROVE  OneDocument'
  BY <1>1 DEF OneDocument
<1>2. ASSUME NEW lic \in Present', lic # out' PROVE lic \in Present
  BY <1>2, StoredWasPresent, CopyWasPresent DEF Present
<1>3. ASSUME NEW p \in Runs, SignWrites(p) PROVE OneDocument'
  <2>1. PICK new \in Genuine :
          /\ new.id \notin usedIds /\ usedIds' = usedIds \union {new.id}
          /\ out' \in {out, new}
    BY <1>3, WrittenIsNew
  <2>2. Present' \subseteq Present \union {new}
    <3>1. out' \in Present' /\ out' = out => out' \in Present
      BY DEF Present
    <3> QED BY <1>2, <2>1, <3>1
  <2> QED BY <1>1, <2>1, <2>2
<1>4. CASE \A p \in Runs : ~SignWrites(p)
  <2>1. usedIds' = usedIds /\ (out' \in LicenseDoc => out' \in Present)
    BY <1>4, FileWasPresent
  <2>2. Present' \subseteq Present
    <3>1. Present' \subseteq LicenseDoc
      BY DEF Present
    <3> QED BY <1>2, <2>1, <3>1
  <2> QED BY <2>1, <2>2 DEF OneDocument
<1> QED BY <1>3, <1>4

(* No migration and no run removes a license from the table or puts        *)
(* another in its place.                                                   *)
THEOREM RowsAlwaysStay == Spec => RowsStay
<1> DEFINE Stays(id) ==
             id \notin mixed' =>
               (rows[id] # Null => rows'[id] # Null /\ rows'[id].doc = rows[id].doc)
<1>1. Spec => []OneDocument
  <2>1. Whole /\ OneDocument /\ [Next]_vars => OneDocument'
    BY OneDocumentNext DEF Whole
  <2> QED BY WholeAlways, OneDocumentInit, <2>1, PTL DEF Spec
<1>2. ASSUME Whole, Whole', OneDocument, [Next]_vars, NEW id \in Ids PROVE Stays(id)
  <2> SUFFICES ASSUME id \notin mixed', rows[id] # Null
               PROVE  rows'[id] # Null /\ rows'[id].doc = rows[id].doc
    OBVIOUS
  <2> USE <1>2 DEF Whole
  <2>1. CASE rows' = rows
    BY <2>1
  <2>2. CASE mixed' = mixed /\ Widened
    <3>1. /\ rows[id] \in Row
          /\ rows'[id] = [rows[id] EXCEPT !.expires = TRUE]
      BY <2>2 DEF Widened, WithColumn, Typed, Database
    <3>2. rows'[id] \in Row /\ rows'[id].doc = rows[id].doc
      BY <3>1 DEF Row
    <3> QED BY <3>2, NullIsNoRow
  <2>3. ASSUME NEW p \in Runs, Inserted(p)
        PROVE  rows'[id] # Null /\ rows'[id].doc = rows[id].doc
    <3>1. CASE id # got[p].id
      BY <2>3, <3>1, InsertedRow
    <3>2. CASE id = got[p].id
      <4>1. ~disturbed[p] /\ id \notin mixed
        BY <2>3, <3>2 DEF Inserted, Typed, Locals
      <4>2. Describes(RowOf(got[p]), id, got[p].doc) /\ Describes(rows[id], id, rows[id].doc)
        BY <2>3, <3>2, <4>1, UndisturbedWrites DEF RowsAreWhole
      <4>3. got[p].doc \in Present /\ rows[id].doc \in Present
        <5>1. got[p].doc \in LicenseDoc /\ pc[p] \in AfterDocument
          BY <2>3 DEF Inserted, Typed, Knows, Genuine
        <5>2. rows[id].doc \in LicenseDoc
          BY DEF Typed, Database, Row
        <5> QED BY <5>1, <5>2 DEF Present
      <4>4. got[p].doc = rows[id].doc
        BY <4>2, <4>3 DEF Describes, OneDocument
      <4>5. rows'[id] = RowOf(got[p]) /\ RowOf(got[p]) # Null /\ RowOf(got[p]).doc = got[p].doc
        BY <2>3, <3>2, InsertedRow, NullIsNoRow DEF RowOf
      <4> QED BY <4>4, <4>5
    <3> QED BY <3>1, <3>2
  <2> QED BY <2>1, <2>2, <2>3, RowsStep
<1>3. Whole /\ Whole' /\ OneDocument /\ [Next]_vars => [\A id \in Ids : Stays(id)]_vars
  BY <1>2
<1>4. (\A id \in Ids : Stays(id)) =>
        \A id \in Ids \ mixed' :
          rows[id] # Null => rows'[id] # Null /\ rows'[id].doc = rows[id].doc
  OBVIOUS
<1> QED BY <1>1, <1>3, <1>4, WholeAlways, PTL DEF Spec, RowsStay

=============================================================================
