--------------------------- MODULE SigningProofs ---------------------------
(***************************************************************************)
(* Machine-checked proofs about Signing, for every set of orders, hardware *)
(* files and licenses: type correctness and what a fresh device makes of a *)
(* license for any number of commands at once, the rest for one at a time. *)
(***************************************************************************)
EXTENDS Signing, TLAPS

USE DEF Time, ZeroTime

-----------------------------------------------------------------------------
KeygenSteps == {"keygen", "open private", "write private", "open public", "write public"}
SignSteps == {"sign", "hardware", "snapshot", "key", "write"}

(* What a fresh device makes of lic from its signing on.                   *)
Usable(lic) ==
  \/ \E t \in {lic.issuedAt, lic.notBefore} : UsableFrom(lic, t)
  \/ lic.expires /\ lic.notAfter < lic.issuedAt

(* What issuer sign makes.                                                 *)
Made ==
  {s \in SignedLicense :
     /\ s.doc.version = FormatVersion /\ s.doc.complete = TRUE
     /\ s.doc.expires => s.doc.notAfter # ZeroTime
     /\ PayloadVerdict(s.doc) = "pass"
     /\ Usable(s.doc)}

(* The types, with what each command knows where.                          *)
Files ==
  /\ clock \in 1..MaxTime
  /\ privFile \in Keys \union {NoFile, Garbage}
  /\ pubFile \in Keys \union {NoFile, Garbage}
  /\ hwFile \in HardwareInfo \union {NoFile}
  /\ licFile \in SignedLicense \union {NoFile}

Counters ==
  /\ keys \in 0..MaxKeys
  /\ usedIds \subseteq Ids
  /\ overwritten \in BOOLEAN

Commands ==
  /\ pc \in [Issuers -> {"idle"} \union KeygenSteps \union SignSteps]
  /\ force \in [Issuers -> BOOLEAN]
  /\ local \in [Issuers -> BOOLEAN]
  /\ order \in [Issuers -> Orders \union {NoOrder}]
  /\ hw \in [Issuers -> HardwareInfo \union {NoFile}]
  /\ key \in [Issuers -> 0..MaxKeys]
  /\ made \in [Issuers -> Made \union {NoFile}]
  /\ exit \in [Issuers -> {"none", "ok", "error"}]

Knows(p) ==
  /\ pc[p] \in KeygenSteps \ {"keygen"} => key[p] \in Keys
  /\ pc[p] \in SignSteps => order[p] \in Orders
  /\ pc[p] \in {"snapshot", "key", "write"} => hw[p] \in HardwareInfo
  /\ pc[p] # "idle" => exit[p] = "none"
  /\ pc[p] = "write" => made[p] \in Made /\ made[p].doc.fp = hw[p].recomputedFp

Known == Files /\ Counters /\ Commands /\ \A p \in Issuers : Knows(p)

-----------------------------------------------------------------------------
LEMMA ZeroFits == ASSUME NEW m \in Nat PROVE 0 \in 0..m
OBVIOUS

LEMMA OneMoreFits ==
  ASSUME NEW m \in Nat, NEW n \in 0..m, n < m
  PROVE  n + 1 \in 1..m /\ n + 1 \in 0..m
OBVIOUS

LEMMA IssueUsable ==
  ASSUME NEW lic, lic.issuedAt \in Nat, lic.notBefore \in Nat, lic.notAfter \in Nat,
         lic.notBefore > lic.issuedAt /\ lic.expires => lic.notAfter >= lic.notBefore
  PROVE  Usable(lic)
<1>1. MaxTimeRewinds \in Nat
  BY TimeAssumption
<1>2. \A t : ~OfflineTooLong(NoFile, lic, t)
  BY DEF OfflineTooLong
<1>3. ASSUME NEW t \in {lic.issuedAt, lic.notBefore}, t >= lic.issuedAt, t >= lic.notBefore,
             lic.expires => t <= lic.notAfter
      PROVE  UsableFrom(lic, t)
  <2>1. AdvanceWatermark(NoFile, lic, t).timeRewindCount = 0
    BY DEF AdvanceWatermark, FirstWatermark
  <2>2. Effective(NoFile, lic, t) = t
    BY <1>3 DEF Effective, AdvanceWatermark, FirstWatermark
  <2>3. TimeVerdict(NoFile, lic, t) = "ok"
    BY <1>1, <1>2, <1>3, <2>1, <2>2 DEF TimeVerdict
  <2> QED BY <1>3, <2>3 DEF UsableFrom
<1>4. CASE lic.notBefore > lic.issuedAt
  BY <1>3, <1>4 DEF Usable
<1>5. CASE lic.notBefore <= lic.issuedAt
  BY <1>3, <1>5 DEF Usable
<1> QED BY <1>4, <1>5

(* What Issue makes of a request it does not refuse.                       *)
LEMMA IssueMakes ==
  ASSUME NEW req \in Request, Issuable(req), NEW id \in Ids, NEW t \in Nat, NEW k \in Keys
  PROVE  /\ [doc |-> Issue(req, id, t), key |-> k] \in Made
         /\ Issue(req, id, t).fp = req.recomputedFp
<1>1. /\ req.hwFp \in Fingerprints /\ req.recomputedFp = req.hwFp
      /\ req.permanent \in BOOLEAN /\ req.notBefore \in Nat /\ req.notAfter \in Nat
      /\ req.maxOfflineDays \in Nat
      /\ ~req.permanent => req.notAfter # 0 /\ (req.notBefore # 0 => req.notAfter > req.notBefore)
  BY DEF Request, Issuable
<1> DEFINE load == [key |-> DeriveKey(req.hwFp, id), id |-> id, expires |-> ~req.permanent,
                    notAfter |-> req.notAfter, maxOfflineDays |-> req.maxOfflineDays]
           nb == IF req.notBefore = 0 THEN t ELSE req.notBefore
           lic == [version |-> 4, complete |-> TRUE, id |-> id, issuedAt |-> t,
                   notBefore |-> nb, notAfter |-> req.notAfter, expires |-> ~req.permanent,
                   fp |-> req.hwFp, signed |-> TRUE, payload |-> load]
<1>2. Issue(req, id, t) = lic
  BY DEF Issue, FormatVersion
<1>3. lic \in LicenseDoc
  <2>1. load \in Payload
    BY <1>1 DEF Payload, Key, DeriveKey
  <2>2. nb \in Nat
    BY <1>1
  <2> HIDE DEF load, nb
  <2> QED BY <1>1, <2>1, <2>2 DEF LicenseDoc
<1>4. PayloadVerdict(lic) = "pass"
  BY DEF PayloadVerdict
<1>5. Usable(lic)
  <2>1. /\ lic.issuedAt = t /\ lic.notBefore = nb /\ lic.notAfter = req.notAfter
        /\ lic.expires = ~req.permanent /\ nb \in Nat
    BY <1>1
  <2>2. nb > t => req.notBefore # 0 /\ nb = req.notBefore
    BY <1>1
  <2> HIDE DEF lic, nb
  <2>3. CASE req.permanent
    BY <2>1, <2>3, <1>1, IssueUsable
  <2>4. CASE ~req.permanent
    <3>1. nb > t => req.notAfter > nb
      BY <1>1, <2>2, <2>4
    <3> QED BY <1>1, <2>1, <3>1, IssueUsable
  <2> QED BY <2>3, <2>4
<1>6. lic.version = 4 /\ lic.complete = TRUE /\ lic.fp = req.recomputedFp
      /\ (lic.expires => lic.notAfter # 0)
  BY <1>1
<1> HIDE DEF lic
<1> QED BY <1>2, <1>3, <1>4, <1>5, <1>6 DEF Made, SignedLicense, FormatVersion

LEMMA RequestTyped ==
  ASSUME NEW p \in Issuers, order[p] \in Orders, hw[p] \in HardwareInfo
  PROVE  RequestOf(p) \in Request /\ RequestOf(p).recomputedFp = hw[p].recomputedFp
<1>1. order[p] \in Order /\ Day \in Nat \ {0}
  BY SigningAssumption, TimeAssumption
<1>2. NotAfterOf(order[p]) \in Nat
  BY <1>1 DEF NotAfterOf, Order, Date
<1> QED BY <1>1, <1>2 DEF RequestOf, Request, HardwareInfo, Order, Date

-----------------------------------------------------------------------------
(* Known is inductive.                                                     *)
LEMMA KnownInit == ASSUME Init PROVE Known
<1>1. Files
  BY SigningAssumption DEF Init, Files
<1>0. MaxKeys \in Nat
  BY SigningAssumption
<1>2. Counters
  <2>1. keys = 0 /\ usedIds = {} /\ overwritten = FALSE
    BY DEF Init
  <2>2. keys \in 0..MaxKeys
    BY <1>0, <2>1, ZeroFits
  <2> QED BY <2>1, <2>2 DEF Counters
<1>3. Commands /\ \A p \in Issuers : Knows(p)
  BY <1>0 DEF Init, Commands, Knows, KeygenSteps, SignSteps
<1> QED BY <1>1, <1>2, <1>3 DEF Known

LEMMA ExitKnown ==
  ASSUME Known, NEW p \in Issuers, NEW how \in {"ok", "error"}, Exit(p, how)
  PROVE  Commands' /\ \A q \in Issuers : Knows(q)'
<1> USE DEF Known, Exit, Goto
<1>0. MaxKeys \in Nat
  BY SigningAssumption
<1>1. Commands'
  BY <1>0 DEF Commands
<1>2. \A q \in Issuers : Knows(q)'
  BY DEF Commands, Knows, KeygenSteps, SignSteps
<1> QED BY <1>1, <1>2

LEMMA KeygenKnown ==
  ASSUME Known, NEW p \in Issuers, Keygen(p) PROVE Known'
<1> USE DEF Known
<1>1. CASE RunKeygen(p)
  <2>1. (Files /\ Counters)'
    BY <1>1 DEF RunKeygen, Files, Counters, disk, counters
  <2>2. Commands'
    BY <1>1 DEF RunKeygen, Goto, Commands, locals, KeygenSteps
  <2>3. ASSUME NEW q \in Issuers PROVE Knows(q)'
    BY <1>1 DEF RunKeygen, Goto, Commands, Knows, locals, KeygenSteps, SignSteps
  <2> QED BY <2>1, <2>2, <2>3
<1>2. CASE CheckKeys(p)
  <2>1. Files'
    BY <1>2 DEF CheckKeys, Files, disk
  <2>2. CASE Exit(p, "error") /\ UNCHANGED counters
    BY <2>1, <2>2, ExitKnown DEF Counters, counters
  <2>3. CASE ~(Exit(p, "error") /\ UNCHANGED counters)
    <3>1. /\ keys < MaxKeys
          /\ keys' = keys + 1
          /\ key' = [key EXCEPT ![p] = keys + 1]
          /\ overwritten' = (overwritten \/ force[p])
          /\ pc' = [pc EXCEPT ![p] = "open private"]
          /\ UNCHANGED <<flags, hw, made, exit, usedIds>>
      BY <1>2, <2>3 DEF CheckKeys, Goto
    <3>2. keys + 1 \in Keys /\ keys + 1 \in 0..MaxKeys
      <4>1. MaxKeys \in Nat /\ keys \in 0..MaxKeys
        BY SigningAssumption DEF Counters
      <4> QED BY <3>1, <4>1, OneMoreFits DEF Keys
    <3>3. Counters'
      BY <3>1, <3>2 DEF Counters
    <3>4. Commands'
      BY <3>1, <3>2 DEF Commands, flags, KeygenSteps
    <3>5. exit[p] = "none"
      BY <1>2 DEF CheckKeys, Knows
    <3>6. Knows(p)'
      BY <3>1, <3>2, <3>5 DEF Commands, Knows, flags, KeygenSteps, SignSteps
    <3>7. ASSUME NEW q \in Issuers \ {p} PROVE Knows(q)'
      BY <3>1, <3>7 DEF Commands, Knows, flags
    <3> QED BY <2>1, <3>3, <3>4, <3>6, <3>7
  <2> QED BY <2>2, <2>3
<1>3. CASE WriteKeys(p)
  <2>1. (Files /\ Counters)'
    <3>1. key[p] \in Keys /\ privFile' \in {privFile, Garbage, key[p]}
          /\ pubFile' \in {pubFile, Garbage, key[p]}
      BY <1>3 DEF WriteKeys, Knows, KeygenSteps
    <3> QED BY <1>3, <3>1 DEF WriteKeys, Files, Counters, counters
  <2>2. CASE Exit(p, "ok")
    BY <2>1, <2>2, ExitKnown
  <2>3. CASE ~Exit(p, "ok")
    <3>1. \E next \in KeygenSteps \ {"keygen"} : pc' = [pc EXCEPT ![p] = next]
      BY <1>3, <2>3 DEF WriteKeys, Goto, KeygenSteps
    <3>2. UNCHANGED <<flags, locals, exit>> /\ pc[p] \in KeygenSteps \ {"keygen"}
      BY <1>3, <2>3 DEF WriteKeys, KeygenSteps
    <3>3. Commands'
      BY <3>1, <3>2 DEF Commands, flags, locals
    <3>4. ASSUME NEW q \in Issuers PROVE Knows(q)'
      BY <3>1, <3>2 DEF Commands, Knows, flags, locals, KeygenSteps, SignSteps
    <3> QED BY <2>1, <3>3, <3>4
  <2> QED BY <2>2, <2>3
<1> QED BY <1>1, <1>2, <1>3 DEF Keygen

LEMMA SignKnown ==
  ASSUME Known, NEW p \in Issuers, Sign(p) PROVE Known'
<1> USE DEF Known
<1>1. CASE RunSign(p)
  <2>1. (Files /\ Counters)'
    BY <1>1 DEF RunSign, Files, Counters, disk, counters
  <2>2. PICK f \in BOOLEAN, l \in BOOLEAN, o \in Orders :
          /\ force' = [force EXCEPT ![p] = f]
          /\ local' = [local EXCEPT ![p] = l]
          /\ order' = [order EXCEPT ![p] = o]
    BY <1>1 DEF RunSign
  <2>3. Commands'
    BY <1>1, <2>2 DEF RunSign, Goto, Commands, locals, SignSteps
  <2>4. ASSUME NEW q \in Issuers PROVE Knows(q)'
    BY <1>1, <2>2 DEF RunSign, Goto, Commands, Knows, locals, KeygenSteps, SignSteps
  <2> QED BY <2>1, <2>3, <2>4
<1>2. CASE CheckOut(p)
  <2>1. (Files /\ Counters)'
    BY <1>2 DEF CheckOut, Files, Counters, disk, counters
  <2>2. CASE Exit(p, "error")
    BY <2>1, <2>2, ExitKnown
  <2>3. CASE ~Exit(p, "error")
    <3>1. Commands'
      BY <1>2, <2>3 DEF CheckOut, Goto, Commands, flags, locals, SignSteps
    <3>2. ASSUME NEW q \in Issuers PROVE Knows(q)'
      BY <1>2, <2>3 DEF CheckOut, Goto, Commands, Knows, flags, locals, KeygenSteps, SignSteps
    <3> QED BY <2>1, <3>1, <3>2
  <2> QED BY <2>2, <2>3
<1>3. CASE ReadHardware(p)
  <2>1. (Files /\ Counters)'
    BY <1>3 DEF ReadHardware, Files, Counters, disk, counters
  <2>2. CASE Exit(p, "error")
    BY <2>1, <2>2, ExitKnown
  <2>3. CASE ~Exit(p, "error")
    <3>1. [fp |-> Here, recomputedFp |-> Here] \in HardwareInfo
      BY SigningAssumption DEF HardwareInfo
    <3>2. \E h \in HardwareInfo, next \in {"snapshot", "key"} :
            hw' = [hw EXCEPT ![p] = h] /\ pc' = [pc EXCEPT ![p] = next]
      BY <1>3, <2>3, <3>1 DEF ReadHardware, Files, Goto
    <3>3. pc[p] = "hardware" /\ UNCHANGED <<flags, key, made, exit>>
      BY <1>3, <2>3 DEF ReadHardware
    <3>4. Commands'
      BY <3>2, <3>3 DEF Commands, flags, SignSteps
    <3>5. ASSUME NEW q \in Issuers PROVE Knows(q)'
      BY <3>2, <3>3 DEF Commands, Knows, flags, KeygenSteps, SignSteps
    <3> QED BY <2>1, <3>4, <3>5
  <2> QED BY <2>2, <2>3
<1>4. CASE WriteSnapshot(p)
  <2>1. (Files /\ Counters)'
    BY <1>4 DEF WriteSnapshot, Files, Counters, Knows, keyFiles, counters
  <2>2. Commands'
    BY <1>4 DEF WriteSnapshot, Goto, Commands, flags, locals, SignSteps
  <2>3. ASSUME NEW q \in Issuers PROVE Knows(q)'
    BY <1>4 DEF WriteSnapshot, Goto, Commands, Knows, flags, locals, KeygenSteps, SignSteps
  <2> QED BY <2>1, <2>2, <2>3
<1>5. CASE IssueLicense(p)
  <2>1. Files'
    BY <1>5 DEF IssueLicense, Files, disk
  <2>2. CASE Exit(p, "error") /\ UNCHANGED counters
    BY <2>1, <2>2, ExitKnown DEF Counters, counters
  <2>3. CASE ~(Exit(p, "error") /\ UNCHANGED counters)
    <3>1. /\ privFile \in Keys /\ Issuable(RequestOf(p)) /\ pc[p] = "key"
          /\ pc' = [pc EXCEPT ![p] = "write"]
          /\ UNCHANGED <<flags, hw, key, exit, keys, overwritten>>
      BY <1>5, <2>3 DEF IssueLicense, Goto
    <3>2. PICK id \in Ids \ usedIds :
            /\ made' = [made EXCEPT ![p] =
                          [doc |-> Issue(RequestOf(p), id, clock), key |-> privFile]]
            /\ usedIds' = usedIds \union {id}
      BY <1>5, <2>3 DEF IssueLicense
    <3> DEFINE s == [doc |-> Issue(RequestOf(p), id, clock), key |-> privFile]
    <3>3. s \in Made /\ s.doc.fp = hw[p].recomputedFp
      <4>1. clock \in Nat
        BY SigningAssumption DEF Files
      <4>2. order[p] \in Orders /\ hw[p] \in HardwareInfo
        BY <3>1 DEF Knows, SignSteps
      <4> QED BY <3>1, <4>1, <4>2, RequestTyped, IssueMakes
    <3> HIDE DEF s
    <3>4. made' = [made EXCEPT ![p] = s]
      BY <3>2 DEF s
    <3>5. Counters'
      BY <3>1, <3>2 DEF Counters
    <3>6. Commands'
      BY <3>1, <3>3, <3>4 DEF Commands, flags, SignSteps
    <3>7. ASSUME NEW q \in Issuers PROVE Knows(q)'
      BY <3>1, <3>3, <3>4 DEF Commands, Knows, flags, KeygenSteps, SignSteps
    <3> QED BY <2>1, <3>5, <3>6, <3>7
  <2> QED BY <2>2, <2>3
<1>6. CASE WriteLicense(p)
  <2>1. licFile' \in SignedLicense
    BY <1>6 DEF WriteLicense, Knows, Made
  <2>2. (Files /\ Counters)'
    BY <1>6, <2>1 DEF WriteLicense, Files, Counters, keyFiles, counters
  <2> QED BY <1>6, <2>2, ExitKnown DEF WriteLicense
<1> QED BY <1>1, <1>2, <1>3, <1>4, <1>5, <1>6 DEF Sign

LEMMA KnownNext == ASSUME Known, [Next]_vars PROVE Known'
<1> USE DEF Known
<1>1. ASSUME NEW p \in Issuers, Fail(p) PROVE Known'
  BY <1>1, ExitKnown DEF Fail, Files, Counters, disk, counters
<1>2. CASE ClockForward \/ DeliverHardware \/ MoveAway \/ UNCHANGED vars
  <2>1. Files'
    <3>1. CASE ClockForward
      BY <3>1 DEF ClockForward, Files, disk
    <3>2. CASE DeliverHardware
      BY <3>2, SigningAssumption DEF DeliverHardware, Files, keyFiles
    <3>3. CASE MoveAway
      BY <3>3 DEF MoveAway, Files, keyFiles
    <3> QED BY <1>2, <3>1, <3>2, <3>3 DEF Files, vars
  <2>2. UNCHANGED <<pc, flags, locals, exit, counters>>
    BY <1>2 DEF ClockForward, DeliverHardware, MoveAway, vars, flags, locals, counters
  <2>3. Counters' /\ Commands'
    BY <2>2 DEF Counters, Commands, flags, locals, counters
  <2>4. ASSUME NEW q \in Issuers PROVE Knows(q)'
    BY <2>2 DEF Knows, flags, locals
  <2> QED BY <2>1, <2>3, <2>4
<1> QED BY <1>1, <1>2, KeygenKnown, SignKnown DEF Next

LEMMA KnownAlways == Spec => []Known
BY KnownInit, KnownNext, PTL DEF Spec

(* The issuer's files and commands keep their types, and nothing is        *)
(* written that was not signed, with any number of commands at once.       *)
THEOREM TypeCorrect == Spec => []TypeOK
<1>1. ASSUME Known PROVE TypeOK
  <2>1. \A p \in Issuers : pc[p] = "write" => made[p] # NoFile
    BY <1>1, SigningAssumption DEF Known, Knows, Made
  <2> QED BY <1>1, <2>1 DEF Known, Files, Counters, Commands, TypeOK, KeygenSteps, SignSteps, Made
<1> QED BY <1>1, KnownAlways, PTL

-----------------------------------------------------------------------------
(* What sign reports, it has made.                                         *)
LEMMA Reported ==
  ASSUME Known, [Next]_vars, NEW p \in Issuers, Reports(p)
  PROVE  WriteLicense(p)
<1> USE DEF Known, Commands
<1>1. pc[p] = "write" /\ exit'[p] = "ok" /\ exit[p] = "none"
  BY DEF Reports, Knows
<1>2. ASSUME UNCHANGED exit PROVE FALSE
  BY <1>1, <1>2
<1>3. ASSUME NEW q \in Issuers, Exit(q, "error") PROVE FALSE
  BY <1>1, <1>3 DEF Exit
<1>4. ASSUME NEW q \in Issuers, Exit(q, "ok") PROVE q = p
  BY <1>1, <1>4 DEF Exit
<1>5. ASSUME NEW q \in Issuers, Keygen(q) PROVE FALSE
  <2>1. CASE RunKeygen(q)
    BY <1>1, <2>1 DEF RunKeygen
  <2>2. CASE CheckKeys(q)
    BY <1>2, <1>3, <2>2 DEF CheckKeys
  <2>3. CASE WriteKeys(q)
    BY <1>1, <1>2, <1>4, <2>3 DEF WriteKeys
  <2> QED BY <1>5, <2>1, <2>2, <2>3 DEF Keygen
<1>6. ASSUME NEW q \in Issuers, Sign(q) PROVE WriteLicense(p)
  <2>1. CASE RunSign(q)
    BY <1>1, <2>1 DEF RunSign
  <2>2. CASE CheckOut(q) \/ ReadHardware(q) \/ WriteSnapshot(q) \/ IssueLicense(q)
    BY <1>2, <1>3, <2>2 DEF CheckOut, ReadHardware, WriteSnapshot, IssueLicense
  <2>3. CASE WriteLicense(q)
    BY <1>4, <2>3 DEF WriteLicense
  <2> QED BY <1>6, <2>1, <2>2, <2>3 DEF Sign
<1>7. ASSUME NEW q \in Issuers, Fail(q) PROVE FALSE
  BY <1>3, <1>7 DEF Fail
<1>8. CASE ClockForward \/ DeliverHardware \/ MoveAway \/ UNCHANGED vars
  BY <1>2, <1>8 DEF ClockForward, DeliverHardware, MoveAway, vars
<1> QED BY <1>5, <1>6, <1>7, <1>8 DEF Next

(* Whatever commands run at once, a fresh device accepts what sign reports *)
(* at some moment from its signing on, unless its notAfter was over.       *)
THEOREM SignedIsUsable == Spec => SignedCanBeUsed
<1>1. ASSUME Known, [Next]_vars, NEW p \in Issuers, Reports(p)
      PROVE  LET lic == licFile'.doc
             IN  \/ \E t \in {lic.issuedAt, lic.notBefore} : UsableFrom(lic, t)
                 \/ lic.expires /\ lic.notAfter < lic.issuedAt
  <2>1. licFile' = made[p] /\ made[p] \in Made
    BY <1>1, Reported DEF WriteLicense, Known, Knows
  <2>2. Usable(licFile'.doc)
    BY <2>1 DEF Made
  <2> QED BY <2>2 DEF Usable
<1>2. Known /\ [Next]_vars =>
        [\A p \in Issuers : Reports(p) =>
           LET lic == licFile'.doc
           IN  \/ \E t \in {lic.issuedAt, lic.notBefore} : UsableFrom(lic, t)
               \/ lic.expires /\ lic.notAfter < lic.issuedAt]_vars
  BY <1>1
<1> QED BY <1>2, KnownAlways, PTL DEF Spec, SignedCanBeUsed

-----------------------------------------------------------------------------
(* One command at a time.                                                  *)
OneCommand == \E p \in Issuers : Issuers = {p}

(* As long as no keygen was forced: what one has left in the key files at  *)
(* each of its steps, and that a license is signed with the pair's key.    *)
Paired ==
  ~overwritten =>
    /\ UnforcedKeepsPair
    /\ \A p \in Issuers :
         /\ pc[p] \in {"open private", "write private", "open public"} => pubFile = NoFile
         /\ pc[p] \in {"open public", "write public"} => privFile \in {key[p], NoFile}
         /\ pc[p] = "write public" => pubFile \in {Garbage, NoFile}
         /\ pc[p] = "write" /\ pubFile \in Keys => made[p].key = pubFile

(* A sign that is not forced goes on only while there is no license.       *)
Unreplaced ==
  \A p \in Issuers :
    pc[p] \in {"hardware", "snapshot", "key", "write"} /\ ~force[p] => licFile = NoFile

LEMMA NoSuchKey == NoFile \notin Keys /\ Garbage \notin Keys
BY SigningAssumption

LEMMA ExitIdle ==
  ASSUME Known, NEW p \in Issuers, Issuers = {p}, NEW how, Exit(p, how)
  PROVE  \A q \in Issuers : pc'[q] = "idle"
BY DEF Known, Commands, Exit, Goto

LEMMA PairedNext ==
  ASSUME OneCommand, Known, Paired, [Next]_vars PROVE Paired'
<1> SUFFICES ASSUME ~overwritten' PROVE Paired'
  BY DEF Paired
<1> USE NoSuchKey DEF Known, Commands
<1>0. PICK p \in Issuers : Issuers = {p}
  BY DEF OneCommand
<1>1. CASE UNCHANGED <<keyFiles, pc, locals, overwritten>>
  BY <1>1 DEF keyFiles, locals, Paired, UnforcedKeepsPair
<1>2. ASSUME NEW how, Exit(p, how), UNCHANGED <<keyFiles, overwritten>> PROVE Paired'
  BY <1>0, <1>2, ExitIdle DEF keyFiles, Paired, UnforcedKeepsPair
<1>3. CASE RunKeygen(p) \/ RunSign(p)
  BY <1>0, <1>3 DEF RunKeygen, RunSign, Goto, disk, locals, counters, Paired, UnforcedKeepsPair
<1>4. CASE CheckKeys(p)
  <2>1. CASE Exit(p, "error") /\ UNCHANGED counters
    BY <1>2, <1>4, <2>1 DEF CheckKeys, disk, keyFiles, counters
  <2>2. CASE ~(Exit(p, "error") /\ UNCHANGED counters)
    <3>1. /\ overwritten' = (overwritten \/ force[p])
          /\ force[p] \/ KeysThere = {}
          /\ pc' = [pc EXCEPT ![p] = "open private"]
          /\ UNCHANGED <<privFile, pubFile>>
      BY <1>4, <2>2 DEF CheckKeys, Goto, disk
    <3>2. privFile = NoFile /\ pubFile = NoFile
      BY <3>1 DEF KeysThere
    <3> QED BY <1>0, <3>1, <3>2 DEF Paired, UnforcedKeepsPair
  <2> QED BY <2>1, <2>2
<1>5. CASE WriteKeys(p)
  <2>1. overwritten' = overwritten
    BY <1>5 DEF WriteKeys, counters
  <2>2. CASE pc[p] = "open private"
    BY <1>0, <1>5, <2>1, <2>2 DEF WriteKeys, Goto, Paired, UnforcedKeepsPair
  <2>3. CASE pc[p] = "write private"
    BY <1>0, <1>5, <2>1, <2>3 DEF WriteKeys, Goto, locals, Paired, UnforcedKeepsPair
  <2>4. CASE pc[p] = "open public"
    BY <1>0, <1>5, <2>1, <2>4 DEF WriteKeys, Goto, locals, Paired, UnforcedKeepsPair
  <2>5. CASE pc[p] = "write public"
    <3>1. privFile' = privFile /\ pubFile' = key[p] /\ Exit(p, "ok")
      BY <1>5, <2>5 DEF WriteKeys
    <3>2. privFile \in {key[p], NoFile}
      BY <2>1, <2>5 DEF Paired
    <3> QED BY <1>0, <3>1, <3>2, ExitIdle DEF Paired, UnforcedKeepsPair
  <2> QED BY <1>5, <2>2, <2>3, <2>4, <2>5 DEF WriteKeys
<1>6. CASE CheckOut(p) \/ ReadHardware(p) \/ WriteSnapshot(p)
  <2>1. CASE Exit(p, "error")
    BY <1>2, <1>6, <2>1 DEF CheckOut, ReadHardware, WriteSnapshot, disk, keyFiles, counters
  <2>2. CASE ~Exit(p, "error")
    <3>1. /\ \E next \in {"hardware", "snapshot", "key"} : pc' = [pc EXCEPT ![p] = next]
          /\ UNCHANGED <<privFile, pubFile, overwritten>>
      BY <1>6, <2>2 DEF CheckOut, ReadHardware, WriteSnapshot, Goto, disk, keyFiles, counters
    <3> QED BY <1>0, <3>1 DEF Paired, UnforcedKeepsPair
  <2> QED BY <2>1, <2>2
<1>7. CASE IssueLicense(p)
  <2>1. CASE Exit(p, "error")
    BY <1>2, <1>7, <2>1 DEF IssueLicense, disk, keyFiles, counters, Exit, Goto
  <2>2. CASE ~Exit(p, "error")
    <3>1. /\ privFile \in Keys /\ pc' = [pc EXCEPT ![p] = "write"]
          /\ made'[p].key = privFile
          /\ UNCHANGED <<privFile, pubFile, overwritten>>
      BY <1>7, <2>2 DEF IssueLicense, Goto, disk
    <3> QED BY <1>0, <3>1 DEF Paired, UnforcedKeepsPair
  <2> QED BY <2>1, <2>2
<1>8. CASE WriteLicense(p) \/ Fail(p)
  BY <1>2, <1>8 DEF WriteLicense, Fail, disk, keyFiles, counters
<1>9. CASE MoveAway
  BY <1>9 DEF MoveAway, keyFiles, locals, counters, Paired, UnforcedKeepsPair
<1>10. CASE ClockForward \/ DeliverHardware \/ UNCHANGED vars
  BY <1>1, <1>10 DEF ClockForward, DeliverHardware, vars, disk, keyFiles, locals, counters
<1> QED BY <1>0, <1>3, <1>4, <1>5, <1>6, <1>7, <1>8, <1>9, <1>10 DEF Next, Keygen, Sign

LEMMA PairedAlways == OneCommand => (Spec => [](Known /\ Paired))
<1> SUFFICES ASSUME OneCommand PROVE Spec => [](Known /\ Paired)
  OBVIOUS
<1>1. Init => Known /\ Paired
  BY KnownInit, NoSuchKey DEF Init, Paired, UnforcedKeepsPair
<1>2. Known /\ Paired /\ [Next]_vars => (Known /\ Paired)'
  BY KnownNext, PairedNext
<1> QED BY <1>1, <1>2, PTL DEF Spec

(* With one command at a time, without -force the two key files never hold *)
(* halves of different pairs.                                              *)
THEOREM UnforcedAlwaysKeepsPair == OneCommand => (Spec => []UnforcedKeepsPair)
<1>1. Paired => UnforcedKeepsPair
  BY DEF Paired, UnforcedKeepsPair
<1> QED BY <1>1, PairedAlways, PTL

(* Whatever failed before, a license that sign reports passes the          *)
(* verifier's checks of document, signature and payload, and names the     *)
(* hardware of hardware.json; with one command at a time, nothing forced.  *)
THEOREM SignedAlwaysVerifies == OneCommand => (Spec => WhatIsSignedVerifies)
<1> SUFFICES ASSUME OneCommand PROVE Spec => WhatIsSignedVerifies
  OBVIOUS
<1>1. ASSUME Known, Paired, [Next]_vars, NEW p \in Issuers,
             Reports(p), ~overwritten, pubFile \in Keys
      PROVE  /\ DocumentVerdict(AsSeenWith(pubFile, licFile')) = "pass"
             /\ PayloadVerdict(licFile'.doc) = "pass"
             /\ licFile'.doc.fp = hw[p].recomputedFp
  <2>1. WriteLicense(p)
    BY <1>1, Reported
  <2> DEFINE s == made[p]
  <2>2. /\ licFile' = s /\ s \in Made /\ s.doc.fp = hw[p].recomputedFp
        /\ s.key = pubFile
    BY <1>1, <2>1 DEF WriteLicense, Known, Knows, Paired
  <2> HIDE DEF s
  <2>3. /\ s.doc \in LicenseDoc /\ s.doc.version = FormatVersion /\ s.doc.complete = TRUE
        /\ s.doc.expires => s.doc.notAfter # ZeroTime
        /\ PayloadVerdict(s.doc) = "pass"
    BY <2>2 DEF Made, SignedLicense
  <2> DEFINE d == AsSeenWith(pubFile, s)
  <2>4. /\ d \in LicenseDoc /\ d.version = s.doc.version /\ d.complete = s.doc.complete
        /\ d.expires = s.doc.expires /\ d.notAfter = s.doc.notAfter /\ d.signed = TRUE
    BY <2>2, <2>3 DEF AsSeenWith, LicenseDoc
  <2> HIDE DEF d
  <2>5. d \notin {NoFile, Garbage}
    BY <2>4, FileAssumption
  <2>6. DocumentVerdict(d) = "pass"
    BY <2>3, <2>4, <2>5 DEF DocumentVerdict
  <2> QED BY <2>2, <2>3, <2>6 DEF d
<1>2. Known /\ Paired /\ [Next]_vars =>
        [\A p \in Issuers :
           Reports(p) /\ ~overwritten /\ pubFile \in Keys =>
             /\ DocumentVerdict(AsSeenWith(pubFile, licFile')) = "pass"
             /\ PayloadVerdict(licFile'.doc) = "pass"
             /\ licFile'.doc.fp = hw[p].recomputedFp]_vars
  BY <1>1
<1> QED BY <1>2, PairedAlways, PTL DEF Spec, WhatIsSignedVerifies

LEMMA UnreplacedNext ==
  ASSUME OneCommand, Known, Unreplaced, [Next]_vars PROVE Unreplaced'
<1> USE DEF Known, Commands
<1>0. PICK p \in Issuers : Issuers = {p}
  BY DEF OneCommand
<1>1. ASSUME NEW how, Exit(p, how) PROVE Unreplaced'
  BY <1>0, <1>1, ExitIdle DEF Unreplaced
<1>2. CASE Keygen(p)
  <2>1. CASE \E how : Exit(p, how)
    BY <1>1, <2>1
  <2>2. CASE ~\E how : Exit(p, how)
    <3>1. \E next \in KeygenSteps : pc' = [pc EXCEPT ![p] = next]
      BY <1>2, <2>2 DEF Keygen, RunKeygen, CheckKeys, WriteKeys, Goto, KeygenSteps
    <3> QED BY <1>0, <3>1 DEF Unreplaced, KeygenSteps
  <2> QED BY <2>1, <2>2
<1>3. CASE RunSign(p)
  BY <1>0, <1>3 DEF RunSign, Goto, Unreplaced
<1>4. CASE CheckOut(p)
  <2>1. CASE Exit(p, "error")
    BY <1>1, <2>1
  <2>2. CASE ~Exit(p, "error")
    BY <1>0, <1>4, <2>2 DEF CheckOut, flags, disk, Unreplaced
  <2> QED BY <2>1, <2>2
<1>5. CASE ReadHardware(p) \/ WriteSnapshot(p) \/ IssueLicense(p)
  <2>1. CASE Exit(p, "error")
    BY <1>1, <2>1
  <2>2. CASE ~Exit(p, "error")
    <3>1. /\ pc[p] \in {"hardware", "snapshot", "key"} /\ force' = force /\ licFile' = licFile
      BY <1>5, <2>2 DEF ReadHardware, WriteSnapshot, IssueLicense, flags, disk
    <3> QED BY <1>0, <3>1 DEF Unreplaced
  <2> QED BY <2>1, <2>2
<1>6. CASE WriteLicense(p) \/ Fail(p)
  BY <1>1, <1>6 DEF WriteLicense, Fail
<1>7. CASE MoveAway
  BY <1>7 DEF MoveAway, flags, keyFiles, Unreplaced
<1>8. CASE ClockForward \/ DeliverHardware \/ UNCHANGED vars
  BY <1>8 DEF ClockForward, DeliverHardware, vars, disk, flags, Unreplaced
<1> QED BY <1>0, <1>2, <1>3, <1>4, <1>5, <1>6, <1>7, <1>8 DEF Next, Sign

(* With one command at a time, without -force sign replaces no license.    *)
THEOREM NeverReplacesLicense == OneCommand => (Spec => NeverReplacesUnforced)
<1> SUFFICES ASSUME OneCommand PROVE Spec => NeverReplacesUnforced
  OBVIOUS
<1>1. Spec => []Unreplaced
  <2>1. Init => Unreplaced
    BY DEF Init, Unreplaced
  <2>2. Known /\ Unreplaced /\ [Next]_vars => Unreplaced'
    BY UnreplacedNext
  <2> QED BY <2>1, <2>2, KnownAlways, PTL DEF Spec
<1>2. Unreplaced /\ [Next]_vars =>
        [\A p \in Issuers : Reports(p) /\ ~force[p] => licFile = NoFile]_vars
  BY DEF Unreplaced, Reports
<1> QED BY <1>1, <1>2, PTL DEF Spec, NeverReplacesUnforced
=============================================================================
