--------------------------- MODULE VerifierProofs ---------------------------
(***************************************************************************)
(* Machine-checked proofs about Verifier, for every value of its           *)
(* constants: any number of processes, any licenses, any times.            *)
(***************************************************************************)
EXTENDS Verifier, TLAPS

USE DEF Time, ZeroTime

-----------------------------------------------------------------------------
(* The operators of License.tla have the types their users expect.         *)

LEMMA DocumentVerdictType ==
  ASSUME NEW f
  PROVE  DocumentVerdict(f) \in Reasons \union {"pass"}
BY DEF DocumentVerdict, Reasons

LEMMA HardwareVerdictType ==
  ASSUME NEW fp, NEW l
  PROVE  HardwareVerdict(fp, l) \in Reasons \union {"pass"}
BY DEF HardwareVerdict, PayloadVerdict, Reasons

LEMMA TimeVerdictType ==
  ASSUME NEW w, NEW l, NEW t
  PROVE  TimeVerdict(w, l, t) \in Reasons
BY DEF TimeVerdict, Reasons

(* A document that passes steps 1 and 2 is a file that was installed.      *)
LEMMA PassingDocument ==
  ASSUME NEW f \in LicenseFiles, DocumentVerdict(f) = "pass"
  PROVE  f \in Licenses
BY DEF LicenseFiles, DocumentVerdict

(* The watermark a verification writes is a watermark.                     *)
LEMMA NextType ==
  ASSUME NEW w \in Watermark, NEW t \in Time
  PROVE  NextWatermark(w, t) \in Watermark
<1>1. /\ w.verifyCount + 1 \in Nat
      /\ (IF t > w.lastSeenAt THEN t ELSE w.lastSeenAt) \in Nat
      /\ (IF IsRewind(w, t) THEN w.timeRewindCount + 1
                            ELSE w.timeRewindCount) \in Nat
  BY DEF Watermark
<1> QED BY <1>1 DEF NextWatermark, Watermark

LEMMA AdvanceType ==
  ASSUME NEW w \in Watermark \union {NoFile}, NEW l \in LicenseDoc, NEW t \in Time
  PROVE  AdvanceWatermark(w, l, t) \in Watermark
<1>1. CASE w = NoFile
  <2>1. FirstWatermark(l, t) \in Watermark
    BY DEF FirstWatermark, LicenseDoc, Watermark
  <2> QED BY <1>1, <2>1 DEF AdvanceWatermark
<1>2. CASE w # NoFile
  BY <1>2, NextType DEF AdvanceWatermark
<1> QED BY <1>1, <1>2

(* What a process takes a watermark to be before it goes on: nothing, or   *)
(* what is on disk.                                                        *)
Found(p, w) == (MayMiss(p) /\ w = NoFile) \/ (MayRead(p) /\ w = wmFile.body)

LEMMA LoadOutcomes ==
  ASSUME NEW p \in Procs, LoadWatermark(p)
  PROVE  \/ Answer(p, "watermark_tampered")
         \/ \E w \in {NoFile, wmFile.body} : Found(p, w) /\ Loaded(p, w)
BY DEF LoadWatermark, Found

(* What is stored is a watermark with the key of the license.              *)
LEMMA AdvancedType ==
  ASSUME TypeOK, NEW p \in Procs, pc[p] = "save"
  PROVE  /\ lic[p] \in Licenses /\ lic[p] \in LicenseDoc
         /\ now[p] \in Time
         /\ prev[p] \in Watermark \union {NoFile}
         /\ Advanced(p) \in WatermarkDoc
<1>1. lic[p] \in Licenses /\ now[p] \in Time /\ prev[p] \in Watermark \union {NoFile}
  BY DEF TypeOK
<1>2. lic[p] \in LicenseDoc
  BY <1>1, VerifierAssumption
<1>3. AdvanceWatermark(prev[p], lic[p], now[p]) \in Watermark
  BY <1>1, <1>2, AdvanceType
<1>4. DeriveKey(lic[p].fp, lic[p].id) \in Key
  BY <1>2 DEF DeriveKey, Key, LicenseDoc
<1> QED BY <1>1, <1>2, <1>3, <1>4 DEF Advanced, WatermarkDoc

-----------------------------------------------------------------------------
(* Answer keeps the types of the variables it touches.                     *)
LEMMA AnswerType ==
  ASSUME TypeOK, NEW p \in Procs, NEW r \in Verdicts, Answer(p, r)
  PROVE  /\ pc' \in [Procs -> {"idle", "read", "hardware", "load", "save"}]
         /\ now' \in [Procs -> Time]
         /\ lic' \in [Procs -> Licenses \union {NoFile}]
         /\ prev' \in [Procs -> Watermark \union {NoFile}]
         /\ verdict' \in [Procs -> Verdicts]
         /\ \A q \in Procs :
              pc'[q] \in {"hardware", "load", "save"} => lic'[q] # NoFile
BY DEF TypeOK, Answer

(* ... and the rest when nothing else changes.                             *)
LEMMA AnswerTypeOK ==
  ASSUME TypeOK, NEW p \in Procs, NEW r \in Verdicts, Answer(p, r),
         UNCHANGED <<world, granted>>
  PROVE  TypeOK'
<1>1. UNCHANGED <<clock, licFile, wmFile, text, device, disk, granted>>
  BY DEF world
<1> QED BY <1>1, AnswerType DEF TypeOK

LEMMA TypeInit == Init => TypeOK
BY VerifierAssumption DEF Init, TypeOK, Devices, Verdicts

LEMMA TypeStep == TypeOK /\ [Next]_vars => TypeOK'
<1> SUFFICES ASSUME TypeOK, [Next]_vars PROVE TypeOK'
  OBVIOUS
<1> USE VerifierAssumption
<1>1. ASSUME NEW p \in Procs, Start(p) PROVE TypeOK'
  BY <1>1 DEF TypeOK, Start, world, Verdicts
<1>2. ASSUME NEW p \in Procs, ReadLicense(p) PROVE TypeOK'
  <2>1. CASE DocumentVerdict(licFile) = "pass"
    <3>1. licFile \in Licenses /\ licFile # NoFile
      BY <2>1, PassingDocument DEF TypeOK, DocumentVerdict
    <3> QED BY <1>2, <2>1, <3>1 DEF TypeOK, ReadLicense, world
  <2>2. CASE DocumentVerdict(licFile) # "pass"
    <3>1. DocumentVerdict(licFile) \in Verdicts
      BY <2>2, DocumentVerdictType DEF Verdicts
    <3>2. Answer(p, DocumentVerdict(licFile)) /\ UNCHANGED <<world, granted>>
      BY <1>2, <2>2 DEF ReadLicense
    <3> QED BY <3>1, <3>2, AnswerTypeOK
  <2> QED BY <2>1, <2>2
<1>3. ASSUME NEW p \in Procs, CheckHardware(p) PROVE TypeOK'
  <2>1. CASE HardwareVerdict(device, lic[p]) = "pass"
    BY <1>3, <2>1 DEF TypeOK, CheckHardware, world, local
  <2>2. CASE HardwareVerdict(device, lic[p]) # "pass"
    <3>1. HardwareVerdict(device, lic[p]) \in Verdicts
      BY <2>2, HardwareVerdictType DEF Verdicts
    <3>2. Answer(p, HardwareVerdict(device, lic[p])) /\ UNCHANGED <<world, granted>>
      BY <1>3, <2>2 DEF CheckHardware
    <3> QED BY <3>1, <3>2, AnswerTypeOK
  <2> QED BY <2>1, <2>2
<1>4. ASSUME NEW p \in Procs, LoadWatermark(p) PROVE TypeOK'
  <2>1. CASE Answer(p, "watermark_tampered")
    <3>1. "watermark_tampered" \in Verdicts /\ UNCHANGED <<world, granted>>
      BY <1>4 DEF Verdicts, Reasons, LoadWatermark
    <3> QED BY <2>1, <3>1, AnswerTypeOK
  <2>2. ASSUME NEW w, Found(p, w), Loaded(p, w) PROVE TypeOK'
    <3>1. w \in Watermark \union {NoFile}
      BY <2>2 DEF TypeOK, WatermarkDoc, MayRead, Found
    <3>2. /\ pc[p] = "load"
          /\ prev' = [prev EXCEPT ![p] = w] /\ pc' = [pc EXCEPT ![p] = "save"]
          /\ UNCHANGED <<now, lic, verdict, world, granted>>
      BY <1>4, <2>2 DEF LoadWatermark, Loaded
    <3> QED BY <3>1, <3>2 DEF TypeOK, world
  <2> QED BY <1>4, <2>1, <2>2, LoadOutcomes
<1>5. ASSUME NEW p \in Procs, SaveWatermark(p) PROVE TypeOK'
  <2>1. Answer(p, Decided(p)) /\ Decided(p) \in Verdicts
    BY <1>5, TimeVerdictType DEF SaveWatermark, Decided, Verdicts
  <2>2. /\ wmFile' = Advanced(p) /\ Advanced(p) \in WatermarkDoc
        /\ Advanced(p).body.lastSeenAt \in Nat
    BY <1>5, AdvancedType DEF SaveWatermark, WatermarkDoc, Watermark
  <2>3. granted' \in [Ids -> Time]
    BY <1>5, <2>2 DEF SaveWatermark, TypeOK
  <2>4. UNCHANGED <<clock, licFile, device, disk>> /\ text' \in {"go", "node"}
    BY <1>5 DEF SaveWatermark, Spellings
  <2> QED BY <2>1, <2>2, <2>3, <2>4, AnswerType DEF TypeOK
<1>6. ASSUME NEW p \in Procs, SaveFails(p) PROVE TypeOK'
  <2>1. PICK r \in Reasons : Answer(p, r)
    BY <1>6, TimeVerdictType DEF SaveFails, Decided, SaveFailureReason, Reasons
  <2>2. r \in Verdicts /\ UNCHANGED <<world, granted>>
    BY <1>6 DEF SaveFails, Verdicts
  <2> QED BY <2>1, <2>2, AnswerTypeOK
<1>7. ASSUME NEW p \in Procs, Crash(p) PROVE TypeOK'
  <2>1. "none" \in Verdicts /\ Answer(p, "none") /\ UNCHANGED <<world, granted>>
    BY <1>7 DEF Crash, Verdicts
  <2> QED BY <2>1, AnswerTypeOK
<1>8. CASE Environment
  BY <1>8 DEF Environment, ClockForward, ClockBack, InstallLicense,
    DeleteWatermark, ChangeHardware, Remount, TypeOK, local
<1>9. CASE UNCHANGED vars
  BY <1>9 DEF vars, TypeOK
<1> QED
  BY <1>1, <1>2, <1>3, <1>4, <1>5, <1>6, <1>7, <1>8, <1>9 DEF Next, Verify

(* Every reachable state is well typed (verify.go:42-213).                 *)
THEOREM TypeCorrect == Spec => []TypeOK
BY TypeInit, TypeStep, PTL DEF Spec

-----------------------------------------------------------------------------
(* The watermark is always sound for its license, with any number of       *)
(* processes.  A process carries the watermark it loaded from one step to  *)
(* the next, so the invariant has to speak of that copy too.               *)

SoundFor(w, id) ==
  /\ MustValidate(w)
  /\ w.licenseId = id
  /\ w.timeRewindCount < w.verifyCount

SoundInv ==
  /\ TypeOK
  /\ wmFile # NoFile => SoundFor(wmFile.body, wmFile.mac.id)
  /\ \A p \in Procs :
       /\ pc[p] # "idle" => now[p] # ZeroTime
       /\ pc[p] = "save" => prev[p] = NoFile \/ SoundFor(prev[p], lic[p].id)

(* Advancing a sound watermark, or starting one, gives a sound one.        *)
LEMMA AdvanceSound ==
  ASSUME NEW w \in Watermark \union {NoFile}, NEW l \in LicenseDoc,
         NEW t \in Time, t # ZeroTime,
         w = NoFile \/ SoundFor(w, l.id)
  PROVE  SoundFor(AdvanceWatermark(w, l, t), l.id)
<1>1. CASE w = NoFile
  BY <1>1 DEF AdvanceWatermark, FirstWatermark, SoundFor, MustValidate, LicenseDoc
<1>2. CASE w # NoFile
  <2>1. w \in Watermark /\ SoundFor(w, l.id)
    BY <1>2
  <2>2. AdvanceWatermark(w, l, t) = NextWatermark(w, t)
    BY <1>2 DEF AdvanceWatermark
  <2>3. LET n == NextWatermark(w, t) IN
        /\ n.licenseId = w.licenseId /\ n.firstSeenAt = w.firstSeenAt
        /\ n.lastSeenAt = IF t > w.lastSeenAt THEN t ELSE w.lastSeenAt
        /\ n.verifyCount = w.verifyCount + 1
        /\ n.timeRewindCount \in {w.timeRewindCount, w.timeRewindCount + 1}
    BY <2>1 DEF NextWatermark, Watermark
  <2>4. /\ w.lastSeenAt \in Nat /\ w.firstSeenAt \in Nat
        /\ w.verifyCount \in Nat /\ w.timeRewindCount \in Nat
    BY <2>1 DEF Watermark
  <2> QED BY <2>1, <2>2, <2>3, <2>4 DEF SoundFor, MustValidate
<1> QED BY <1>1, <1>2

(* What Answer leaves behind satisfies the process part of the invariant.  *)
LEMMA AnswerSound ==
  ASSUME SoundInv, NEW p \in Procs, NEW r, Answer(p, r)
  PROVE  \A q \in Procs :
           /\ pc'[q] # "idle" => now'[q] # ZeroTime
           /\ pc'[q] = "save" => prev'[q] = NoFile \/ SoundFor(prev'[q], lic'[q].id)
<1> TAKE q \in Procs
<1>1. CASE q = p
  BY <1>1 DEF SoundInv, TypeOK, Answer
<1>2. CASE q # p
  <2>1. /\ pc'[q] = pc[q] /\ now'[q] = now[q]
        /\ prev'[q] = prev[q] /\ lic'[q] = lic[q]
    BY <1>2 DEF SoundInv, TypeOK, Answer
  <2> QED BY <2>1 DEF SoundInv
<1> QED BY <1>1, <1>2

LEMMA SoundInit == Init => SoundInv
BY TypeInit DEF Init, SoundInv

LEMMA SoundStep == SoundInv /\ [Next]_vars => SoundInv'
<1> SUFFICES ASSUME SoundInv, [Next]_vars PROVE SoundInv'
  OBVIOUS
<1>0. TypeOK /\ TypeOK'
  BY TypeStep DEF SoundInv
<1>1. ASSUME NEW p \in Procs, NEW r, Answer(p, r), wmFile' = wmFile
      PROVE  SoundInv'
  BY <1>0, <1>1, AnswerSound DEF SoundInv
<1>2. ASSUME NEW p \in Procs, Start(p) PROVE SoundInv'
  <2>1. clock # ZeroTime
    BY <1>0, VerifierAssumption DEF TypeOK
  <2> QED BY <1>0, <1>2, <2>1 DEF SoundInv, TypeOK, Start, world
<1>3. ASSUME NEW p \in Procs, ReadLicense(p) PROVE SoundInv'
  <2>1. CASE DocumentVerdict(licFile) = "pass"
    <3>1. /\ pc[p] = "read" /\ pc' = [pc EXCEPT ![p] = "hardware"]
          /\ lic' = [lic EXCEPT ![p] = licFile]
          /\ UNCHANGED <<now, prev, wmFile>>
      BY <1>3, <2>1 DEF ReadLicense, world
    <3> QED BY <1>0, <3>1 DEF SoundInv, TypeOK
  <2>2. CASE DocumentVerdict(licFile) # "pass"
    BY <1>1, <1>3, <2>2 DEF ReadLicense, world
  <2> QED BY <2>1, <2>2
<1>4. ASSUME NEW p \in Procs, CheckHardware(p) PROVE SoundInv'
  <2>1. CASE HardwareVerdict(device, lic[p]) = "pass"
    BY <1>0, <1>4, <2>1 DEF SoundInv, TypeOK, CheckHardware, world, local
  <2>2. CASE HardwareVerdict(device, lic[p]) # "pass"
    BY <1>1, <1>4, <2>2 DEF CheckHardware, world
  <2> QED BY <2>1, <2>2
<1>5. ASSUME NEW p \in Procs, LoadWatermark(p) PROVE SoundInv'
  <2>1. CASE Answer(p, "watermark_tampered")
    BY <1>1, <1>5, <2>1 DEF LoadWatermark, world
  <2>2. ASSUME NEW w, Found(p, w), Loaded(p, w) PROVE SoundInv'
    <3>1. /\ pc[p] = "load"
          /\ prev' = [prev EXCEPT ![p] = w] /\ pc' = [pc EXCEPT ![p] = "save"]
          /\ UNCHANGED <<now, lic, wmFile>>
      BY <1>5, <2>2 DEF LoadWatermark, Loaded, world
    <3>2. w = NoFile \/ SoundFor(w, lic[p].id)
      BY <2>2 DEF SoundInv, SoundFor, Found, MayRead, Authentic, SameLicense
    <3> QED BY <1>0, <3>1, <3>2 DEF SoundInv, TypeOK
  <2> QED BY <1>5, <2>1, <2>2, LoadOutcomes
<1>6. ASSUME NEW p \in Procs, SaveWatermark(p) PROVE SoundInv'
  <2>1. wmFile' = Advanced(p) /\ Answer(p, Decided(p)) /\ pc[p] = "save"
    BY <1>6 DEF SaveWatermark
  <2>2. SoundFor(Advanced(p).body, lic[p].id)
    <3>1. now[p] # ZeroTime /\ (prev[p] = NoFile \/ SoundFor(prev[p], lic[p].id))
      BY <2>1 DEF SoundInv
    <3> QED BY <1>0, <2>1, <3>1, AdvancedType, AdvanceSound DEF Advanced
  <2>3. Advanced(p).mac.id = lic[p].id
    BY DEF Advanced, DeriveKey
  <2> QED BY <1>0, <2>1, <2>2, <2>3, AnswerSound DEF SoundInv
<1>7. ASSUME NEW p \in Procs, SaveFails(p) PROVE SoundInv'
  BY <1>1, <1>7 DEF SaveFails, world
<1>8. ASSUME NEW p \in Procs, Crash(p) PROVE SoundInv'
  BY <1>1, <1>8 DEF Crash, world
<1>9. CASE Environment
  BY <1>0, <1>9 DEF Environment, ClockForward, ClockBack, InstallLicense,
    DeleteWatermark, ChangeHardware, Remount, SoundInv, local
<1>10. CASE UNCHANGED vars
  BY <1>0, <1>10 DEF vars, SoundInv
<1> QED
  BY <1>2, <1>3, <1>4, <1>5, <1>6, <1>7, <1>8, <1>9, <1>10 DEF Next, Verify

LEMMA SoundAlways == Spec => []SoundInv
BY SoundInit, SoundStep, PTL DEF Spec

(* However many processes write the watermark and whatever the clock does, *)
(* MustValidate and SameLicense never refuse a watermark of the program's  *)
(* own (verify.go:141-147).                                                *)
THEOREM OwnWatermarkAlwaysSound == Spec => []OwnWatermarkIsSound
<1>1. SoundInv => OwnWatermarkIsSound
  BY DEF SoundInv, SoundFor, OwnWatermarkIsSound
<1> QED BY <1>1, SoundAlways, PTL

-----------------------------------------------------------------------------
(* One verifying process.  The invariant now says that what the process    *)
(* loaded is still what is on disk when it saves, unless the file was      *)
(* deleted in between.  With two processes it does not hold, and neither   *)
(* with one process of the twin whose stat of the watermark may fail while *)
(* there is one (watermark.ts:11-15): it starts a new watermark and, if    *)
(* the directory is back when it saves, writes it over the old one.  Hence *)
(* one process, of Go, or of the twin in a directory it can always enter.  *)

OneProcess ==
  /\ \E p \in Procs : Procs = {p}
  /\ NodeProcs = {} \/ "denied" \notin Disks

(* What such a process takes for absent is absent.                         *)
LEMMA AbsentIsAbsent ==
  ASSUME OneProcess, TypeOK, NEW p \in Procs, MayMiss(p)
  PROVE  wmFile = NoFile
BY DEF OneProcess, TypeOK, MayMiss

OneInv ==
  /\ SoundInv
  /\ GrantsAreRemembered
  /\ \A p \in Procs :
       pc[p] = "save" /\ wmFile # NoFile =>
         /\ prev[p] = wmFile.body
         /\ wmFile.mac = DeriveKey(lic[p].fp, lic[p].id)

(* What AdvanceWatermark does to a watermark that exists: nothing falls    *)
(* (watermark.go:83-95).                                                   *)
LEMMA NextOnlyRises ==
  ASSUME NEW w \in Watermark, NEW l, NEW t \in Time
  PROVE  LET n == AdvanceWatermark(w, l, t) IN
         /\ n \in Watermark
         /\ n.licenseId = w.licenseId /\ n.firstSeenAt = w.firstSeenAt
         /\ n.lastSeenAt >= w.lastSeenAt /\ n.lastSeenAt >= t
         /\ n.timeRewindCount >= w.timeRewindCount
<1>1. w # NoFile
  BY FileAssumption
<1>2. AdvanceWatermark(w, l, t) = NextWatermark(w, t)
  BY <1>1 DEF AdvanceWatermark
<1> DEFINE n == NextWatermark(w, t)
<1>3. /\ n.licenseId = w.licenseId /\ n.firstSeenAt = w.firstSeenAt
      /\ n.lastSeenAt = IF t > w.lastSeenAt THEN t ELSE w.lastSeenAt
      /\ n.timeRewindCount = IF IsRewind(w, t) THEN w.timeRewindCount + 1
                                               ELSE w.timeRewindCount
  BY DEF NextWatermark, Watermark
<1>4. /\ w.lastSeenAt \in Nat /\ w.firstSeenAt \in Nat /\ w.licenseId \in Ids
      /\ w.verifyCount \in Nat /\ w.timeRewindCount \in Nat
  BY DEF Watermark
<1>5. /\ n.lastSeenAt >= w.lastSeenAt /\ n.lastSeenAt >= t
      /\ n.timeRewindCount >= w.timeRewindCount
  <2> HIDE DEF n
  <2> QED BY <1>3, <1>4
<1>6. n \in Watermark
  BY NextType
<1> QED BY <1>2, <1>3, <1>5, <1>6

(* A save on a disk that holds a watermark: the step that the properties   *)
(* are about.                                                              *)
LEMMA SaveRises ==
  ASSUME OneInv, NEW p \in Procs, SaveWatermark(p), wmFile # NoFile
  PROVE  /\ wmFile' = Advanced(p) /\ wmFile'.body \in Watermark
         /\ wmFile'.mac = wmFile.mac
         /\ wmFile'.body.licenseId = lic[p].id
         /\ wmFile.body.licenseId = lic[p].id
         /\ wmFile'.body.firstSeenAt = wmFile.body.firstSeenAt
         /\ wmFile'.body.lastSeenAt >= wmFile.body.lastSeenAt
         /\ wmFile'.body.timeRewindCount >= wmFile.body.timeRewindCount
<1>1. /\ pc[p] = "save" /\ wmFile' = Advanced(p) /\ prev[p] = wmFile.body
      /\ wmFile.mac = DeriveKey(lic[p].fp, lic[p].id)
  BY DEF SaveWatermark, OneInv
<1>2. wmFile.body \in Watermark /\ wmFile \in WatermarkDoc
  BY DEF OneInv, SoundInv, TypeOK, WatermarkDoc
<1>3. now[p] \in Time
  BY DEF OneInv, SoundInv, TypeOK
<1>4. SoundFor(wmFile.body, wmFile.mac.id) /\ wmFile.mac.id = lic[p].id
  BY <1>1 DEF OneInv, SoundInv, DeriveKey
<1>5. wmFile.body.licenseId = lic[p].id
  BY <1>4 DEF SoundFor
<1> QED BY <1>1, <1>2, <1>3, <1>5, NextOnlyRises DEF Advanced

(* Only SaveWatermark and DeleteWatermark write the watermark.             *)
LEMMA WatermarkWriters ==
  ASSUME [Next]_vars
  PROVE  \/ wmFile' = wmFile /\ granted' = granted
         \/ \E p \in Procs : SaveWatermark(p)
         \/ DeleteWatermark
BY DEF Next, Verify, Environment, vars, world, Start, ReadLicense,
  CheckHardware, LoadWatermark, Loaded, SaveFails, Crash, ClockForward, ClockBack,
  InstallLicense, ChangeHardware, Remount

LEMMA OneInit == Init => OneInv
BY SoundInit DEF Init, OneInv, GrantsAreRemembered

LEMMA OneStep == OneProcess /\ OneInv /\ [Next]_vars => OneInv'
<1> SUFFICES ASSUME OneProcess, OneInv, [Next]_vars PROVE OneInv'
  OBVIOUS
<1>0. SoundInv /\ SoundInv' /\ TypeOK /\ TypeOK'
  BY SoundStep DEF OneInv, SoundInv
<1>1. PICK me \in Procs : Procs = {me}
  BY DEF OneProcess
<1>2. ASSUME SaveWatermark(me) PROVE OneInv'
  <2>1. pc'[me] = "idle"
    BY <1>0, <1>2 DEF SaveWatermark, Answer, TypeOK
  <2>2. /\ wmFile' = Advanced(me)
        /\ wmFile' # NoFile /\ wmFile'.body.licenseId = lic[me].id
        /\ wmFile'.body.lastSeenAt \in Nat
    <3>1. pc[me] = "save" /\ wmFile' = Advanced(me)
      BY <1>2 DEF SaveWatermark
    <3>2. Advanced(me) \in WatermarkDoc /\ now[me] \in Time /\ lic[me] \in LicenseDoc
      BY <1>0, <3>1, AdvancedType
    <3>3. now[me] # ZeroTime /\ (prev[me] = NoFile \/ SoundFor(prev[me], lic[me].id))
      BY <1>0, <3>1 DEF SoundInv
    <3>4. SoundFor(Advanced(me).body, lic[me].id)
      BY <1>0, <3>1, <3>2, <3>3, AdvancedType, AdvanceSound DEF Advanced
    <3> QED BY <3>1, <3>2, <3>4, FileAssumption DEF SoundFor, WatermarkDoc, Watermark
  <2>3. \A id \in Ids : granted[id] # ZeroTime =>
          /\ id = lic[me].id
          /\ wmFile'.body.lastSeenAt >= granted[id]
    <3> TAKE id \in Ids
    <3> HAVE granted[id] # ZeroTime
    <3>1. Watermarked(wmFile, id) /\ wmFile.body.lastSeenAt >= granted[id]
      BY DEF OneInv, GrantsAreRemembered
    <3>2. wmFile # NoFile /\ wmFile.body.licenseId = id
      BY <3>1 DEF Watermarked
    <3>3. /\ wmFile.body.licenseId = lic[me].id
          /\ wmFile'.body.lastSeenAt >= wmFile.body.lastSeenAt
      BY <1>2, <3>2, SaveRises
    <3>4. wmFile.body.lastSeenAt \in Nat /\ granted[id] \in Nat
      BY <1>0, <3>2 DEF TypeOK, WatermarkDoc, Watermark
    <3> QED BY <2>2, <3>1, <3>2, <3>3, <3>4
  <2>4. \A id \in Ids : granted'[id] # ZeroTime =>
          /\ id = lic[me].id
          /\ wmFile'.body.lastSeenAt >= granted'[id]
    <3> TAKE id \in Ids
    <3>1. CASE granted'[id] = granted[id]
      BY <2>3, <3>1
    <3>2. CASE granted'[id] # granted[id]
      <4>1. id = lic[me].id /\ granted'[id] = Advanced(me).body.lastSeenAt
        BY <1>0, <1>2, <3>2 DEF SaveWatermark, TypeOK
      <4> QED BY <2>2, <4>1
    <3> QED BY <3>1, <3>2
  <2>5. GrantsAreRemembered'
    BY <2>2, <2>4 DEF GrantsAreRemembered, Watermarked
  <2> QED BY <1>0, <1>1, <2>1, <2>5 DEF OneInv
<1>3. CASE DeleteWatermark
  BY <1>0, <1>3 DEF DeleteWatermark, OneInv, GrantsAreRemembered
<1>4. ASSUME wmFile' = wmFile, granted' = granted PROVE OneInv'
  <2>1. GrantsAreRemembered'
    BY <1>4 DEF OneInv, GrantsAreRemembered
  <2>2. ASSUME pc'[me] = "save", wmFile # NoFile
        PROVE  /\ prev'[me] = wmFile.body
               /\ wmFile.mac = DeriveKey(lic'[me].fp, lic'[me].id)
    <3>1. CASE pc[me] = "save"
      <4>1. prev'[me] = prev[me] /\ lic'[me] = lic[me]
        BY <1>0, <1>1, <1>4, <2>2, <3>1 DEF Next, Verify, Environment, vars,
          world, local, Start, ReadLicense, CheckHardware, LoadWatermark, Loaded,
          SaveWatermark, SaveFails, Crash, ClockForward, ClockBack,
          InstallLicense, DeleteWatermark, ChangeHardware, Remount, Answer, TypeOK
      <4> QED BY <2>2, <3>1, <4>1 DEF OneInv
    <3>2. CASE pc[me] # "save"
      <4>1. LoadWatermark(me)
        BY <1>0, <1>1, <1>4, <2>2, <3>2 DEF Next, Verify, Environment, vars,
          world, local, Start, ReadLicense, CheckHardware, LoadWatermark, Loaded,
          SaveWatermark, SaveFails, Crash, ClockForward, ClockBack,
          InstallLicense, DeleteWatermark, ChangeHardware, Remount, Answer, TypeOK
      <4>2. ~Answer(me, "watermark_tampered")
        BY <1>0, <2>2 DEF Answer, TypeOK
      <4>3. ~MayMiss(me)
        BY <1>0, <2>2, AbsentIsAbsent
      <4>4. MayRead(me) /\ Loaded(me, wmFile.body)
        BY <4>1, <4>2, <4>3 DEF LoadWatermark
      <4> QED
        BY <1>0, <4>4 DEF MayRead, Loaded, Authentic, TypeOK
    <3> QED BY <3>1, <3>2
  <2> QED BY <1>0, <1>1, <1>4, <2>1, <2>2 DEF OneInv
<1> QED BY <1>1, <1>2, <1>3, <1>4, WatermarkWriters

LEMMA OneAlways == OneProcess => (Spec => []OneInv)
<1> SUFFICES ASSUME OneProcess PROVE Spec => []OneInv
  OBVIOUS
<1>1. OneInv /\ [Next]_vars => OneInv'
  BY OneStep
<1> QED BY <1>1, OneInit, PTL DEF Spec

(* One process that never takes its watermark for absent: a time for which *)
(* "ok" was answered stays on disk until the watermark is deleted          *)
(* (verify.go:191-195, watermark.go:32-36).                                *)
THEOREM GrantsAlwaysRemembered == OneProcess => (Spec => []GrantsAreRemembered)
<1>1. OneInv => GrantsAreRemembered
  BY DEF OneInv
<1> QED BY <1>1, OneAlways, PTL

(* One process that never takes its watermark for absent: while it exists, *)
(* the watermark's times and counters never fall and it stays the same     *)
(* license's (types.go:86, watermark.go:17).                               *)
THEOREM WatermarkAlwaysRises == OneProcess => (Spec => WatermarkOnlyRises)
<1> SUFFICES ASSUME OneProcess PROVE Spec => WatermarkOnlyRises
  OBVIOUS
<1> DEFINE Rises ==
      wmFile # NoFile /\ wmFile' # NoFile =>
        /\ wmFile'.mac = wmFile.mac
        /\ wmFile'.body.firstSeenAt = wmFile.body.firstSeenAt
        /\ wmFile'.body.lastSeenAt >= wmFile.body.lastSeenAt
        /\ wmFile'.body.timeRewindCount >= wmFile.body.timeRewindCount
<1>1. OneInv /\ [Next]_vars => Rises
  <2> SUFFICES ASSUME OneInv, [Next]_vars, wmFile # NoFile, wmFile' # NoFile
               PROVE  Rises
    OBVIOUS
  <2>1. CASE wmFile' = wmFile
    <3>1. wmFile.body.lastSeenAt \in Nat /\ wmFile.body.timeRewindCount \in Nat
      BY DEF OneInv, SoundInv, TypeOK, WatermarkDoc, Watermark
    <3> QED BY <2>1, <3>1
  <2>2. ASSUME NEW p \in Procs, SaveWatermark(p) PROVE Rises
    BY <2>2, SaveRises
  <2>3. CASE DeleteWatermark
    BY <2>3 DEF DeleteWatermark
  <2> QED BY <2>1, <2>2, <2>3, WatermarkWriters
<1>2. OneInv /\ [Next]_vars => [Rises]_vars
  BY <1>1
<1> QED BY <1>2, OneAlways, OneStep, PTL DEF Spec, WatermarkOnlyRises

(* An "ok" is a save of the watermark: no other step of any process, and   *)
(* nothing in the environment, answers it (verify.go:191-195).             *)
LEMMA OkIsASave ==
  ASSUME TypeOK, [Next]_vars, NEW p \in Procs, AnswersOk(p)
  PROVE  SaveWatermark(p) /\ Decided(p) = "ok"
<1>1. pc'[p] # pc[p]
  BY DEF AnswersOk
<1>2. PICK q \in Procs : Verify(q) \/ Crash(q)
  BY <1>1 DEF Next, vars, Environment, ClockForward, ClockBack, InstallLicense,
    DeleteWatermark, ChangeHardware, Remount
<1>3. p = q
  BY <1>1, <1>2 DEF Verify, Start, ReadLicense, CheckHardware, LoadWatermark, Loaded,
    SaveWatermark, SaveFails, Crash, Answer, TypeOK, local
<1>4. SaveWatermark(p) \/ SaveFails(p) \/ Crash(p)
  BY <1>2, <1>3 DEF AnswersOk, Verify, Start, ReadLicense, CheckHardware,
    LoadWatermark, Loaded, Answer, TypeOK
<1>5. CASE SaveFails(p)
  BY <1>5 DEF SaveFails, SaveFailureReason, Answer, AnswersOk, TypeOK
<1>6. CASE Crash(p)
  BY <1>6 DEF Crash, Answer, AnswersOk, TypeOK
<1>7. CASE SaveWatermark(p)
  BY <1>7 DEF SaveWatermark, Answer, AnswersOk, TypeOK
<1> QED BY <1>4, <1>5, <1>6, <1>7

(* What the decision "ok" says of the watermark that is saved with it.     *)
LEMMA DecidedOk ==
  ASSUME TypeOK, NEW p \in Procs, pc[p] = "save", Decided(p) = "ok"
  PROVE  /\ Advanced(p).body.timeRewindCount <= MaxTimeRewinds
         /\ Advanced(p).body.lastSeenAt >= lic[p].notBefore
         /\ lic[p].expires => Advanced(p).body.lastSeenAt <= lic[p].notAfter
<1>1. /\ Advanced(p).body \in Watermark /\ lic[p] \in LicenseDoc
      /\ Advanced(p).body = AdvanceWatermark(prev[p], lic[p], now[p])
  BY AdvancedType DEF WatermarkDoc, Advanced
<1>2. /\ ~(Advanced(p).body.timeRewindCount > MaxTimeRewinds)
      /\ ~(Advanced(p).body.lastSeenAt < lic[p].notBefore)
      /\ lic[p].expires => ~(Advanced(p).body.lastSeenAt > lic[p].notAfter)
  BY <1>1 DEF Decided, TimeVerdict, Effective
<1>3. /\ Advanced(p).body.timeRewindCount \in Nat
      /\ Advanced(p).body.lastSeenAt \in Nat
      /\ lic[p].notBefore \in Nat /\ lic[p].notAfter \in Nat
  BY <1>1 DEF Watermark, LicenseDoc
<1> QED BY <1>2, <1>3, TimeAssumption

(* One process that never takes its watermark for absent: the effective    *)
(* clock behind the answers "ok" for one license never goes back           *)
(* (verify.go:151, 167-174).                                               *)
THEOREM OkNeverBack == OneProcess => (Spec => OkNeverGoesBack)
<1> SUFFICES ASSUME OneProcess PROVE Spec => OkNeverGoesBack
  OBVIOUS
<1> DEFINE Forward ==
      \A p \in Procs :
        AnswersOk(p) => Advanced(p).body.lastSeenAt >= granted[lic[p].id]
<1>1. OneInv /\ [Next]_vars => Forward
  <2> SUFFICES ASSUME OneInv, [Next]_vars, NEW p \in Procs, AnswersOk(p)
               PROVE  Advanced(p).body.lastSeenAt >= granted[lic[p].id]
    OBVIOUS
  <2>0. TypeOK
    BY DEF OneInv, SoundInv
  <2>1. SaveWatermark(p) /\ wmFile' = Advanced(p) /\ pc[p] = "save"
    BY <2>0, OkIsASave DEF SaveWatermark
  <2>2. /\ lic[p].id \in Ids /\ Advanced(p).body.lastSeenAt \in Nat
        /\ granted[lic[p].id] \in Nat
    BY <2>0, <2>1, AdvancedType DEF LicenseDoc, WatermarkDoc, Watermark, TypeOK
  <2>3. CASE granted[lic[p].id] = ZeroTime
    BY <2>2, <2>3
  <2>4. CASE granted[lic[p].id] # ZeroTime
    <3>1. wmFile # NoFile /\ wmFile.body.lastSeenAt >= granted[lic[p].id]
      BY <2>2, <2>4 DEF OneInv, GrantsAreRemembered, Watermarked
    <3>2. Advanced(p).body.lastSeenAt >= wmFile.body.lastSeenAt
      BY <2>1, <3>1, SaveRises
    <3>3. wmFile.body.lastSeenAt \in Nat
      BY <2>0, <3>1 DEF TypeOK, WatermarkDoc, Watermark
    <3> QED BY <2>2, <3>1, <3>2, <3>3
  <2> QED BY <2>3, <2>4
<1>2. OneInv /\ [Next]_vars => [Forward]_vars
  BY <1>1
<1> QED BY <1>2, OneAlways, OneStep, PTL DEF Spec, OkNeverGoesBack

(* One process that never takes its watermark for absent: expiry and       *)
(* lockout that reached the disk are final (verify.go:153-174).            *)
THEOREM RefusalsAlwaysFinal == OneProcess => (Spec => RefusalsAreFinal)
<1> SUFFICES ASSUME OneProcess PROVE Spec => RefusalsAreFinal
  OBVIOUS
<1> DEFINE Final ==
      \A p \in Procs :
        /\ AnswersOk(p)
        /\ Watermarked(wmFile, lic[p].id)
        => /\ wmFile.body.timeRewindCount <= MaxTimeRewinds
           /\ lic[p].expires => wmFile.body.lastSeenAt <= lic[p].notAfter
<1>1. OneInv /\ [Next]_vars => Final
  <2> SUFFICES ASSUME OneInv, [Next]_vars, NEW p \in Procs, AnswersOk(p),
                      Watermarked(wmFile, lic[p].id)
               PROVE  /\ wmFile.body.timeRewindCount <= MaxTimeRewinds
                      /\ lic[p].expires =>
                           wmFile.body.lastSeenAt <= lic[p].notAfter
    OBVIOUS
  <2>0. TypeOK
    BY DEF OneInv, SoundInv
  <2>1. SaveWatermark(p) /\ Decided(p) = "ok" /\ wmFile # NoFile /\ pc[p] = "save"
    BY <2>0, OkIsASave DEF AnswersOk, Watermarked
  <2>2. /\ Advanced(p).body.lastSeenAt >= wmFile.body.lastSeenAt
        /\ Advanced(p).body.timeRewindCount >= wmFile.body.timeRewindCount
    BY <2>1, SaveRises
  <2>3. /\ Advanced(p).body.timeRewindCount <= MaxTimeRewinds
        /\ lic[p].expires => Advanced(p).body.lastSeenAt <= lic[p].notAfter
    BY <2>0, <2>1, DecidedOk
  <2>4. /\ wmFile.body \in Watermark /\ Advanced(p).body \in Watermark
        /\ lic[p] \in LicenseDoc
    BY <2>0, <2>1, AdvancedType DEF TypeOK, WatermarkDoc
  <2>5. /\ wmFile.body.lastSeenAt \in Nat /\ Advanced(p).body.lastSeenAt \in Nat
        /\ wmFile.body.timeRewindCount \in Nat
        /\ Advanced(p).body.timeRewindCount \in Nat
        /\ lic[p].notAfter \in Nat
    BY <2>4 DEF Watermark, LicenseDoc
  <2> QED BY <2>2, <2>3, <2>5, TimeAssumption
<1>2. OneInv /\ [Next]_vars => [Final]_vars
  BY <1>1
<1> QED BY <1>2, OneAlways, OneStep, PTL DEF Spec, RefusalsAreFinal

-----------------------------------------------------------------------------
(* "ok" with any number of processes.  What the payload check found is     *)
(* still true of the license a process holds when it saves.                *)

BoundInv ==
  /\ TypeOK
  /\ \A p \in Procs :
       pc[p] \in {"load", "save"} => PayloadVerdict(lic[p]) = "pass"

LEMMA BoundInit == Init => BoundInv
BY TypeInit DEF Init, BoundInv

LEMMA BoundStep == BoundInv /\ [Next]_vars => BoundInv'
<1> SUFFICES ASSUME BoundInv, [Next]_vars,
                    NEW p \in Procs, pc'[p] \in {"load", "save"}
             PROVE  PayloadVerdict(lic'[p]) = "pass"
  BY TypeStep DEF BoundInv
<1>0. TypeOK
  BY DEF BoundInv
<1>1. CASE pc[p] \in {"load", "save"}
  <2>1. lic'[p] = lic[p]
    BY <1>0, <1>1 DEF Next, Verify, Environment, vars, world, local, Start,
      ReadLicense, CheckHardware, LoadWatermark, Loaded, SaveWatermark, SaveFails,
      Crash, ClockForward, ClockBack, InstallLicense, DeleteWatermark,
      ChangeHardware, Remount, Answer, TypeOK
  <2> QED BY <1>1, <2>1 DEF BoundInv
<1>2. CASE pc[p] \notin {"load", "save"}
  <2>1. CheckHardware(p) /\ lic'[p] = lic[p] /\ pc'[p] = "load"
    BY <1>0, <1>2 DEF Next, Verify, Environment, vars, world, local, Start,
      ReadLicense, CheckHardware, LoadWatermark, Loaded, SaveWatermark, SaveFails,
      Crash, ClockForward, ClockBack, InstallLicense, DeleteWatermark,
      ChangeHardware, Remount, Answer, TypeOK
  <2>2. HardwareVerdict(device, lic[p]) = "pass"
    BY <1>0, <2>1 DEF CheckHardware, Answer, TypeOK
  <2> QED BY <2>1, <2>2 DEF HardwareVerdict
<1> QED BY <1>1, <1>2

LEMMA BoundAlways == Spec => []BoundInv
BY BoundInit, BoundStep, PTL DEF Spec

(* The watermark a verification writes is not behind the clock it read.    *)
LEMMA AdvanceCoversNow ==
  ASSUME NEW w \in Watermark \union {NoFile}, NEW l \in LicenseDoc, NEW t \in Time
  PROVE  AdvanceWatermark(w, l, t).lastSeenAt >= t
<1>1. CASE w = NoFile
  BY <1>1 DEF AdvanceWatermark, FirstWatermark, LicenseDoc
<1>2. CASE w # NoFile
  BY <1>2, NextOnlyRises
<1> QED BY <1>1, <1>2

(* However processes, crashes and operators interleave, "ok" is answered   *)
(* only inside the license's window and with its own watermark on disk     *)
(* (verify.go:115-195).                                                    *)
THEOREM OkAlwaysBacked == Spec => OkIsBacked
<1> DEFINE Backed ==
      \A p \in Procs :
        AnswersOk(p) =>
          /\ lic[p].expires => now[p] <= lic[p].notAfter
          /\ Advanced(p).body.lastSeenAt >= lic[p].notBefore
          /\ lic[p].payload.id = lic[p].id
          /\ wmFile' # NoFile
          /\ wmFile'.mac = lic[p].payload.key
          /\ wmFile'.body.lastSeenAt >= now[p]
<1>1. BoundInv /\ [Next]_vars => Backed
  <2> SUFFICES ASSUME BoundInv, [Next]_vars, NEW p \in Procs, AnswersOk(p)
               PROVE  /\ lic[p].expires => now[p] <= lic[p].notAfter
                      /\ Advanced(p).body.lastSeenAt >= lic[p].notBefore
                      /\ lic[p].payload.id = lic[p].id
                      /\ wmFile' # NoFile
                      /\ wmFile'.mac = lic[p].payload.key
                      /\ wmFile'.body.lastSeenAt >= now[p]
    OBVIOUS
  <2>0. TypeOK
    BY DEF BoundInv
  <2>1. /\ SaveWatermark(p) /\ Decided(p) = "ok" /\ pc[p] = "save"
        /\ wmFile' = Advanced(p)
    BY <2>0, OkIsASave DEF SaveWatermark
  <2>2. /\ lic[p] \in LicenseDoc /\ now[p] \in Time
        /\ prev[p] \in Watermark \union {NoFile}
        /\ Advanced(p) \in WatermarkDoc
    BY <2>0, <2>1, AdvancedType
  <2>3. PayloadVerdict(lic[p]) = "pass"
    BY <2>1 DEF BoundInv
  <2>4. /\ lic[p].payload.id = lic[p].id
        /\ lic[p].payload.key = Advanced(p).mac
    BY <2>3 DEF PayloadVerdict, Advanced
  <2>5. Advanced(p).body.lastSeenAt >= now[p]
    BY <2>2, AdvanceCoversNow DEF Advanced
  <2>6. /\ Advanced(p).body.lastSeenAt >= lic[p].notBefore
        /\ lic[p].expires => Advanced(p).body.lastSeenAt <= lic[p].notAfter
    BY <2>0, <2>1, DecidedOk
  <2>7. /\ now[p] \in Nat /\ lic[p].notAfter \in Nat
        /\ Advanced(p).body.lastSeenAt \in Nat
    BY <2>2 DEF LicenseDoc, WatermarkDoc, Watermark
  <2>8. lic[p].expires => now[p] <= lic[p].notAfter
    BY <2>5, <2>6, <2>7
  <2>9. wmFile' # NoFile
    BY <2>1, <2>2, FileAssumption
  <2> QED BY <2>1, <2>4, <2>5, <2>6, <2>8, <2>9
<1>2. BoundInv /\ [Next]_vars => [Backed]_vars
  BY <1>1
<1> QED BY <1>2, BoundAlways, BoundStep, PTL DEF Spec, OkIsBacked

-----------------------------------------------------------------------------
(* What Verify demands of a document on hardware that stays as it is: the  *)
(* checks of steps 1 to 5, all at once and none of them out of date.       *)
Fits(l, fp) ==
  /\ l.version = FormatVersion /\ l.complete /\ l.signed
  /\ l.expires => l.notAfter # ZeroTime
  /\ l.fp = fp
  /\ l.payload.key = DeriveKey(fp, l.id)
  /\ l.payload.id = l.id
  /\ l.payload.expires = l.expires
  /\ l.payload.notAfter = l.notAfter

(* A process past a check holds a document that passes it, whatever was    *)
(* installed since it read its own.                                        *)
FitsInv ==
  /\ TypeOK
  /\ \A p \in Procs :
       /\ pc[p] = "hardware" => DocumentVerdict(lic[p]) = "pass"
       /\ pc[p] \in {"load", "save"} => Fits(lic[p], device)

LEMMA PassesBoth ==
  ASSUME NEW l, NEW fp, DocumentVerdict(l) = "pass", HardwareVerdict(fp, l) = "pass"
  PROVE  Fits(l, fp)
BY DEF DocumentVerdict, HardwareVerdict, PayloadVerdict, Fits

LEMMA FitsInit == Init => FitsInv
BY TypeInit DEF Init, FitsInv

LEMMA FitsStep == FitsInv /\ [Next]_vars /\ UNCHANGED device => FitsInv'
<1> SUFFICES ASSUME FitsInv, [Next]_vars, UNCHANGED device, NEW p \in Procs
             PROVE  /\ pc'[p] = "hardware" => DocumentVerdict(lic'[p]) = "pass"
                    /\ pc'[p] \in {"load", "save"} => Fits(lic'[p], device)
  BY TypeStep DEF FitsInv
<1>0. TypeOK
  BY DEF FitsInv
<1>1. CASE pc'[p] = "hardware"
  <2>1. \/ pc[p] = "hardware" /\ lic'[p] = lic[p]
        \/ DocumentVerdict(licFile) = "pass" /\ lic'[p] = licFile
    BY <1>0, <1>1 DEF Next, Verify, Environment, vars, world, local, Start,
      ReadLicense, CheckHardware, LoadWatermark, Loaded, SaveWatermark, SaveFails,
      Crash, ClockForward, ClockBack, InstallLicense, DeleteWatermark,
      ChangeHardware, Remount, Answer, TypeOK
  <2> QED BY <1>1, <2>1 DEF FitsInv
<1>2. CASE pc'[p] \in {"load", "save"} /\ pc[p] \in {"load", "save"}
  <2>1. lic'[p] = lic[p]
    BY <1>0, <1>2 DEF Next, Verify, Environment, vars, world, local, Start,
      ReadLicense, CheckHardware, LoadWatermark, Loaded, SaveWatermark, SaveFails,
      Crash, ClockForward, ClockBack, InstallLicense, DeleteWatermark,
      ChangeHardware, Remount, Answer, TypeOK
  <2> QED BY <1>2, <2>1 DEF FitsInv
<1>3. CASE pc'[p] \in {"load", "save"} /\ pc[p] \notin {"load", "save"}
  <2>1. CheckHardware(p) /\ lic'[p] = lic[p] /\ pc[p] = "hardware" /\ pc'[p] = "load"
    BY <1>0, <1>3 DEF Next, Verify, Environment, vars, world, local, Start,
      ReadLicense, CheckHardware, LoadWatermark, Loaded, SaveWatermark, SaveFails,
      Crash, ClockForward, ClockBack, InstallLicense, DeleteWatermark,
      ChangeHardware, Remount, Answer, TypeOK
  <2>2. HardwareVerdict(device, lic[p]) = "pass"
    BY <1>0, <2>1 DEF CheckHardware, Answer, TypeOK
  <2>3. DocumentVerdict(lic[p]) = "pass"
    BY <2>1 DEF FitsInv
  <2> QED BY <2>1, <2>2, <2>3, PassesBoth
<1> QED BY <1>1, <1>2, <1>3

(* On a device whose hardware stays as it is, "ok" is answered only to a   *)
(* complete and signed document of this format that was issued for this    *)
(* device and whose payload says what its header says, whatever other      *)
(* documents an operator puts in its place and however many processes read *)
(* them (verify.go:60-133).                                                *)
THEOREM OkIsForThisDevice ==
  Spec /\ [][UNCHANGED device]_vars =>
    [][\A p \in Procs : AnswersOk(p) => Fits(lic[p], device)]_vars
<1> DEFINE Fitting == \A p \in Procs : AnswersOk(p) => Fits(lic[p], device)
<1>1. FitsInv /\ [Next]_vars => Fitting
  <2> SUFFICES ASSUME FitsInv, [Next]_vars, NEW p \in Procs, AnswersOk(p)
               PROVE  Fits(lic[p], device)
    OBVIOUS
  <2> QED BY DEF FitsInv, AnswersOk
<1>2. FitsInv /\ [Next]_vars => [Fitting]_vars
  BY <1>1
<1>3. FitsInv /\ [Next]_vars /\ [UNCHANGED device]_vars => FitsInv'
  <2>1. [UNCHANGED device]_vars => UNCHANGED device
    BY DEF vars
  <2> QED BY <2>1, FitsStep
<1> QED BY <1>2, <1>3, FitsInit, PTL DEF Spec

-----------------------------------------------------------------------------
(* With one verifying process the verifier implements the abstract         *)
(* high-water mark of HighWater.tla.                                       *)

LEMMA MarkInit == Init => Mark!HWInit
BY DEF Init, Mark!HWInit

LEMMA MarkStep ==
  OneProcess /\ OneInv /\ OneInv' /\ [Next]_vars => [Mark!HWNext]_(Mark!hwVars)
<1> SUFFICES ASSUME OneProcess, OneInv, OneInv', [Next]_vars
             PROVE  [Mark!HWNext]_(Mark!hwVars)
  OBVIOUS
<1>0. TypeOK /\ TypeOK'
  BY DEF OneInv, SoundInv
<1>1. ASSUME NEW p \in Procs, NEW r \in Verdicts \ {"ok"}, Answer(p, r),
             wmFile' = wmFile
      PROVE  Mark!Refuse(p)
  BY <1>1 DEF Answer, Mark!Refuse, Verdicts
<1>2. ASSUME NEW p \in Procs, SaveWatermark(p) PROVE Mark!Observe(p)
  <2>1. /\ pc[p] = "save" /\ wmFile' = Advanced(p)
        /\ verdict' = [verdict EXCEPT ![p] = Decided(p)]
    BY <1>2 DEF SaveWatermark, Answer
  <2>2. /\ Advanced(p) \in WatermarkDoc /\ lic[p] \in LicenseDoc
        /\ wmFile' # NoFile
    BY <1>0, <2>1, AdvancedType, FileAssumption
  <2>3. /\ wmFile'.body.licenseId \in Ids
        /\ wmFile'.body.lastSeenAt \in Nat
        /\ wmFile'.body.timeRewindCount \in Nat
    BY <2>1, <2>2 DEF WatermarkDoc, Watermark
  <2>4. wmFile # NoFile =>
          /\ wmFile.body.licenseId = wmFile'.body.licenseId
          /\ wmFile'.body.lastSeenAt >= wmFile.body.lastSeenAt
          /\ wmFile'.body.timeRewindCount >= wmFile.body.timeRewindCount
    BY <1>2, SaveRises
  <2>5. /\ Decided(p) \in Reasons
        /\ Decided(p) = "ok" => wmFile'.body.timeRewindCount <= MaxTimeRewinds
        /\ wmFile'.body.timeRewindCount > MaxTimeRewinds =>
             Decided(p) = "time_rewind"
    <3>1. Decided(p) \in Reasons
      BY TimeVerdictType DEF Decided
    <3>2. Decided(p) = "ok" => Advanced(p).body.timeRewindCount <= MaxTimeRewinds
      BY <1>0, <2>1, DecidedOk
    <3>3. Advanced(p).body.timeRewindCount > MaxTimeRewinds =>
            Decided(p) = "time_rewind"
      BY DEF Advanced, Decided, TimeVerdict
    <3> QED BY <2>1, <3>1, <3>2, <3>3
  <2>6. \E a \in Reasons \union {"none"} :
          /\ verdict' = [verdict EXCEPT ![p] = a]
          /\ a = "ok" => wmFile'.body.timeRewindCount <= MaxTimeRewinds
          /\ wmFile'.body.timeRewindCount > MaxTimeRewinds => a = "time_rewind"
    BY <2>1, <2>5
  <2> DEFINE ownerBar == IF wmFile = NoFile THEN NoFile ELSE wmFile.body.licenseId
             markBar == IF wmFile = NoFile THEN ZeroTime ELSE wmFile.body.lastSeenAt
             strikesBar == IF wmFile = NoFile THEN 0
                           ELSE wmFile.body.timeRewindCount
  <2>7. /\ ownerBar' = wmFile'.body.licenseId
        /\ markBar' = wmFile'.body.lastSeenAt
        /\ strikesBar' = wmFile'.body.timeRewindCount
    BY <2>2
  <2>8. ownerBar' \in Ids /\ ownerBar \in {NoFile, ownerBar'}
    BY <2>3, <2>4, <2>7
  <2>9. /\ markBar' \in Nat /\ markBar' >= markBar
        /\ strikesBar' \in Nat /\ strikesBar' >= strikesBar
    BY <2>3, <2>4, <2>7
  <2>10. \E a \in Reasons \union {"none"} :
           /\ verdict' = [verdict EXCEPT ![p] = a]
           /\ a = "ok" => strikesBar' <= MaxTimeRewinds
           /\ strikesBar' > MaxTimeRewinds => a = "time_rewind"
    BY <2>6, <2>7
  <2> HIDE DEF ownerBar, markBar, strikesBar
  <2>11. /\ ownerBar' \in Ids /\ ownerBar \in {NoFile, ownerBar'}
         /\ markBar' \in Nat /\ markBar' >= markBar
         /\ strikesBar' \in Nat /\ strikesBar' >= strikesBar
         /\ \E a \in Reasons \union {"none"} :
              /\ verdict' = [verdict EXCEPT ![p] = a]
              /\ a = "ok" => strikesBar' <= MaxTimeRewinds
              /\ strikesBar' > MaxTimeRewinds => a = "time_rewind"
    BY <2>8, <2>9, <2>10
  <2> QED BY ONLY <2>11 DEF Mark!Observe, ownerBar, markBar, strikesBar
<1>3. ASSUME NEW p \in Procs, Verify(p) \/ Crash(p)
      PROVE  [Mark!HWNext]_(Mark!hwVars)
  <2>1. CASE Start(p)
    BY <2>1 DEF Start, world, Mark!HWNext, Mark!Refuse, Verdicts
  <2>2. CASE ReadLicense(p)
    <3>1. CASE DocumentVerdict(licFile) = "pass"
      BY <2>2, <3>1 DEF ReadLicense, world, Mark!hwVars
    <3>2. CASE DocumentVerdict(licFile) # "pass"
      <4>1. DocumentVerdict(licFile) \in Verdicts \ {"ok"}
        BY <3>2 DEF DocumentVerdict, Verdicts, Reasons
      <4> QED BY <1>1, <2>2, <3>2, <4>1 DEF ReadLicense, world, Mark!HWNext
    <3> QED BY <3>1, <3>2
  <2>3. CASE CheckHardware(p)
    <3>1. CASE HardwareVerdict(device, lic[p]) = "pass"
      BY <2>3, <3>1 DEF CheckHardware, world, local, Mark!hwVars
    <3>2. CASE HardwareVerdict(device, lic[p]) # "pass"
      <4>1. HardwareVerdict(device, lic[p]) \in Verdicts \ {"ok"}
        BY <3>2 DEF HardwareVerdict, PayloadVerdict, Verdicts, Reasons
      <4> QED BY <1>1, <2>3, <3>2, <4>1 DEF CheckHardware, world, Mark!HWNext
    <3> QED BY <3>1, <3>2
  <2>4. CASE LoadWatermark(p)
    <3>1. CASE Answer(p, "watermark_tampered")
      <4>1. "watermark_tampered" \in Verdicts \ {"ok"} /\ wmFile' = wmFile
        BY <2>4 DEF LoadWatermark, world, Verdicts, Reasons
      <4> QED BY <1>1, <3>1, <4>1 DEF Mark!HWNext
    <3>2. CASE ~Answer(p, "watermark_tampered")
      BY <2>4, <3>2 DEF LoadWatermark, Loaded, world, Mark!hwVars
    <3> QED BY <3>1, <3>2
  <2>5. CASE SaveWatermark(p)
    BY <1>2, <2>5 DEF Mark!HWNext
  <2>6. CASE SaveFails(p)
    <3>1. PICK r \in Verdicts \ {"ok"} : Answer(p, r)
      BY <2>6, TimeVerdictType
        DEF SaveFails, Decided, SaveFailureReason, Verdicts, Reasons
    <3> QED BY <1>1, <2>6, <3>1 DEF SaveFails, world, Mark!HWNext
  <2>7. CASE Crash(p)
    <3>1. "none" \in Verdicts \ {"ok"}
      BY DEF Verdicts
    <3> QED BY <1>1, <2>7, <3>1 DEF Crash, world, Mark!HWNext
  <2> QED BY <1>3, <2>1, <2>2, <2>3, <2>4, <2>5, <2>6, <2>7 DEF Verify
<1>4. CASE DeleteWatermark
  BY <1>4 DEF DeleteWatermark, Mark!HWNext, Mark!Forget
<1>5. CASE UNCHANGED <<wmFile, verdict>>
  BY <1>5 DEF Mark!hwVars
<1>6. ASSUME Environment, ~DeleteWatermark PROVE UNCHANGED <<wmFile, verdict>>
  BY <1>6 DEF Environment, ClockForward, ClockBack, InstallLicense,
    ChangeHardware, Remount
<1> QED BY <1>3, <1>4, <1>5, <1>6 DEF Next, vars

(* One process that never takes its watermark for absent implements the    *)
(* abstract high-water mark (watermark.go:58-96 driven by                  *)
(* verify.go:135-195).                                                     *)
THEOREM VerifierImplementsHighWater == OneProcess => (Spec => ImplementsHighWater)
<1> SUFFICES ASSUME OneProcess PROVE Spec => ImplementsHighWater
  OBVIOUS
<1>1. OneInv /\ OneInv' /\ [Next]_vars => [Mark!HWNext]_(Mark!hwVars)
  BY MarkStep
<1> QED
  BY <1>1, MarkInit, OneAlways, PTL DEF Spec, ImplementsHighWater, Mark!HWSpec
=============================================================================
