------------------------------ MODULE Verifier ------------------------------
(***************************************************************************)
(* Verify (internal/license/verify.go) and verifyLicense                   *)
(* (verifier-node/src/verify.ts) as they run on a device: processes that   *)
(* share one license file and one watermark file without any lock, a       *)
(* system clock that somebody may set, a disk that may be read-only, and   *)
(* an operator who replaces files while they run.                          *)
(*                                                                         *)
(* A verification is four steps, cut where it looks at the world: it reads *)
(* the clock, the license file, the hardware and the watermark file, and   *)
(* then writes the watermark file and answers.  What lies between two of   *)
(* those steps is a computation on local values and belongs to the step.   *)
(* A process may die between any two of them.                              *)
(***************************************************************************)
EXTENDS License, FiniteSets

CONSTANTS
  Procs,            \* processes that verify: the CLI, the app, its recheck
  NodeProcs,        \* those that run the TypeScript twin
  Licenses,         \* license documents an operator may install
  Unavailable,      \* hardware that cannot be collected
  Disks,            \* what may become of the watermark's directory: "rw",
                    \*   "ro": saves fail, "denied": nothing in it is reached
  MaxTime,          \* bound: the clock stays in 1..MaxTime
  MaxVerifyCount,   \* bound: no watermark is loaded at this verifyCount
  ClockMayBeSetBack \* whether anybody sets the clock back

ASSUME VerifierAssumption ==
  /\ NodeProcs \subseteq Procs
  /\ Licenses \subseteq LicenseDoc
  /\ Unavailable \notin Fingerprints
  /\ {"rw"} \subseteq Disks
  /\ Disks \subseteq {"rw", "ro", "denied"}
  /\ MaxTime \in Nat \ {0}
  /\ MaxVerifyCount \in Nat
  /\ ClockMayBeSetBack \in BOOLEAN

VARIABLES
  clock,      \* the system clock
  licFile,    \* license.json
  wmFile,     \* .watermark
  text,       \* "go" if its times are spelt as Go spells them, else "node"
  device,     \* the fingerprint the hardware gives now, or Unavailable
  disk,       \* the directory of .watermark, one of Disks
  pc,         \* where each process is in Verify
  now,        \* its local now,
  lic,        \* lic
  prev,       \* and wm: the watermark it loaded
  verdict,    \* the last answer of each process, until it starts again
  granted     \* history: latest effective time of an "ok", per license

world == <<clock, licFile, wmFile, text, device, disk>>
local == <<now, lic, prev>>
vars == <<clock, licFile, wmFile, text, device, disk, pc, now, lic, prev,
          verdict, granted>>

LicenseFiles == Licenses \union {NoFile, Garbage}
Devices == Fingerprints \union {Unavailable}
Verdicts == Reasons \union {"none"}

Watermarked(wmk, id) == wmk # NoFile /\ wmk.body.licenseId = id

-----------------------------------------------------------------------------
Init ==
  /\ clock \in 1..MaxTime
  /\ licFile \in LicenseFiles
  /\ wmFile = NoFile
  /\ text = "go"
  /\ device \in Devices
  /\ disk = "rw"
  /\ pc = [p \in Procs |-> "idle"]
  /\ now = [p \in Procs |-> ZeroTime]
  /\ lic = [p \in Procs |-> NoFile]
  /\ prev = [p \in Procs |-> NoFile]
  /\ verdict = [p \in Procs |-> "none"]
  /\ granted = [id \in Ids |-> ZeroTime]

(* Process p answers and forgets its locals.                               *)
Answer(p, reason) ==
  /\ verdict' = [verdict EXCEPT ![p] = reason]
  /\ pc' = [pc EXCEPT ![p] = "idle"]
  /\ now' = [now EXCEPT ![p] = ZeroTime]
  /\ lic' = [lic EXCEPT ![p] = NoFile]
  /\ prev' = [prev EXCEPT ![p] = NoFile]

Start(p) ==
  /\ pc[p] = "idle"
  /\ pc' = [pc EXCEPT ![p] = "read"]
  /\ now' = [now EXCEPT ![p] = clock]
  /\ verdict' = [verdict EXCEPT ![p] = "none"]
  /\ UNCHANGED <<world, lic, prev, granted>>

(* Steps 1 and 2: read, parse and check the signature.                     *)
ReadLicense(p) ==
  /\ pc[p] = "read"
  /\ IF DocumentVerdict(licFile) = "pass"
       THEN /\ lic' = [lic EXCEPT ![p] = licFile]
            /\ pc' = [pc EXCEPT ![p] = "hardware"]
            /\ UNCHANGED <<now, prev, verdict>>
       ELSE Answer(p, DocumentVerdict(licFile))
  /\ UNCHANGED <<world, granted>>

(* Steps 3 to 5: collect the hardware, derive the keys, open the payload.  *)
HardwareVerdict(fp, l) ==
  IF fp = Unavailable THEN "hardware_unavailable"
  ELSE IF fp # l.fp THEN "fingerprint_mismatch"
  ELSE PayloadVerdict(l)

CheckHardware(p) ==
  /\ pc[p] = "hardware"
  /\ IF HardwareVerdict(device, lic[p]) = "pass"
       THEN /\ pc' = [pc EXCEPT ![p] = "load"]
            /\ UNCHANGED <<local, verdict>>
       ELSE Answer(p, HardwareVerdict(device, lic[p]))
  /\ UNCHANGED <<world, granted>>

(* The MAC covers the text of the watermark.  Go parses the times and      *)
(* spells them again without trailing zeros before it compares; the twin,  *)
(* which always spells three digits of a second, compares the text as it   *)
(* stands.                                                                 *)
SpeltFor(p) == p \in NodeProcs \/ text = "go"
Spellings(p) == IF p \in NodeProcs THEN {"go", "node"} ELSE {"go"}

(* Step 6: read, authenticate and check the watermark.                     *)
Authentic(wmk, l) ==
  /\ wmk.mac = DeriveKey(l.fp, l.id)
  /\ SameLicense(wmk.body, l)
  /\ MustValidate(wmk.body)

(* Go takes a watermark for absent when opening it says that there is none.*)
(* The twin asks stat first and takes any error of it for absence, that of *)
(* a directory it may not enter as well; when stat succeeds and reading    *)
(* does not, it refuses as Go does.                                        *)
MayMiss(p) == IF disk = "denied" THEN p \in NodeProcs ELSE wmFile = NoFile
MayRead(p) ==
  disk # "denied" /\ wmFile # NoFile /\ SpeltFor(p) /\ Authentic(wmFile, lic[p])
MayRefuse(p) ==
  IF wmFile = NoFile THEN ~MayMiss(p) ELSE ~MayRead(p)

Loaded(p, w) ==
  /\ prev' = [prev EXCEPT ![p] = w]
  /\ pc' = [pc EXCEPT ![p] = "save"]
  /\ UNCHANGED <<now, lic, verdict>>

LoadWatermark(p) ==
  /\ pc[p] = "load"
  /\ wmFile # NoFile => wmFile.body.verifyCount < MaxVerifyCount
  /\ \/ MayMiss(p) /\ Loaded(p, NoFile)
     \/ MayRead(p) /\ Loaded(p, wmFile.body)
     \/ MayRefuse(p) /\ Answer(p, "watermark_tampered")
  /\ UNCHANGED <<world, granted>>

(* Steps 7 to 9 compute the verdict from the loaded watermark and the      *)
(* clock value read at the start, and save the advanced watermark whatever *)
(* the verdict is.                                                         *)
Decided(p) == TimeVerdict(prev[p], lic[p], now[p])
Advanced(p) ==
  [body |-> AdvanceWatermark(prev[p], lic[p], now[p]),
   mac |-> DeriveKey(lic[p].fp, lic[p].id)]

SaveWatermark(p) ==
  /\ pc[p] = "save"
  /\ disk = "rw"
  /\ wmFile' = Advanced(p)
  /\ text' \in Spellings(p)
  /\ Answer(p, Decided(p))
  /\ granted' = IF Decided(p) = "ok"
                  THEN [granted EXCEPT ![lic[p].id] =
                          IF Advanced(p).body.lastSeenAt > @
                            THEN Advanced(p).body.lastSeenAt ELSE @]
                  ELSE granted
  /\ UNCHANGED <<clock, licFile, device, disk>>

(* A failed save is ignored when the verdict is a refusal; it turns an     *)
(* "ok" into "malformed", in the twin into "watermark_tampered".           *)
SaveFailureReason(p) ==
  IF p \in NodeProcs THEN "watermark_tampered" ELSE "malformed"

BugOkWithoutSave(p) ==
  /\ pc[p] = "save"
  /\ disk # "rw"
  /\ Answer(p, Decided(p))
  /\ UNCHANGED <<world, granted>>

SaveFails(p) ==
  /\ pc[p] = "save"
  /\ disk # "rw"
  /\ Answer(p,
            IF Decided(p) = "ok" THEN SaveFailureReason(p) ELSE Decided(p))
  /\ UNCHANGED <<world, granted>>

(* The process is killed: its locals are gone, the files stay.             *)
Crash(p) ==
  /\ pc[p] # "idle"
  /\ Answer(p, "none")
  /\ UNCHANGED <<world, granted>>

Verify(p) ==
  \/ Start(p)
  \/ ReadLicense(p)
  \/ CheckHardware(p)
  \/ LoadWatermark(p)
  \/ SaveWatermark(p)
  \/ SaveFails(p)

-----------------------------------------------------------------------------
(* The world around the verifier.                                          *)
ClockForward ==
  /\ \E t \in (clock + 1)..MaxTime : clock' = t
  /\ UNCHANGED <<licFile, wmFile, text, device, disk, pc, local, verdict, granted>>

ClockBack ==
  /\ ClockMayBeSetBack
  /\ \E t \in 1..(clock - 1) : clock' = t
  /\ UNCHANGED <<licFile, wmFile, text, device, disk, pc, local, verdict, granted>>

InstallLicense ==
  /\ licFile' \in LicenseFiles \ {licFile}
  /\ UNCHANGED <<clock, wmFile, text, device, disk, pc, local, verdict, granted>>

(* The documented remedy for watermark_tampered and part of a renewal.     *)
(* The history starts anew with the watermark.                             *)
DeleteWatermark ==
  /\ wmFile # NoFile
  /\ wmFile' = NoFile
  /\ text' = "go"
  /\ granted' = [id \in Ids |-> ZeroTime]
  /\ UNCHANGED <<clock, licFile, device, disk, pc, local, verdict>>

ChangeHardware ==
  /\ device' \in Devices \ {device}
  /\ UNCHANGED <<clock, licFile, wmFile, text, disk, pc, local, verdict, granted>>

Remount ==
  /\ disk' \in Disks \ {disk}
  /\ UNCHANGED <<clock, licFile, wmFile, text, device, pc, local, verdict, granted>>

Environment ==
  \/ ClockForward
  \/ ClockBack
  \/ InstallLicense
  \/ DeleteWatermark
  \/ ChangeHardware
  \/ Remount

Next ==
  \/ \E p \in Procs : Verify(p) \/ Crash(p)
  \/ Environment

Spec == Init /\ [][Next]_vars
-----------------------------------------------------------------------------
(* Every variable has its type, and a process past a check holds what the  *)
(* check gave it (verify.go:60-149: lic is read before the hardware is     *)
(* collected, wm before the save).                                         *)
TypeOK ==
  /\ clock \in 1..MaxTime
  /\ licFile \in LicenseFiles
  /\ wmFile \in WatermarkDoc \union {NoFile}
  /\ text \in {"go", "node"}
  /\ device \in Devices
  /\ disk \in Disks
  /\ pc \in [Procs -> {"idle", "read", "hardware", "load", "save"}]
  /\ now \in [Procs -> Time]
  /\ lic \in [Procs -> Licenses \union {NoFile}]
  /\ prev \in [Procs -> Watermark \union {NoFile}]
  /\ verdict \in [Procs -> Verdicts]
  /\ granted \in [Ids -> Time]
  /\ \A p \in Procs : pc[p] \in {"hardware", "load", "save"} => lic[p] # NoFile

(* The watermark on disk always passes the checks Verify makes on it for   *)
(* the license it was written for, however many processes wrote it and     *)
(* whatever the clock did: MustValidate and SameLicense (verify.go:141-147)*)
(* never turn a watermark of the program's own into watermark_tampered,    *)
(* and its rewind counter never outruns the verifications that were made.  *)
OwnWatermarkIsSound ==
  wmFile # NoFile =>
    /\ MustValidate(wmFile.body)
    /\ wmFile.body.licenseId = wmFile.mac.id
    /\ wmFile.body.timeRewindCount < wmFile.body.verifyCount

(* A time for which "ok" was answered is never forgotten: as long as       *)
(* nobody deletes the watermark, it is on disk and says at least that time *)
(* (verify.go:191-195 saves before it answers, watermark.go:87-90).  With  *)
(* one verifying process, which never takes a watermark that is there for  *)
(* absent (watermark.go:32-36; watermark.ts:11-15 may).                    *)
GrantsAreRemembered ==
  \A id \in Ids :
    granted[id] # ZeroTime =>
      Watermarked(wmFile, id) /\ wmFile.body.lastSeenAt >= granted[id]

(* p answers "ok" in this step; the effective time behind the answer is    *)
(* the lastSeenAt of the watermark it saves.                               *)
AnswersOk(p) == pc[p] = "save" /\ pc'[p] = "idle" /\ verdict'[p] = "ok"

(* The effective clock behind the answers "ok" for one license never goes  *)
(* back, whatever the system clock does (verify.go:151 and 167-174 work on *)
(* max(now, lastSeenAt)).  With one such process.                          *)
OkNeverGoesBack ==
  [][\A p \in Procs :
       AnswersOk(p) => Advanced(p).body.lastSeenAt >= granted[lic[p].id]]_vars

(* A refusal that reached the disk is final: once the stored watermark is  *)
(* past notAfter, or its counter past MaxTimeRewinds, that license is not  *)
(* accepted again on this device until the watermark is deleted            *)
(* (watermark.go:17-19, verify.go:153-174).  With one such process.        *)
RefusalsAreFinal ==
  [][\A p \in Procs :
       /\ AnswersOk(p)
       /\ Watermarked(wmFile, lic[p].id)
       => /\ wmFile.body.timeRewindCount <= MaxTimeRewinds
          /\ lic[p].expires => wmFile.body.lastSeenAt <= lic[p].notAfter]_vars

(* types.go:86 "monotonic", watermark.go:17 "The counter never resets":    *)
(* while it exists, the watermark's times and counters never fall and it   *)
(* stays the same license's.  With one such process.                       *)
WatermarkOnlyRises ==
  [][wmFile # NoFile /\ wmFile' # NoFile =>
       /\ wmFile'.mac = wmFile.mac
       /\ wmFile'.body.firstSeenAt = wmFile.body.firstSeenAt
       /\ wmFile'.body.lastSeenAt >= wmFile.body.lastSeenAt
       /\ wmFile'.body.timeRewindCount >= wmFile.body.timeRewindCount]_vars

(* However processes, crashes and operators interleave: "ok" is answered   *)
(* only to a process whose own clock reading lies in the license's         *)
(* window at its end, on the licensed hardware it was issued for, and only *)
(* with the watermark of that very license already on disk at that time    *)
(* (verify.go:171-195).                                                    *)
OkIsBacked ==
  [][\A p \in Procs :
       AnswersOk(p) =>
         /\ lic[p].expires => now[p] <= lic[p].notAfter
         /\ Advanced(p).body.lastSeenAt >= lic[p].notBefore
         /\ lic[p].payload.id = lic[p].id
         /\ wmFile' # NoFile
         /\ wmFile'.mac = lic[p].payload.key
         /\ wmFile'.body.lastSeenAt >= now[p]]_vars

(* The verifier implements the abstract high-water mark.  With one such    *)
(* process.                                                                *)
Mark ==
  INSTANCE HighWater WITH
    Owners <- Ids, Nobody <- NoFile, MaxStrikes <- MaxTimeRewinds,
    Believers <- Procs, Answers <- Reasons \union {"none"},
    owner <- IF wmFile = NoFile THEN NoFile ELSE wmFile.body.licenseId,
    mark <- IF wmFile = NoFile THEN ZeroTime ELSE wmFile.body.lastSeenAt,
    strikes <- IF wmFile = NoFile THEN 0 ELSE wmFile.body.timeRewindCount,
    answer <- verdict

ImplementsHighWater == Mark!HWSpec

-----------------------------------------------------------------------------
(* What the documentation says and the code does not do.                   *)

(* watermark.go:17: "The counter never resets, so persistent clock         *)
(* tampering eventually bricks the license on this device": once it is past*)
(* the limit it stays past the limit.                                      *)
LockoutIsFinal ==
  [][/\ wmFile # NoFile /\ wmFile' # NoFile
     /\ wmFile.body.timeRewindCount > MaxTimeRewinds
     => wmFile'.body.timeRewindCount > MaxTimeRewinds]_vars

(* README.md:314: watermark_tampered means that somebody tampered with the *)
(* watermark file; verify.go:39-41 calls the two verifiers twins and       *)
(* docker-compose.yml:1-4 lets them share one directory.  A watermark that *)
(* a verifier made for this license on this device is not refused.         *)
OwnWatermarkIsAccepted ==
  [][\A p \in Procs :
       /\ pc[p] = "load" /\ disk # "denied"
       /\ wmFile # NoFile => wmFile.mac = DeriveKey(lic[p].fp, lic[p].id)
       => verdict'[p] # "watermark_tampered"]_vars

=============================================================================
