------------------------------ MODULE License ------------------------------
(***************************************************************************)
(* The license document, the watermark document and the pure decisions of  *)
(* the Go verifier (internal/license/verify.go, watermark.go) and of the   *)
(* issuer (issue.go).  Nothing here has state: Verifier.tla reads the      *)
(* files, calls these operators and writes the files.                      *)
(*                                                                         *)
(* Cryptography is symbolic.  A key is the pair it is derived from, a      *)
(* ciphertext is the plaintext together with its key, a MAC is the key it  *)
(* was made with, and a signature is the fact that it verifies under the   *)
(* vendor's public key.                                                    *)
(*                                                                         *)
(* A time is a natural number of ticks; 0 is Go's zero time, which         *)
(* time.Time.IsZero recognises and which permanent licenses carry as       *)
(* notAfter.                                                               *)
(***************************************************************************)
EXTENDS Integers

CONSTANTS
  Ids,              \* license identifiers
  Fingerprints,     \* hardware fingerprints
  NoFile,           \* what reading an absent file gives
  Garbage,          \* a file that does not parse
  TimeRewindTolerance,  \* ticks the clock may fall back unnoticed (5 minutes)
  MaxTimeRewinds,   \* rewinds that are tolerated (3)
  Day               \* ticks in 24 hours

ASSUME TimeAssumption ==
  /\ TimeRewindTolerance \in Nat
  /\ MaxTimeRewinds \in Nat
  /\ Day \in Nat \ {0}

Time == Nat
ZeroTime == 0
FormatVersion == 4

(* "pass" is not a reason of the code: it says that a stage found nothing  *)
(* to refuse and the next one runs.                                        *)
Reasons ==
  {"ok", "malformed", "unsupported_version", "signature_invalid",
   "fingerprint_mismatch", "payload_mismatch", "watermark_tampered",
   "time_rewind", "not_yet_valid", "expired", "offline_too_long",
   "hardware_unavailable"}

Key == [fp : Fingerprints, id : Ids]
DeriveKey(fp, id) == [fp |-> fp, id |-> id]

Payload ==
  [key : Key, id : Ids, expires : BOOLEAN, notAfter : Time,
   maxOfflineDays : Nat]

(* complete: id, fingerprint and issuedAt are all there.                   *)
LicenseDoc ==
  [version : Nat, complete : BOOLEAN, id : Ids, issuedAt : Time,
   notBefore : Time, notAfter : Time, expires : BOOLEAN,
   fp : Fingerprints, signed : BOOLEAN, payload : Payload]

Watermark ==
  [licenseId : Ids, firstSeenAt : Time, lastSeenAt : Time,
   verifyCount : Nat, timeRewindCount : Nat]

(* A watermark as SaveWatermark leaves it on disk: its fields and the key  *)
(* of its MAC.                                                             *)
WatermarkDoc == [body : Watermark, mac : Key]

ASSUME FileAssumption ==
  /\ NoFile \notin LicenseDoc \union WatermarkDoc \union Watermark
  /\ Garbage \notin LicenseDoc \union WatermarkDoc \union Watermark

-----------------------------------------------------------------------------
(* Operators named Bug... are plausible mistakes in the operator that       *)
(* follows them.  Nothing uses them; each shows that a property of the      *)
(* project would notice it.                                                 *)
BugMissingFilePasses(f) ==
  IF f = Garbage THEN "malformed"
  ELSE IF f # NoFile /\ ~f.signed THEN "signature_invalid"
  ELSE "pass"

(* Verify, steps 1 and 2: the document on its own.                         *)
DocumentVerdict(f) ==
  IF f \in {NoFile, Garbage} THEN "malformed"
  ELSE IF f.version # FormatVersion THEN "unsupported_version"
  ELSE IF ~f.complete THEN "malformed"
  ELSE IF f.expires /\ f.notAfter = ZeroTime THEN "malformed"
  ELSE IF ~f.signed THEN "signature_invalid"
  ELSE "pass"

BugPayloadUnbound(lic) ==
  IF lic.payload.key # DeriveKey(lic.fp, lic.id) THEN "malformed" ELSE "pass"

(* Verify, steps 4 and 5: decrypt the payload and bind it to the header.   *)
PayloadVerdict(lic) ==
  IF lic.payload.key # DeriveKey(lic.fp, lic.id) THEN "malformed"
  ELSE IF \/ lic.payload.id # lic.id
          \/ lic.payload.expires # lic.expires
          \/ lic.payload.notAfter # lic.notAfter
       THEN "payload_mismatch"
  ELSE "pass"

(* SameLicense and MustValidate, the checks on a watermark whose MAC is    *)
(* right.                                                                  *)
SameLicense(w, lic) == w.licenseId = lic.id
MustValidate(w) ==
  /\ w.firstSeenAt # ZeroTime /\ w.lastSeenAt # ZeroTime
  /\ w.lastSeenAt >= w.firstSeenAt

-----------------------------------------------------------------------------
(* AdvanceWatermark: the watermark after a verification at time now, and   *)
(* the effective time the gates compare with.                              *)
BugLastSeenIsNow(lic, now) ==
  LET fs == IF lic.issuedAt > now THEN lic.issuedAt ELSE now
  IN  [licenseId |-> lic.id, firstSeenAt |-> fs, lastSeenAt |-> now,
       verifyCount |-> 1, timeRewindCount |-> 0]

FirstWatermark(lic, now) ==
  LET fs == IF lic.issuedAt > now THEN lic.issuedAt ELSE now
  IN  [licenseId |-> lic.id, firstSeenAt |-> fs, lastSeenAt |-> fs,
       verifyCount |-> 1, timeRewindCount |-> 0]

IsRewind(w, now) == w.lastSeenAt - now > TimeRewindTolerance

BugFollowsTheClock(w, now) ==
  [w EXCEPT !.verifyCount = @ + 1, !.lastSeenAt = now,
            !.timeRewindCount = IF IsRewind(w, now) THEN @ + 1 ELSE @]

BugForgivesRewinds(w, now) ==
  [w EXCEPT !.verifyCount = @ + 1,
            !.lastSeenAt = IF now > @ THEN now ELSE @,
            !.timeRewindCount = IF IsRewind(w, now) THEN @ + 1 ELSE 0]

NextWatermark(w, now) ==
  [w EXCEPT !.verifyCount = @ + 1,
            !.lastSeenAt = IF now > @ THEN now ELSE @,
            !.timeRewindCount = IF IsRewind(w, now) THEN @ + 1 ELSE @]

BugRestartsOnRewind(prev, lic, now) ==
  IF prev = NoFile \/ (prev # NoFile /\ IsRewind(prev, now))
    THEN FirstWatermark(lic, now) ELSE NextWatermark(prev, now)

AdvanceWatermark(prev, lic, now) ==
  IF prev = NoFile THEN FirstWatermark(lic, now) ELSE NextWatermark(prev, now)

Effective(prev, lic, now) == AdvanceWatermark(prev, lic, now).lastSeenAt

(* How long the license went unverified, against the real clock.           *)
OfflineTooLong(prev, lic, now) ==
  /\ lic.expires
  /\ lic.payload.maxOfflineDays > 0
  /\ prev # NoFile
  /\ now - prev.lastSeenAt > lic.payload.maxOfflineDays * Day

BugGatesOnWallClock(prev, lic, now) ==
  IF AdvanceWatermark(prev, lic, now).timeRewindCount > MaxTimeRewinds
    THEN "time_rewind"
  ELSE IF now < lic.notBefore THEN "not_yet_valid"
  ELSE IF lic.expires /\ now > lic.notAfter THEN "expired"
  ELSE IF OfflineTooLong(prev, lic, now) THEN "offline_too_long"
  ELSE "ok"

BugNoLimit(prev, lic, now) ==
  IF Effective(prev, lic, now) < lic.notBefore THEN "not_yet_valid"
  ELSE IF lic.expires /\ Effective(prev, lic, now) > lic.notAfter THEN "expired"
  ELSE IF OfflineTooLong(prev, lic, now) THEN "offline_too_long"
  ELSE "ok"

(* Verify, after the watermark was loaded: the rewind counter and the time *)
(* gates of steps 7 and 8.                                                 *)
TimeVerdict(prev, lic, now) ==
  IF AdvanceWatermark(prev, lic, now).timeRewindCount > MaxTimeRewinds
    THEN "time_rewind"
  ELSE IF Effective(prev, lic, now) < lic.notBefore THEN "not_yet_valid"
  ELSE IF lic.expires /\ Effective(prev, lic, now) > lic.notAfter THEN "expired"
  ELSE IF OfflineTooLong(prev, lic, now) THEN "offline_too_long"
  ELSE "ok"

-----------------------------------------------------------------------------
(* Issue: what the issuer is asked for, when it refuses, what it signs.    *)
(* ZeroTime as notBefore or notAfter stands for an option not given.       *)
Request ==
  [hwFp : Fingerprints, recomputedFp : Fingerprints, permanent : BOOLEAN,
   notBefore : Time, notAfter : Time, maxOfflineDays : Int]

BugTrustsTheSnapshot(req) ==
  /\ IF req.permanent
       THEN req.notAfter = ZeroTime /\ req.maxOfflineDays = 0
       ELSE /\ req.notAfter # ZeroTime
            /\ req.notBefore # ZeroTime => req.notAfter > req.notBefore
  /\ req.maxOfflineDays >= 0

BugWindowUnchecked(req) ==
  /\ req.recomputedFp = req.hwFp
  /\ IF req.permanent
       THEN req.notAfter = ZeroTime /\ req.maxOfflineDays = 0
       ELSE req.notAfter # ZeroTime
  /\ req.maxOfflineDays >= 0

Issuable(req) ==
  /\ req.recomputedFp = req.hwFp
  /\ IF req.permanent
       THEN req.notAfter = ZeroTime /\ req.maxOfflineDays = 0
       ELSE /\ req.notAfter # ZeroTime
            /\ req.notBefore # ZeroTime => req.notAfter > req.notBefore
  /\ req.maxOfflineDays >= 0

Issue(req, id, now) ==
  [version |-> FormatVersion, complete |-> TRUE, id |-> id, issuedAt |-> now,
   notBefore |-> IF req.notBefore = ZeroTime THEN now ELSE req.notBefore,
   notAfter |-> req.notAfter, expires |-> ~req.permanent,
   fp |-> req.hwFp, signed |-> TRUE,
   payload |->
     [key |-> DeriveKey(req.hwFp, id), id |-> id, expires |-> ~req.permanent,
      notAfter |-> req.notAfter, maxOfflineDays |-> req.maxOfflineDays]]
=============================================================================
