---------------------------- MODULE MCVerifier ----------------------------
(***************************************************************************)
(* Instances of Verifier for TLC.  A tick is a day; licenses are issued    *)
(* after tick 0, so that a device's clock may be behind them.              *)
(***************************************************************************)
EXTENDS Verifier, TLC

CONSTANTS here, elsewhere,   \* fingerprints
          licA, licB,        \* license identifiers
          app, cli           \* processes

Plain ==
  [hwFp |-> here, recomputedFp |-> here, permanent |-> FALSE,
   notBefore |-> ZeroTime, notAfter |-> 3, maxOfflineDays |-> 0]

(* A license with an offline cap that takes effect later than it is        *)
(* issued, and a permanent one: a renewal from one to the other.           *)
TimeBound ==
  Issue([Plain EXCEPT !.notBefore = 2, !.maxOfflineDays = 1], licA, 1)
Permanent == Issue([Plain EXCEPT !.permanent = TRUE, !.notAfter = ZeroTime], licB, 2)
CoreLicenses == {TimeBound, Permanent}

(* What two processes share, and documents that differ in one respect from *)
(* what Issue signs for this device.                                       *)
Brief == Issue(Plain, licA, 1)
OtherDevice == Issue([Plain EXCEPT !.hwFp = elsewhere], licA, 1)
Edited == [Brief EXCEPT !.notAfter = 6, !.signed = FALSE]
OldFormat == [Brief EXCEPT !.version = 3]
Incomplete == [Brief EXCEPT !.complete = FALSE]
NoEnd == [Brief EXCEPT !.notAfter = ZeroTime]
WrongKey == [Brief EXCEPT !.payload.key = DeriveKey(elsewhere, licA)]
Glued == [Brief EXCEPT !.payload.expires = FALSE]

BriefLicenses == {Brief}
OddLicenses ==
  {Brief, OtherDevice, Edited, OldFormat, Incomplete, NoEnd, WrongKey, Glued}

(* Two processes on a device whose hardware and license stay as they are:  *)
(* the clock, the disk and the watermark still change under them.          *)
SettledInit == Init /\ device = here /\ licFile \in Licenses
SettledSpec == SettledInit /\ [][Next /\ UNCHANGED <<device, licFile>>]_vars

(* Every check of verify.go:60-133 is needed: of the documents an operator *)
(* may have put in place only the one that Issue signed for this device is *)
(* ever accepted, by either process.                                       *)
OnlyTheIssuedIsAccepted ==
  [][\A p \in Procs : AnswersOk(p) => lic[p] = Brief]_vars
===========================================================================
