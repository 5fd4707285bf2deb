------------------------------ MODULE Signing ------------------------------
(***************************************************************************)
(* The issuer's host: issuer keygen and issuer sign (cmd/issuer/main.go,   *)
(* GenerateEd25519Keypair of internal/license/crypto.go) as processes that *)
(* share the two key files, hardware.json and license.json.  A command is  *)
(* cut where it looks at a file or writes one; any call may fail, the      *)
(* process may be killed, and an operator puts files in place and moves    *)
(* them away.                                                              *)
(***************************************************************************)
EXTENDS License

CONSTANTS
  Issuers,    \* issuer processes
  Orders,     \* what a sign command may be asked for
  Here,       \* fingerprint of the issuer's host, for -local
  Snapshots,  \* hardware.json files an operator may deliver
  MaxKeys,    \* bound: keygen commands that get past their checks
  MaxTime     \* bound: the clock stays in 1..MaxTime

(* A date on the command line: a bare date, with the tick its day begins,  *)
(* or an RFC 3339 time.  ZeroTime: the flag was not given.                 *)
Date == [bare : BOOLEAN, at : Time]
Order ==
  [permanent : BOOLEAN, notBefore : Date, notAfter : Date, maxOfflineDays : Int]
HardwareInfo == [fp : Fingerprints, recomputedFp : Fingerprints]
Keys == 1..MaxKeys
SignedLicense == [doc : LicenseDoc, key : Keys]

ASSUME SigningAssumption ==
  /\ Orders \subseteq Order
  /\ Here \in Fingerprints
  /\ Snapshots \subseteq HardwareInfo
  /\ MaxKeys \in Nat
  /\ MaxTime \in Nat \ {0}
  /\ {NoFile, Garbage} \intersect (HardwareInfo \union SignedLicense \union Keys) = {}

VARIABLES
  clock,      \* the host's clock
  privFile,   \* private.pem: a key pair's number, NoFile, or Garbage if cut
  pubFile,    \* public.pem
  hwFile,     \* hardware.json
  licFile,    \* license.json
  pc,         \* where each command is
  force,      \* its -force
  local,      \* its -local
  order,      \* the rest of its flags
  hw,         \* the hardware info it has read or collected
  key,        \* the key pair it has generated or loaded
  made,       \* the license it has signed, not written yet
  exit,       \* how its last command ended: "none", "ok", "error"
  keys,       \* key pairs generated so far
  usedIds,    \* license identifiers given so far
  overwritten \* history: a keygen -force was started

keyFiles == <<privFile, pubFile>>
disk == <<privFile, pubFile, hwFile, licFile>>
flags == <<force, local, order>>
locals == <<hw, key, made>>
counters == <<keys, usedIds, overwritten>>
vars == <<clock, privFile, pubFile, hwFile, licFile, pc, force, local, order,
          hw, key, made, exit, keys, usedIds, overwritten>>

NoOrder ==
  [permanent |-> TRUE, notBefore |-> [bare |-> FALSE, at |-> ZeroTime],
   notAfter |-> [bare |-> FALSE, at |-> ZeroTime], maxOfflineDays |-> 0]

Init ==
  /\ clock \in 1..MaxTime
  /\ privFile = NoFile /\ pubFile = NoFile
  /\ hwFile \in Snapshots \union {NoFile}
  /\ licFile = NoFile
  /\ pc = [p \in Issuers |-> "idle"]
  /\ force = [p \in Issuers |-> FALSE]
  /\ local = [p \in Issuers |-> FALSE]
  /\ order = [p \in Issuers |-> NoOrder]
  /\ hw = [p \in Issuers |-> NoFile]
  /\ key = [p \in Issuers |-> 0]
  /\ made = [p \in Issuers |-> NoFile]
  /\ exit = [p \in Issuers |-> "none"]
  /\ keys = 0 /\ usedIds = {} /\ overwritten = FALSE

Goto(p, step) == pc' = [pc EXCEPT ![p] = step]

(* The command ends and its locals are gone.                               *)
Exit(p, how) ==
  /\ Goto(p, "idle")
  /\ exit' = [exit EXCEPT ![p] = how]
  /\ force' = [force EXCEPT ![p] = FALSE]
  /\ local' = [local EXCEPT ![p] = FALSE]
  /\ order' = [order EXCEPT ![p] = NoOrder]
  /\ hw' = [hw EXCEPT ![p] = NoFile]
  /\ key' = [key EXCEPT ![p] = 0]
  /\ made' = [made EXCEPT ![p] = NoFile]

-----------------------------------------------------------------------------
(* issuer keygen                                                           *)
RunKeygen(p) ==
  /\ pc[p] = "idle"
  /\ \E f \in BOOLEAN : force' = [force EXCEPT ![p] = f]
  /\ Goto(p, "keygen")
  /\ exit' = [exit EXCEPT ![p] = "none"]
  /\ UNCHANGED <<clock, disk, local, order, locals, counters>>

KeysThere == {f \in {"priv", "pub"} : (f = "priv" /\ privFile # NoFile)
                                      \/ (f = "pub" /\ pubFile # NoFile)}

BugChecksOnePath(p) ==
  /\ pc[p] = "keygen"
  /\ IF ~force[p] /\ privFile # NoFile
       THEN Exit(p, "error") /\ UNCHANGED counters
       ELSE /\ keys < MaxKeys
            /\ keys' = keys + 1
            /\ key' = [key EXCEPT ![p] = keys + 1]
            /\ overwritten' = (overwritten \/ force[p])
            /\ Goto(p, "open private")
            /\ UNCHANGED <<flags, hw, made, exit, usedIds>>
  /\ UNCHANGED <<clock, disk>>

(* Stat both files, unless forced; then generate the pair.                 *)
CheckKeys(p) ==
  /\ pc[p] = "keygen"
  /\ IF ~force[p] /\ KeysThere # {}
       THEN Exit(p, "error") /\ UNCHANGED counters
       ELSE /\ keys < MaxKeys
            /\ keys' = keys + 1
            /\ key' = [key EXCEPT ![p] = keys + 1]
            /\ overwritten' = (overwritten \/ force[p])
            /\ Goto(p, "open private")
            /\ UNCHANGED <<flags, hw, made, exit, usedIds>>
  /\ UNCHANGED <<clock, disk>>

(* writeFileSecure: open and truncate, then write; first the private file, *)
(* then the public one.                                                    *)
WriteKeys(p) ==
  /\ \/ /\ pc[p] = "open private"
        /\ privFile' = Garbage
        /\ Goto(p, "write private")
        /\ UNCHANGED <<pubFile, flags, locals, exit>>
     \/ /\ pc[p] = "write private"
        /\ privFile' = key[p]
        /\ Goto(p, "open public")
        /\ UNCHANGED <<pubFile, flags, locals, exit>>
     \/ /\ pc[p] = "open public"
        /\ pubFile' = Garbage
        /\ Goto(p, "write public")
        /\ UNCHANGED <<privFile, flags, locals, exit>>
     \/ /\ pc[p] = "write public"
        /\ pubFile' = key[p]
        /\ Exit(p, "ok")
        /\ UNCHANGED privFile
  /\ UNCHANGED <<clock, hwFile, licFile, counters>>

-----------------------------------------------------------------------------
(* issuer sign                                                             *)
RunSign(p) ==
  /\ pc[p] = "idle"
  /\ \E f, l \in BOOLEAN, o \in Orders :
       /\ force' = [force EXCEPT ![p] = f]
       /\ local' = [local EXCEPT ![p] = l]
       /\ order' = [order EXCEPT ![p] = o]
  /\ Goto(p, "sign")
  /\ exit' = [exit EXCEPT ![p] = "none"]
  /\ UNCHANGED <<clock, disk, locals, counters>>

(* -permanent excludes the flags that limit the license, and without it    *)
(* -not-after is required.                                                 *)
FlagsAgree(o) ==
  IF o.permanent
    THEN o.notAfter.at = ZeroTime /\ o.maxOfflineDays = 0
    ELSE o.notAfter.at # ZeroTime

BugForgetsToLook(p) ==
  /\ pc[p] = "sign"
  /\ IF FlagsAgree(order[p])
       THEN Goto(p, "hardware") /\ UNCHANGED <<flags, locals, exit>>
       ELSE Exit(p, "error")
  /\ UNCHANGED <<clock, disk, counters>>

CheckOut(p) ==
  /\ pc[p] = "sign"
  /\ IF FlagsAgree(order[p]) /\ (force[p] \/ licFile = NoFile)
       THEN Goto(p, "hardware") /\ UNCHANGED <<flags, locals, exit>>
       ELSE Exit(p, "error")
  /\ UNCHANGED <<clock, disk, counters>>

(* -local: collect the host's hardware, and look whether the snapshot may  *)
(* be written.  Otherwise: read hardware.json.                             *)
ReadHardware(p) ==
  /\ pc[p] = "hardware"
  /\ IF local[p]
       THEN IF force[p] \/ hwFile = NoFile
              THEN /\ hw' = [hw EXCEPT ![p] = [fp |-> Here, recomputedFp |-> Here]]
                   /\ Goto(p, "snapshot")
                   /\ UNCHANGED <<flags, key, made, exit>>
              ELSE Exit(p, "error")
       ELSE IF hwFile # NoFile
              THEN /\ hw' = [hw EXCEPT ![p] = hwFile]
                   /\ Goto(p, "key")
                   /\ UNCHANGED <<flags, key, made, exit>>
              ELSE Exit(p, "error")
  /\ UNCHANGED <<clock, disk, counters>>

WriteSnapshot(p) ==
  /\ pc[p] = "snapshot"
  /\ hwFile' = hw[p]
  /\ Goto(p, "key")
  /\ UNCHANGED <<clock, keyFiles, licFile, flags, locals, exit, counters>>

(* A bare -not-after lasts until the end of its day, a bare -not-before    *)
(* starts with its day.                                                    *)
NotAfterOf(o) ==
  IF o.notAfter.bare THEN o.notAfter.at + Day - 1 ELSE o.notAfter.at

RequestOf(p) ==
  [hwFp |-> hw[p].fp, recomputedFp |-> hw[p].recomputedFp,
   permanent |-> order[p].permanent, notBefore |-> order[p].notBefore.at,
   notAfter |-> IF order[p].permanent THEN ZeroTime ELSE NotAfterOf(order[p]),
   maxOfflineDays |-> order[p].maxOfflineDays]

BugIgnoresItsErrors(p) ==
  /\ pc[p] = "key"
  /\ IF privFile \in Keys /\ Issuable(RequestOf(p))
       THEN \E id \in Ids \ usedIds :
              /\ made' = [made EXCEPT ![p] =
                            [doc |-> Issue(RequestOf(p), id, clock), key |-> privFile]]
              /\ usedIds' = usedIds \union {id}
              /\ Goto(p, "write")
              /\ UNCHANGED <<flags, hw, key, exit, keys, overwritten>>
       ELSE Goto(p, "write") /\ UNCHANGED <<flags, locals, exit, counters>>
  /\ UNCHANGED <<clock, disk>>

(* Load the private key, parse the dates and call Issue.                   *)
IssueLicense(p) ==
  /\ pc[p] = "key"
  /\ IF privFile \in Keys /\ Issuable(RequestOf(p))
       THEN \E id \in Ids \ usedIds :
              /\ made' = [made EXCEPT ![p] =
                            [doc |-> Issue(RequestOf(p), id, clock), key |-> privFile]]
              /\ usedIds' = usedIds \union {id}
              /\ Goto(p, "write")
              /\ UNCHANGED <<flags, hw, key, exit, keys, overwritten>>
       ELSE Exit(p, "error") /\ UNCHANGED counters
  /\ UNCHANGED <<clock, disk>>

WriteLicense(p) ==
  /\ pc[p] = "write"
  /\ licFile' = made[p]
  /\ Exit(p, "ok")
  /\ UNCHANGED <<clock, keyFiles, hwFile, counters>>

(* A call fails or the process is killed: what was written stays.          *)
Fail(p) ==
  /\ pc[p] # "idle"
  /\ Exit(p, "error")
  /\ UNCHANGED <<clock, disk, counters>>

-----------------------------------------------------------------------------
(* The operator of the host.                                               *)
ClockForward ==
  /\ \E t \in (clock + 1)..MaxTime : clock' = t
  /\ UNCHANGED <<disk, pc, flags, locals, exit, counters>>

DeliverHardware ==
  /\ hwFile' \in Snapshots \ {hwFile}
  /\ UNCHANGED <<clock, keyFiles, licFile, pc, flags, locals, exit, counters>>

MoveAway ==
  /\ \/ privFile # NoFile /\ privFile' = NoFile /\ UNCHANGED <<pubFile, hwFile, licFile>>
     \/ pubFile # NoFile /\ pubFile' = NoFile /\ UNCHANGED <<privFile, hwFile, licFile>>
     \/ hwFile # NoFile /\ hwFile' = NoFile /\ UNCHANGED <<keyFiles, licFile>>
     \/ licFile # NoFile /\ licFile' = NoFile /\ UNCHANGED <<keyFiles, hwFile>>
  /\ UNCHANGED <<clock, pc, flags, locals, exit, counters>>

Keygen(p) == RunKeygen(p) \/ CheckKeys(p) \/ WriteKeys(p)

Sign(p) ==
  \/ RunSign(p)
  \/ CheckOut(p)
  \/ ReadHardware(p)
  \/ WriteSnapshot(p)
  \/ IssueLicense(p)
  \/ WriteLicense(p)

Next ==
  \/ \E p \in Issuers : Keygen(p) \/ Sign(p) \/ Fail(p)
  \/ ClockForward
  \/ DeliverHardware
  \/ MoveAway

Spec == Init /\ [][Next]_vars
-----------------------------------------------------------------------------
(* The types, and no license is written that was not signed.               *)
TypeOK ==
  /\ clock \in 1..MaxTime
  /\ privFile \in Keys \union {NoFile, Garbage}
  /\ pubFile \in Keys \union {NoFile, Garbage}
  /\ hwFile \in HardwareInfo \union {NoFile}
  /\ licFile \in SignedLicense \union {NoFile}
  /\ pc \in [Issuers -> {"idle", "keygen", "open private", "write private",
                         "open public", "write public", "sign", "hardware",
                         "snapshot", "key", "write"}]
  /\ force \in [Issuers -> BOOLEAN]
  /\ local \in [Issuers -> BOOLEAN]
  /\ order \in [Issuers -> Orders \union {NoOrder}]
  /\ hw \in [Issuers -> HardwareInfo \union {NoFile}]
  /\ key \in [Issuers -> 0..MaxKeys]
  /\ made \in [Issuers -> SignedLicense \union {NoFile}]
  /\ exit \in [Issuers -> {"none", "ok", "error"}]
  /\ keys \in 0..MaxKeys
  /\ usedIds \subseteq Ids
  /\ overwritten \in BOOLEAN
  /\ \A p \in Issuers : pc[p] = "write" => made[p] # NoFile

(* keygen's check (main.go:78-84) looks at both paths, and writes the      *)
(* private key first (crypto.go:82-92): as long as nobody passes -force,   *)
(* the two files never hold halves of different pairs, wherever a keygen   *)
(* failed or was killed and whichever file was moved away.  With one       *)
(* command at a time.                                                      *)
UnforcedKeepsPair ==
  ~overwritten /\ privFile \in Keys /\ pubFile \in Keys => privFile = pubFile

(* p reports that it has written a license.                                *)
Reports(p) == pc[p] = "write" /\ exit'[p] = "ok"

(* What a verifier that holds pub makes of a signed license, up to the     *)
(* hardware and the clock.                                                 *)
AsSeenWith(pub, s) == [s.doc EXCEPT !.signed = s.key = pub]

(* Whatever failed before, a license that sign reports passes the          *)
(* verifier's checks of the document, of its signature under the public    *)
(* key beside it, and of the payload, and names the hardware that the      *)
(* sources of hardware.json add up to (issue.go:40-50, verify.go:59-133).  *)
(* With one command at a time and no keygen -force.                        *)
WhatIsSignedVerifies ==
  [][\A p \in Issuers :
       Reports(p) /\ ~overwritten /\ pubFile \in Keys =>
         /\ DocumentVerdict(AsSeenWith(pubFile, licFile')) = "pass"
         /\ PayloadVerdict(licFile'.doc) = "pass"
         /\ licFile'.doc.fp = hw[p].recomputedFp]_vars

(* main.go:141: "already exists; pass -force to overwrite": without -force *)
(* sign does not replace a license.  With one command at a time.           *)
NeverReplacesUnforced ==
  [][\A p \in Issuers : Reports(p) /\ ~force[p] => licFile = NoFile]_vars

(* What sign reports can be used: a fresh device accepts it at some moment *)
(* from its signing on, unless its notAfter was over when it was signed    *)
(* (issue.go:62-64 with the default of 73-77; verify.go:166-188).          *)
UsableFrom(lic, t) == t >= lic.issuedAt /\ TimeVerdict(NoFile, lic, t) = "ok"

SignedCanBeUsed ==
  [][\A p \in Issuers : Reports(p) =>
       LET lic == licFile'.doc
       IN  \/ \E t \in {lic.issuedAt, lic.notBefore} : UsableFrom(lic, t)
           \/ lic.expires /\ lic.notAfter < lic.issuedAt]_vars
=============================================================================
