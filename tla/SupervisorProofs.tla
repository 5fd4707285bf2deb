-------------------------- MODULE SupervisorProofs --------------------------
(***************************************************************************)
(* Proofs about Supervisor, for every interval, delay and set of licenses. *)
(***************************************************************************)
EXTENDS Supervisor, TLAPS

(* While the application serves with a recheck timer, the ticks it has     *)
(* served a license that would be refused and the ticks left on the timer  *)
(* fit in one interval; and those ticks count only while the license would *)
(* be refused, so that an accepted one finds none.                         *)
TimerCovers ==
  /\ timer \in Nat /\ stale \in Nat
  /\ app # "serving" => stale = 0
  /\ stale # 0 => Verdict # "ok"
  /\ app = "serving" /\ RecheckTicks > 0 => stale + timer <= RecheckTicks

LEMMA TimerInit == Init => TimerCovers
BY DEF Init, TimerCovers

(* What is not more than something that fits, fits.                       *)
LEMMA LessFits ==
  ASSUME NEW a \in Nat, NEW b \in Nat, NEW c \in Nat, NEW n \in Nat,
         b <= a, a + c <= n
  PROVE  b + c <= n
OBVIOUS

(* A step of no time that leaves the timer alone, or stops serving, or     *)
(* serves after the verification said "ok".                                *)
LEMMA WatchKeeps ==
  ASSUME TimerCovers, Watch(0), timer' \in Nat,
         \/ app' # "serving"
         \/ app' = app /\ timer' = timer
         \/ Verdict = "ok" /\ timer' = RecheckTicks
  PROVE  TimerCovers'
<1>0. RecheckTicks \in Nat /\ timer \in Nat /\ stale \in Nat
  BY SupervisorAssumption DEF TimerCovers
<1>1. /\ app' = "serving" /\ Verdict' # "ok" => stale' = AtMostOneTooMany(stale + 0)
      /\ ~(app' = "serving" /\ Verdict' # "ok") => stale' = 0
  BY DEF TimerCovers, Watch
<1>2. stale' \in Nat /\ stale' <= stale
  BY <1>0, <1>1 DEF AtMostOneTooMany
<1>3. /\ app' # "serving" => stale' = 0
      /\ stale' # 0 => Verdict' # "ok"
  BY <1>1
<1>4. app' = "serving" /\ RecheckTicks > 0 => stale' + timer' <= RecheckTicks
  <2>1. CASE app' = app /\ timer' = timer
    <3>1. app = "serving" /\ RecheckTicks > 0 => stale + timer <= RecheckTicks
      BY DEF TimerCovers
    <3>2. timer' = timer /\ (app' = "serving" => app = "serving")
      BY <2>1
    <3>3. stale + timer <= RecheckTicks => stale' + timer <= RecheckTicks
      BY <1>0, <1>2, LessFits
    <3>4. QED BY <3>1, <3>2, <3>3
  <2>2. CASE Verdict = "ok" /\ timer' = RecheckTicks
    <3>1. stale = 0
      BY <2>2 DEF TimerCovers
    <3>2. stale' = 0
      BY <1>0, <1>2, <3>1
    <3>3. QED BY <1>0, <2>2, <3>2
  <2>3. CASE app' # "serving"
    BY <2>3
  <2>4. QED BY <2>1, <2>2, <2>3
<1>5. QED BY <1>2, <1>3, <1>4 DEF TimerCovers

LEMMA ExitStops ==
  ASSUME NEW n, Exit(n), timer \in Nat
  PROVE  app' # "serving" /\ timer' \in Nat
BY SupervisorAssumption DEF Exit

LEMMA TimerStep == TimerCovers /\ [Next]_vars => TimerCovers'
<1> SUFFICES ASSUME TimerCovers, [Next]_vars PROVE TimerCovers'
  OBVIOUS
<1>0. timer \in Nat
  BY DEF TimerCovers
<1>1. CASE Boot \/ RecheckFires
  <2>1. Watch(0)
    BY <1>1 DEF Boot, RecheckFires
  <2>2. CASE Verdict = "ok"
    BY <1>1, <2>1, <2>2, WatchKeeps, SupervisorAssumption
       DEF Boot, RecheckFires, Serve
  <2>3. CASE Verdict # "ok"
    <3>1. PICK n : Exit(n)
      BY <1>1, <2>3 DEF Boot, RecheckFires
    <3>2. QED BY <1>0, <2>1, <3>1, ExitStops, WatchKeeps
  <2>4. QED BY <2>2, <2>3
<1>2. CASE Restart
  BY <1>0, <1>2, WatchKeeps DEF Restart
<1>3. CASE Tick
  <2>1. app = "serving" /\ RecheckTicks > 0 => timer > 0
    BY <1>0, <1>3 DEF Tick, Due
  <2>2. app' = app /\ timer' = (IF timer > 0 THEN timer - 1 ELSE 0) /\ Watch(1)
    BY <1>3 DEF Tick
  <2>3. QED
    BY <2>1, <2>2, SupervisorAssumption DEF TimerCovers, Watch, AtMostOneTooMany
<1>4. CASE SetClock \/ InstallLicense \/ DeleteWatermark \/ CheckByHand
  BY <1>0, <1>4, WatchKeeps
     DEF SetClock, InstallLicense, DeleteWatermark, CheckByHand
<1>5. CASE Killed
  BY <1>0, <1>5, ExitStops, WatchKeeps DEF Killed
<1>6. CASE OperatorRestarts
  BY <1>0, <1>6, WatchKeeps DEF OperatorRestarts
<1>7. CASE UNCHANGED vars
  BY <1>7 DEF vars, TimerCovers, Verdict
<1>8. QED
  BY <1>1, <1>2, <1>3, <1>4, <1>5, <1>6, <1>7 DEF Next, Upsets

(* The application never serves more than one interval past the moment     *)
(* from which a verification would refuse.                                 *)
THEOREM StalenessIsBounded == Spec => []NeverServesStale
<1>1. TimerCovers => NeverServesStale
  BY SupervisorAssumption DEF TimerCovers, NeverServesStale
<1>2. QED BY <1>1, TimerInit, TimerStep, PTL DEF Spec

-----------------------------------------------------------------------------
(* The types.                                                              *)
LEMMA NextTyped ==
  ASSUME NEW w \in Watermark, NEW t \in Nat
  PROVE  NextWatermark(w, t) \in Watermark
<1>1. /\ w.verifyCount + 1 \in Nat
      /\ (IF t > w.lastSeenAt THEN t ELSE w.lastSeenAt) \in Nat
      /\ (IF IsRewind(w, t) THEN w.timeRewindCount + 1 ELSE w.timeRewindCount) \in Nat
  BY DEF Watermark, Time
<1> QED BY <1>1 DEF NextWatermark, Watermark, Time

LEMMA EssentialTyped ==
  ASSUME NEW l \in LicenseDoc, NEW w \in Watermark \union {NoFile}, NEW t \in Nat
  PROVE  Essential(AdvanceWatermark(w, l, t)) \in Watermark
<1>1. AdvanceWatermark(w, l, t) \in Watermark
  <2>1. CASE w = NoFile
    BY <2>1 DEF AdvanceWatermark, FirstWatermark, LicenseDoc, Watermark, Time
  <2>2. CASE w # NoFile
    <3>1. w \in Watermark
      BY <2>2
    <3> QED BY <2>2, <3>1, NextTyped DEF AdvanceWatermark
  <2> QED BY <2>1, <2>2
<1>2. ASSUME NEW v \in Watermark PROVE Essential(v) \in Watermark
  <2>1. /\ v.lastSeenAt \in Nat
        /\ (IF v.timeRewindCount > MaxTimeRewinds THEN MaxTimeRewinds + 1
                                                  ELSE v.timeRewindCount) \in Nat
    BY TimeAssumption DEF Watermark, Time
  <2> QED BY <2>1 DEF Essential, Watermark, Time
<1> QED BY <1>1, <1>2

LEMMA VerifiedTyped ==
  ASSUME TypeOK, Verified
  PROVE  wm' \in Watermark \union {NoFile} /\ answer' \in Reasons
<1>1. clock \in Nat
  BY SupervisorAssumption DEF TypeOK
<1>2. Verdict \in Reasons
  <2>1. DocumentVerdict(licFile) \in {"malformed", "unsupported_version", "signature_invalid", "pass"}
    BY DEF DocumentVerdict
  <2>2. TimeVerdict(wm, licFile, clock)
          \in {"time_rewind", "not_yet_valid", "expired", "offline_too_long", "ok"}
    BY DEF TimeVerdict
  <2> QED BY <2>1, <2>2 DEF Verdict, VerdictOn, Reasons
<1>3. CASE Loads(licFile, wm)
  <2>1. licFile # NoFile
    BY <1>3 DEF Loads, DocumentVerdict
  <2>2. licFile \in LicenseDoc
    BY <2>1, SupervisorAssumption DEF TypeOK
  <2>3. Essential(AdvanceWatermark(wm, licFile, clock)) \in Watermark
    BY <1>1, <2>2, EssentialTyped DEF TypeOK
  <2> QED BY <1>2, <1>3, <2>3 DEF Verified
<1>4. CASE ~Loads(licFile, wm)
  BY <1>2, <1>4 DEF Verified, TypeOK
<1> QED BY <1>3, <1>4

LEMMA WatchTyped ==
  ASSUME stale \in Nat, NEW n \in Nat, Watch(n) PROVE stale' \in Nat
BY SupervisorAssumption DEF Watch, AtMostOneTooMany

LEMMA ExitTyped ==
  ASSUME NEW n \in Nat, Exit(n)
  PROVE  /\ app' \in {"down", "errored"} /\ timer' \in Nat /\ restarts' \in Nat
         /\ app' = "errored" => GivesUp /\ timer' = 0
BY SupervisorAssumption DEF Exit

LEMMA UpsetTyped ==
  ASSUME upsets \in 0..MaxUpsets, Upset PROVE upsets' \in 0..MaxUpsets
BY SupervisorAssumption DEF Upset

(* Nothing is left of a timer where the supervisor gave up: an operator    *)
(* starts the application afresh.                                          *)
Typed == TypeOK /\ (app = "errored" => timer = 0)

LEMMA TypeStep == Typed /\ [Next]_vars => Typed'
<1> SUFFICES ASSUME Typed, [Next]_vars PROVE Typed'
  OBVIOUS
<1>1. CASE Boot \/ RecheckFires
  <2>1. /\ Verified /\ Watch(0)
        /\ Serve \/ \E n \in Nat : Exit(n)
        /\ UNCHANGED <<supervisor, clock, licFile, history, upsets>>
    BY <1>1 DEF Boot, RecheckFires, Typed, TypeOK
  <2>2. wm' \in Watermark \union {NoFile} /\ answer' \in Reasons /\ stale' \in Nat
    BY <2>1, VerifiedTyped, WatchTyped DEF Typed, TypeOK
  <2>3. /\ app' \in {"serving", "down", "errored"} /\ timer' \in Nat /\ restarts' \in Nat
        /\ app' = "errored" => GivesUp /\ timer' = 0
    BY <2>1, ExitTyped, SupervisorAssumption DEF Serve
  <2> QED BY <2>1, <2>2, <2>3 DEF Typed, TypeOK, GivesUp, history
<1>2. CASE Restart
  BY <1>2, WatchTyped DEF Restart, Typed, TypeOK, files, history
<1>3. CASE Tick
  <2>1. stale' \in Nat
    BY <1>3, WatchTyped DEF Tick, Typed, TypeOK
  <2>2. clock' \in 1..MaxTime /\ timer' \in Nat
    BY <1>3, SupervisorAssumption DEF Tick, Typed, TypeOK
  <2>3. app # "starting" /\ (timer = 0 => timer' = 0)
    BY <1>3 DEF Tick, Due
  <2> QED BY <1>3, <2>1, <2>2, <2>3 DEF Tick, Typed, TypeOK, GivesUp, files, history
<1>4. CASE Upsets
  <2>1. upsets' \in 0..MaxUpsets /\ stale' \in Nat
    BY <1>4, UpsetTyped, WatchTyped DEF Upsets, SetClock, InstallLicense, DeleteWatermark,
       CheckByHand, Killed, OperatorRestarts, Typed, TypeOK
  <2>2. CASE SetClock
    <3>1. PICK t \in (1..MaxTime) \ {clock} :
            /\ clock' = t
            /\ setBack' = setBack + (IF t < clock THEN clock - t ELSE 0)
            /\ setBacks' = setBacks + (IF t < clock THEN 1 ELSE 0)
      BY <2>2 DEF SetClock
    <3>2. setBack' \in Nat /\ setBacks' \in Nat
      BY <3>1, SupervisorAssumption DEF Typed, TypeOK
    <3> QED BY <2>1, <2>2, <3>1, <3>2 DEF SetClock, Typed, TypeOK, GivesUp, files
  <2>3. CASE InstallLicense
    BY <2>1, <2>3 DEF InstallLicense, Typed, TypeOK, GivesUp, history
  <2>4. CASE DeleteWatermark
    BY <2>1, <2>4 DEF DeleteWatermark, Typed, TypeOK, GivesUp, history
  <2>5. CASE CheckByHand
    BY <2>1, <2>5, VerifiedTyped DEF CheckByHand, Typed, TypeOK, GivesUp, history
  <2>6. CASE Killed
    <3>1. /\ app' \in {"down", "errored"} /\ timer' \in Nat /\ restarts' \in Nat
          /\ app' = "errored" => GivesUp /\ timer' = 0
      BY <2>6, ExitTyped DEF Killed
    <3> QED BY <2>1, <2>6, <3>1 DEF Killed, Typed, TypeOK, GivesUp, files, history
  <2>7. CASE OperatorRestarts
    BY <2>1, <2>7 DEF OperatorRestarts, Typed, TypeOK, GivesUp, files, history
  <2> QED BY <1>4, <2>2, <2>3, <2>4, <2>5, <2>6, <2>7 DEF Upsets
<1>5. CASE UNCHANGED vars
  BY <1>5 DEF vars, Typed, TypeOK, GivesUp
<1> QED BY <1>1, <1>2, <1>3, <1>4, <1>5 DEF Next

(* The application's state keeps its types, whatever operators do.         *)
THEOREM TypeCorrect == Spec => []TypeOK
<1>1. Init => Typed
  BY SupervisorAssumption DEF Init, Typed, TypeOK, FromLater
<1> QED BY <1>1, TypeStep, PTL DEF Spec, Typed

-----------------------------------------------------------------------------
(* One rewind of the clock.  What the checks count while the clock catches *)
(* up is bounded by the distance it has to go: a recheck interval each.    *)
Allowance(c) == (MaxTimeRewinds - c) * RecheckTicks

(* Unless the clock was too early for the license, the watermark holds a   *)
(* reading of the clock.                                                   *)
ReadsTheClock ==
  ~early =>
    /\ licFile # NoFile => licFile.issuedAt <= clock
    /\ wm # NoFile => wm.lastSeenAt <= MaxTime

(* A clock that was never set back is never behind the watermark.          *)
NeverBehind ==
  /\ upsets = 0 => setBack = 0
  /\ setBack = 0 /\ ~early =>
       /\ answer # "time_rewind"
       /\ wm # NoFile => wm.timeRewindCount = 0 /\ wm.lastSeenAt <= clock

(* It was set back once, not too far, and nothing else was done.           *)
SmallRewind ==
  /\ RecheckTicks > 0
  /\ setBack > 0 /\ upsets <= 1 /\ ~early
  /\ setBack <= MaxTimeRewinds * RecheckTicks + TimeRewindTolerance

(* Then the license is out of its window for good, or it is not refused    *)
(* for the rewind, and: there is nothing to compare the clock with, or it  *)
(* has caught up, or every recheck until it does can still be counted.     *)
Closed ==
  \/ licFile = NoFile
  \/ wm # NoFile /\ licFile.expires /\ wm.lastSeenAt > licFile.notAfter

CaughtUp == wm.lastSeenAt <= clock

CatchesUp ==
  /\ licFile # NoFile /\ wm.lastSeenAt >= licFile.notBefore
  /\ wm.lastSeenAt - clock <= TimeRewindTolerance + timer + Allowance(wm.timeRewindCount)

Bearable ==
  /\ answer # "time_rewind"
  /\ wm # NoFile =>
       /\ wm.timeRewindCount <= MaxTimeRewinds
       /\ CaughtUp \/ CatchesUp

Forgiving == SmallRewind => Closed \/ Bearable

RewindInv == ReadsTheClock /\ NeverBehind /\ Forgiving

(* What one verification makes of the rewind counter: without a watermark, *)
(* with the clock at or past it, and with the clock behind it.             *)
LEMMA NoFileIsNoWatermark == \A w \in Watermark : w # NoFile
BY FileAssumption

LEMMA FirstCheck ==
  ASSUME NEW l \in LicenseDoc, NEW t \in Nat, l.issuedAt <= t
  PROVE  /\ Essential(AdvanceWatermark(NoFile, l, t)).lastSeenAt = t
         /\ Essential(AdvanceWatermark(NoFile, l, t)).timeRewindCount = 0
         /\ TimeVerdict(NoFile, l, t) # "time_rewind"
<1>1. l.issuedAt \in Nat
  BY DEF LicenseDoc, Time
<1>2. AdvanceWatermark(NoFile, l, t) =
        [licenseId |-> l.id, firstSeenAt |-> t, lastSeenAt |-> t,
         verifyCount |-> 1, timeRewindCount |-> 0]
  BY <1>1 DEF AdvanceWatermark, FirstWatermark
<1> QED BY <1>2, TimeAssumption DEF Essential, TimeVerdict

LEMMA LaterCheck ==
  ASSUME NEW l \in LicenseDoc, NEW t \in Nat, NEW w \in Watermark,
         w.lastSeenAt <= t, w.timeRewindCount <= MaxTimeRewinds
  PROVE  /\ Essential(AdvanceWatermark(w, l, t)).lastSeenAt = t
         /\ Essential(AdvanceWatermark(w, l, t)).timeRewindCount = w.timeRewindCount
         /\ TimeVerdict(w, l, t) # "time_rewind"
<1>1. w.lastSeenAt \in Nat /\ w.timeRewindCount \in Nat /\ w # NoFile
  BY NoFileIsNoWatermark DEF Watermark, Time
<1>2. ~IsRewind(w, t)
  BY <1>1, TimeAssumption DEF IsRewind
<1>3. /\ NextWatermark(w, t).lastSeenAt = t
      /\ NextWatermark(w, t).timeRewindCount = w.timeRewindCount
  BY <1>1, <1>2 DEF NextWatermark, Watermark
<1>4. AdvanceWatermark(w, l, t) = NextWatermark(w, t)
  BY <1>1 DEF AdvanceWatermark
<1>5. NextWatermark(w, t) \in Watermark
  BY NextTyped
<1> QED BY <1>1, <1>3, <1>4, <1>5, TimeAssumption DEF Essential, TimeVerdict, Watermark

LEMMA EarlierCheck ==
  ASSUME NEW l \in LicenseDoc, NEW t \in Nat, NEW w \in Watermark, NEW n \in Nat,
         w.lastSeenAt > t, n <= MaxTimeRewinds,
         n = w.timeRewindCount + (IF IsRewind(w, t) THEN 1 ELSE 0)
  PROVE  /\ Essential(AdvanceWatermark(w, l, t)).lastSeenAt = w.lastSeenAt
         /\ Essential(AdvanceWatermark(w, l, t)).timeRewindCount = n
         /\ TimeVerdict(w, l, t) # "time_rewind"
         /\ w.lastSeenAt >= l.notBefore /\ ~(l.expires /\ w.lastSeenAt > l.notAfter)
              => TimeVerdict(w, l, t) = "ok"
<1>1. /\ w.lastSeenAt \in Nat /\ w.timeRewindCount \in Nat /\ w # NoFile
      /\ l.notBefore \in Nat /\ l.notAfter \in Nat /\ l.payload.maxOfflineDays \in Nat
  BY NoFileIsNoWatermark DEF Watermark, Time, LicenseDoc, Payload
<1>3. /\ NextWatermark(w, t).lastSeenAt = w.lastSeenAt
      /\ NextWatermark(w, t).timeRewindCount = n
  BY <1>1 DEF NextWatermark, Watermark
<1>4. AdvanceWatermark(w, l, t) = NextWatermark(w, t)
  BY <1>1 DEF AdvanceWatermark
<1>5. NextWatermark(w, t) \in Watermark
  BY NextTyped
<1>6. ~OfflineTooLong(w, l, t)
  <2>1. l.payload.maxOfflineDays * Day \in Nat
    BY <1>1, TimeAssumption
  <2> QED BY <1>1, <2>1 DEF OfflineTooLong
<1>7. /\ Effective(w, l, t) = w.lastSeenAt
      /\ AdvanceWatermark(w, l, t).timeRewindCount <= MaxTimeRewinds
  BY <1>3, <1>4 DEF Effective
<1>8. /\ TimeVerdict(w, l, t) # "time_rewind"
      /\ w.lastSeenAt >= l.notBefore /\ ~(l.expires /\ w.lastSeenAt > l.notAfter)
           => TimeVerdict(w, l, t) = "ok"
  BY <1>1, <1>3, <1>4, <1>6, <1>7, TimeAssumption DEF TimeVerdict
<1> QED BY <1>1, <1>3, <1>4, <1>5, <1>8, TimeAssumption DEF Essential, Watermark

(* The allowance: one count costs one interval of it, and what is left of  *)
(* it is not negative and, while something is left, admits a count.        *)
LEMMA OneCount ==
  ASSUME NEW c \in Nat, c <= MaxTimeRewinds
  PROVE  /\ Allowance(c) \in Nat
         /\ Allowance(c) = Allowance(c + 1) + RecheckTicks
         /\ Allowance(c) > 0 => c < MaxTimeRewinds
<1> DEFINE d == MaxTimeRewinds - c
<1>1. d \in Nat /\ RecheckTicks \in Nat /\ MaxTimeRewinds \in Nat
  BY TimeAssumption, SupervisorAssumption
<1>2. MaxTimeRewinds - (c + 1) = d - 1
  BY <1>1
<1>3. ASSUME NEW e \in Nat, NEW r \in Nat
      PROVE  e * r \in Nat /\ e * r = (e - 1) * r + r /\ (e * r > 0 => e > 0)
  BY <1>3
<1>4. d * RecheckTicks \in Nat /\ d * RecheckTicks = (d - 1) * RecheckTicks + RecheckTicks
      /\ (d * RecheckTicks > 0 => d > 0)
  BY <1>1, <1>3
<1> HIDE DEF d
<1>5. Allowance(c) = d * RecheckTicks /\ Allowance(c + 1) = (d - 1) * RecheckTicks
  BY <1>2 DEF Allowance, d
<1>6. d > 0 => c < MaxTimeRewinds
  BY <1>1 DEF d
<1> QED BY <1>4, <1>5, <1>6

LEMMA ClockTyped == TypeOK => clock \in Nat /\ clock <= MaxTime /\ setBack \in Nat
BY SupervisorAssumption DEF TypeOK

LEMMA LoadsADocument ==
  ASSUME TypeOK, Loads(licFile, wm)
  PROVE  licFile \in LicenseDoc /\ Verdict = TimeVerdict(wm, licFile, clock)
<1>1. DocumentVerdict(licFile) = "pass"
  BY DEF Loads
<1>2. licFile # NoFile
  BY <1>1 DEF DocumentVerdict
<1>3. QED BY <1>1, <1>2, SupervisorAssumption DEF TypeOK, Verdict, VerdictOn

LEMMA DoesNotLoad ==
  ASSUME ~Loads(licFile, wm), Verified
  PROVE  wm' = wm /\ answer' # "time_rewind"
<1>1. DocumentVerdict(licFile) # "time_rewind"
  BY DEF DocumentVerdict
<1> QED BY <1>1 DEF Verified, Verdict, VerdictOn

(* A verification where the clock was never behind the watermark.          *)
LEMMA ChecksInOrder ==
  ASSUME TypeOK, Verified, clock' = clock, licFile' = licFile, UNCHANGED history,
         ReadsTheClock, NeverBehind
  PROVE  /\ ReadsTheClock'
         /\ setBack' = 0 /\ ~early' =>
              /\ answer' # "time_rewind"
              /\ wm' # NoFile => wm'.timeRewindCount = 0 /\ wm'.lastSeenAt <= clock'
<1>0. clock \in Nat /\ clock <= MaxTime /\ early' = early /\ setBack' = setBack
  BY ClockTyped DEF history
<1>1. CASE early
  BY <1>0, <1>1 DEF ReadsTheClock
<1>2. CASE ~early /\ ~Loads(licFile, wm)
  BY <1>0, <1>2, DoesNotLoad DEF ReadsTheClock, NeverBehind
<1>3. CASE ~early /\ Loads(licFile, wm)
  <2>1. /\ licFile \in LicenseDoc /\ answer' = TimeVerdict(wm, licFile, clock)
        /\ wm' = Essential(AdvanceWatermark(wm, licFile, clock))
    BY <1>3, LoadsADocument DEF Verified
  <2>2. licFile # NoFile /\ licFile.issuedAt <= clock
    BY <1>3, <2>1, FileAssumption DEF ReadsTheClock
  <2>3. CASE wm = NoFile
    <3>1. wm'.lastSeenAt = clock /\ wm'.timeRewindCount = 0 /\ answer' # "time_rewind"
      BY <1>0, <2>1, <2>2, <2>3, FirstCheck
    <3> QED BY <1>0, <1>3, <2>2, <3>1 DEF ReadsTheClock
  <2>4. CASE wm \in Watermark
    <3>0. wm.lastSeenAt \in Nat /\ wm.lastSeenAt <= MaxTime
      BY <1>3, <2>4, NoFileIsNoWatermark DEF ReadsTheClock, Watermark, Time
    <3>1. wm'.lastSeenAt <= MaxTime
      <4>1. AdvanceWatermark(wm, licFile, clock).lastSeenAt <= MaxTime
        BY <1>0, <2>4, <3>0, NoFileIsNoWatermark DEF AdvanceWatermark, NextWatermark, Watermark
      <4>2. AdvanceWatermark(wm, licFile, clock) \in Watermark
        BY <1>0, <2>4, NextTyped, NoFileIsNoWatermark DEF AdvanceWatermark
      <4> QED BY <2>1, <4>1, <4>2 DEF Essential, Watermark
    <3>2. CASE setBack = 0
      <4>1. wm.timeRewindCount = 0 /\ wm.lastSeenAt <= clock
        BY <1>3, <2>4, <3>2, NoFileIsNoWatermark DEF NeverBehind
      <4>2. wm'.lastSeenAt = clock /\ wm'.timeRewindCount = 0 /\ answer' # "time_rewind"
        BY <1>0, <2>1, <2>4, <4>1, LaterCheck, TimeAssumption
      <4> QED BY <1>0, <1>3, <2>2, <3>1, <4>2 DEF ReadsTheClock
    <3>3. CASE setBack # 0
      BY <1>0, <1>3, <2>2, <3>1, <3>3 DEF ReadsTheClock
    <3> QED BY <3>2, <3>3
  <2> QED BY <2>3, <2>4 DEF TypeOK
<1> QED BY <1>1, <1>2, <1>3

(* A verification of the running application, after a small rewind.        *)
LEMMA ChecksForgive ==
  ASSUME Typed, Boot \/ RecheckFires, RewindInv
  PROVE  Forgiving'
<1> SUFFICES ASSUME SmallRewind' PROVE Closed' \/ Bearable'
  BY DEF Forgiving
<1>0. /\ Verified /\ clock' = clock /\ licFile' = licFile /\ UNCHANGED history
      /\ upsets' = upsets /\ timer = 0
      /\ Verdict = "ok" => timer' = RecheckTicks
      /\ timer' \in Nat
  BY TypeStep DEF Boot, RecheckFires, Next, Serve, Typed, TypeOK
<1>1. /\ clock \in Nat /\ RecheckTicks \in Nat /\ TypeOK /\ setBack \in Nat
      /\ TimeRewindTolerance \in Nat
  BY ClockTyped, SupervisorAssumption, TimeAssumption DEF Typed
<1>2. SmallRewind /\ ~early
  BY <1>0 DEF SmallRewind, history
<1>3. CASE ~Loads(licFile, wm)
  <2>1. wm' = wm /\ answer' # "time_rewind"
    BY <1>0, <1>3, DoesNotLoad
  <2>2. CASE Closed
    BY <1>0, <2>1, <2>2 DEF Closed
  <2>3. CASE wm # NoFile /\ Bearable
    <3>1. wm \in Watermark
      BY <1>1, <2>3 DEF TypeOK
    <3>2. Allowance(wm.timeRewindCount) \in Nat /\ wm.lastSeenAt \in Nat
      BY <2>3, <3>1, OneCount DEF Bearable, Watermark, Time
    <3>3. CaughtUp \/ CatchesUp => (CaughtUp \/ CatchesUp)'
      BY <1>0, <1>1, <2>1, <3>2 DEF CaughtUp, CatchesUp, Allowance
    <3> QED BY <2>1, <2>3, <3>3 DEF Bearable
  <2>4. CASE wm = NoFile
    BY <2>1, <2>4 DEF Bearable
  <2> QED BY <1>2, <2>2, <2>3, <2>4 DEF RewindInv, Forgiving
<1>4. CASE Loads(licFile, wm)
  <2>1. /\ licFile \in LicenseDoc /\ answer' = TimeVerdict(wm, licFile, clock)
        /\ wm' = Essential(AdvanceWatermark(wm, licFile, clock))
        /\ Verdict = answer'
    BY <1>0, <1>1, <1>4, LoadsADocument DEF Verified
  <2>2. licFile # NoFile /\ licFile.issuedAt <= clock
    BY <1>2, <2>1, FileAssumption DEF RewindInv, ReadsTheClock
  <2>3. CASE wm = NoFile
    <3>1. wm'.lastSeenAt = clock /\ wm'.timeRewindCount = 0 /\ answer' # "time_rewind"
      BY <1>1, <2>1, <2>2, <2>3, FirstCheck
    <3> QED BY <1>0, <1>1, <3>1, TimeAssumption DEF Bearable, CaughtUp
  <2>4. CASE wm # NoFile /\ Closed
    <3>0. wm \in Watermark
      BY <1>1, <2>4 DEF TypeOK
    <3>1. wm'.lastSeenAt >= wm.lastSeenAt /\ wm'.lastSeenAt \in Nat /\ wm.lastSeenAt \in Nat
      <4>1. AdvanceWatermark(wm, licFile, clock).lastSeenAt >= wm.lastSeenAt
        BY <1>1, <3>0, NoFileIsNoWatermark DEF AdvanceWatermark, NextWatermark, Watermark, Time
      <4>2. AdvanceWatermark(wm, licFile, clock) \in Watermark
        BY <1>1, <3>0, NextTyped, NoFileIsNoWatermark DEF AdvanceWatermark
      <4> QED BY <2>1, <3>0, <4>1, <4>2 DEF Essential, Watermark, Time
    <3>2. wm' # NoFile
      BY <1>1, <2>1, <3>0, EssentialTyped, NoFileIsNoWatermark
    <3>3. licFile.notAfter \in Nat
      BY <2>1 DEF LicenseDoc, Time
    <3> QED BY <1>0, <2>2, <2>4, <3>1, <3>2, <3>3 DEF Closed
  <2>5. CASE wm # NoFile /\ ~Closed
    <3>0. wm \in Watermark
      BY <1>1, <2>5 DEF TypeOK
    <3>1. Bearable
      BY <1>2, <2>5 DEF RewindInv, Forgiving
    <3> DEFINE c == wm.timeRewindCount
               n == c + (IF IsRewind(wm, clock) THEN 1 ELSE 0)
    <3>2. /\ c \in Nat /\ c <= MaxTimeRewinds /\ wm.lastSeenAt \in Nat
          /\ MaxTimeRewinds \in Nat
      BY <2>5, <3>0, <3>1, TimeAssumption DEF Bearable, Watermark, Time
    <3>3. CASE CaughtUp
      <4>1. wm'.lastSeenAt = clock /\ wm'.timeRewindCount = c /\ answer' # "time_rewind"
        BY <1>1, <2>1, <3>0, <3>2, <3>3, LaterCheck DEF CaughtUp
      <4> QED BY <1>0, <1>1, <3>2, <4>1 DEF Bearable, CaughtUp
    <3>4. CASE ~CaughtUp
      <4>1. /\ wm.lastSeenAt > clock /\ wm.lastSeenAt >= licFile.notBefore
            /\ wm.lastSeenAt - clock <= TimeRewindTolerance + Allowance(c)
            /\ Allowance(c) \in Nat
        <5>1. CatchesUp
          BY <2>5, <3>1, <3>4 DEF Bearable
        <5>2. Allowance(c) \in Nat
          BY <3>2, OneCount
        <5> QED BY <1>0, <1>1, <3>2, <3>4, <5>1, <5>2 DEF CaughtUp, CatchesUp
      <4>2. /\ n \in Nat /\ n <= MaxTimeRewinds /\ Allowance(n) \in Nat
            /\ Allowance(c) <= Allowance(n) + RecheckTicks \/ n = c
            /\ n = c => wm.lastSeenAt - clock <= TimeRewindTolerance
        <5>1. CASE IsRewind(wm, clock)
          <6>1. Allowance(c) \in Nat /\ Allowance(c) > 0
            BY <1>1, <3>2, <4>1, <5>1, OneCount DEF IsRewind
          <6>2. n = c + 1 /\ n <= MaxTimeRewinds /\ n \in Nat /\ n # c
            BY <3>2, <5>1, <6>1, OneCount
          <6>3. Allowance(n) \in Nat /\ Allowance(c) = Allowance(n) + RecheckTicks
            BY <3>2, <6>2, OneCount
          <6> QED BY <1>1, <6>2, <6>3
        <5>2. CASE ~IsRewind(wm, clock)
          <6>1. n = c /\ Allowance(c) \in Nat
            BY <3>2, <5>2, OneCount
          <6>2. wm.lastSeenAt - clock <= TimeRewindTolerance
            BY <1>1, <3>2, <5>2 DEF IsRewind
          <6> QED BY <3>2, <6>1, <6>2
        <5> QED BY <5>1, <5>2
      <4>3. /\ wm'.lastSeenAt = wm.lastSeenAt /\ wm'.timeRewindCount = n
            /\ answer' # "time_rewind"
            /\ wm.lastSeenAt >= licFile.notBefore
                 /\ ~(licFile.expires /\ wm.lastSeenAt > licFile.notAfter)
                 => answer' = "ok"
        BY <1>1, <2>1, <3>0, <4>1, <4>2, EarlierCheck
      <4>4. answer' = "ok"
        BY <2>5, <4>1, <4>3 DEF Closed
      <4>5. timer' = RecheckTicks
        BY <1>0, <2>1, <4>4
      <4>6. wm.lastSeenAt - clock <= TimeRewindTolerance + RecheckTicks + Allowance(n)
        <5> HIDE DEF c, n
        <5> QED BY <1>1, <3>2, <4>1, <4>2
      <4>7. CatchesUp'
        <5> HIDE DEF n
        <5> QED BY <1>0, <2>2, <4>1, <4>3, <4>5, <4>6 DEF CatchesUp, Allowance
      <4> QED BY <4>2, <4>3, <4>7 DEF Bearable
    <3> QED BY <3>3, <3>4
  <2> QED BY <2>3, <2>4, <2>5
<1> QED BY <1>3, <1>4

LEMMA RewindInit == Init => RewindInv
<1> SUFFICES ASSUME Init PROVE RewindInv
  OBVIOUS
<1>1. ReadsTheClock
  <2>1. ~early => ~FromLater(licFile, clock)
    BY DEF Init
  <2>2. licFile.issuedAt \in Nat /\ clock \in Nat /\ wm = NoFile
    BY SupervisorAssumption DEF Init, LicenseDoc, Time
  <2> QED BY <2>1, <2>2 DEF ReadsTheClock, FromLater
<1>2. NeverBehind /\ setBack = 0
  BY DEF Init, NeverBehind
<1> QED BY <1>1, <1>2 DEF RewindInv, Forgiving, SmallRewind

LEMMA RewindStep == Typed /\ RewindInv /\ [Next]_vars => RewindInv'
<1> SUFFICES ASSUME Typed, RewindInv, [Next]_vars PROVE RewindInv'
  OBVIOUS
<1>0. /\ clock \in Nat /\ clock <= MaxTime /\ setBack \in Nat /\ upsets \in Nat
      /\ TypeOK /\ timer \in Nat /\ ReadsTheClock /\ NeverBehind
  BY ClockTyped DEF Typed, TypeOK, RewindInv
(* Whatever is done after the clock was set back is one thing too many.    *)
<1>1. ASSUME Upset, setBack' = setBack PROVE ~SmallRewind'
  <2>1. upsets' = upsets + 1
    BY <1>1 DEF Upset
  <2> QED BY <1>0, <1>1, <2>1 DEF SmallRewind, NeverBehind
<1>2. CASE Boot \/ RecheckFires
  <2>1. /\ Verified /\ clock' = clock /\ licFile' = licFile /\ UNCHANGED history
        /\ upsets' = upsets
    BY <1>2 DEF Boot, RecheckFires
  <2>2. ReadsTheClock' /\ NeverBehind'
    BY <1>0, <2>1, ChecksInOrder DEF NeverBehind, history
  <2> QED BY <1>2, <2>2, ChecksForgive DEF RewindInv
<1>3. CASE Restart
  BY <1>3 DEF Restart, RewindInv, ReadsTheClock, NeverBehind, Forgiving, SmallRewind,
     Closed, Bearable, CaughtUp, CatchesUp, Allowance, files, history
<1>4. CASE Tick
  <2>1. /\ UNCHANGED <<licFile, wm, answer, setBack, early, upsets>>
        /\ clock' = IF clock < MaxTime THEN clock + 1 ELSE clock
        /\ timer' = IF timer > 0 THEN timer - 1 ELSE 0
    BY <1>4 DEF Tick, files, history
  <2>2. ReadsTheClock'
    <3>1. licFile # NoFile => licFile.issuedAt \in Nat
      BY <1>0, SupervisorAssumption DEF TypeOK, LicenseDoc, Time
    <3> QED BY <1>0, <2>1, <3>1 DEF ReadsTheClock
  <2>3. wm # NoFile => wm.lastSeenAt \in Nat /\ wm.timeRewindCount \in Nat
    BY <1>0 DEF TypeOK, Watermark, Time
  <2>4. NeverBehind'
    BY <1>0, <2>1, <2>3 DEF NeverBehind
  <2>5. ASSUME SmallRewind' PROVE Closed' \/ Bearable'
    <3>1. SmallRewind /\ ~early
      BY <2>1, <2>5 DEF SmallRewind
    <3>2. CASE Closed
      BY <2>1, <3>2 DEF Closed
    <3>3. CASE Bearable /\ wm # NoFile
      <4>1. wm.lastSeenAt <= MaxTime
        BY <1>0, <3>1, <3>3 DEF ReadsTheClock
      <4>2. Allowance(wm.timeRewindCount) \in Nat
        BY <2>3, <3>3, OneCount DEF Bearable
      <4>3. (CaughtUp \/ CatchesUp) => (CaughtUp' \/ CatchesUp')
        BY <1>0, <2>1, <2>3, <3>3, <4>1, <4>2, TimeAssumption, SupervisorAssumption
           DEF CaughtUp, CatchesUp, Allowance
      <4> QED BY <2>1, <3>3, <4>3 DEF Bearable
    <3>4. CASE Bearable /\ wm = NoFile
      BY <2>1, <3>4 DEF Bearable
    <3> QED BY <3>1, <3>2, <3>3, <3>4 DEF RewindInv, Forgiving
  <2> QED BY <2>2, <2>4, <2>5 DEF RewindInv, Forgiving
<1>5. CASE SetClock
  <2>1. PICK t \in (1..MaxTime) \ {clock} :
          /\ clock' = t
          /\ setBack' = setBack + (IF t < clock THEN clock - t ELSE 0)
          /\ early' = \/ early
                      \/ FromLater(licFile, t)
                      \/ t < clock /\ NotOpen(wm, licFile)
    BY <1>5 DEF SetClock
  <2>2. /\ UNCHANGED <<licFile, wm, answer, timer>> /\ upsets' = upsets + 1
    BY <1>5 DEF SetClock, Upset, files
  <2>3. t \in Nat /\ t <= MaxTime /\ (~early' => ~early /\ ~FromLater(licFile, t))
    BY <2>1, SupervisorAssumption
  <2>4. ReadsTheClock'
    <3>1. licFile # NoFile => licFile.issuedAt \in Nat
      BY <1>0, SupervisorAssumption DEF TypeOK, LicenseDoc, Time
    <3> QED BY <1>0, <2>1, <2>2, <2>3, <3>1 DEF ReadsTheClock, FromLater
  <2>5. wm # NoFile => wm.lastSeenAt \in Nat /\ wm.timeRewindCount \in Nat
    BY <1>0 DEF TypeOK, Watermark, Time
  <2>6. CASE clock < t
    <3>1. setBack' = setBack
      BY <1>0, <2>1, <2>3, <2>6
    <3>2. NeverBehind'
      BY <1>0, <2>1, <2>2, <2>3, <2>5, <2>6, <3>1 DEF NeverBehind
    <3>3. ~SmallRewind'
      BY <1>1, <1>5, <3>1 DEF SetClock
    <3> QED BY <2>4, <3>2, <3>3 DEF RewindInv, Forgiving
  <2>7. CASE t < clock
    <3>1. setBack' = setBack + (clock - t) /\ setBack' > 0
      BY <1>0, <2>1, <2>3, <2>7
    <3>2. NeverBehind'
      BY <1>0, <2>2, <3>1 DEF NeverBehind
    <3>3. ASSUME SmallRewind' PROVE Closed' \/ Bearable'
      <4>1. upsets = 0 /\ setBack = 0 /\ ~early
        BY <1>0, <2>2, <2>3, <3>3 DEF SmallRewind, NeverBehind
      <4>2. /\ answer' # "time_rewind"
            /\ wm # NoFile => wm.timeRewindCount = 0 /\ wm.lastSeenAt <= clock
        BY <1>0, <2>2, <4>1 DEF NeverBehind
      <4>3. ASSUME licFile # NoFile, wm # NoFile
            PROVE  wm.lastSeenAt >= licFile.notBefore
        <5>1. ~NotOpen(wm, licFile)
          BY <2>1, <2>7, <3>3 DEF SmallRewind
        <5>2. licFile.notBefore \in Nat
          BY <1>0, <4>3, SupervisorAssumption DEF TypeOK, LicenseDoc, Time
        <5> QED BY <2>5, <4>3, <5>1, <5>2 DEF NotOpen
      <4>4. clock - t <= Allowance(0) + TimeRewindTolerance /\ Allowance(0) \in Nat
        <5>1. MaxTimeRewinds - 0 = MaxTimeRewinds
          BY TimeAssumption
        <5>2. Allowance(0) = MaxTimeRewinds * RecheckTicks
          BY <5>1 DEF Allowance
        <5>3. setBack' = clock - t
          BY <1>0, <2>3, <3>1, <4>1
        <5>4. Allowance(0) \in Nat
          BY OneCount, TimeAssumption
        <5> QED BY <3>3, <5>2, <5>3, <5>4 DEF SmallRewind
      <4>5. CASE licFile # NoFile /\ wm # NoFile
        <5>1. wm.lastSeenAt - t <= TimeRewindTolerance + timer + Allowance(0)
          BY <1>0, <2>3, <2>5, <4>2, <4>4, <4>5, TimeAssumption
        <5>2. CatchesUp'
          BY <2>1, <2>2, <4>2, <4>3, <4>5, <5>1 DEF CatchesUp, Allowance
        <5> QED BY <2>2, <4>2, <4>5, <5>2, TimeAssumption DEF Bearable
      <4>6. CASE licFile = NoFile \/ wm = NoFile
        BY <2>2, <4>2, <4>6 DEF Closed, Bearable
      <4> QED BY <4>5, <4>6
    <3> QED BY <2>4, <3>2, <3>3 DEF RewindInv, Forgiving
  <2> QED BY <1>0, <2>1, <2>3, <2>6, <2>7
<1>6. CASE InstallLicense
  <2>1. /\ UNCHANGED <<clock, wm, answer, setBack>> /\ upsets' = upsets + 1 /\ Upset
        /\ licFile' \in Licenses \union {NoFile}
    BY <1>6 DEF InstallLicense, Upset
  <2>2. licFile' # NoFile => licFile'.issuedAt \in Nat
    BY <2>1, SupervisorAssumption DEF LicenseDoc, Time
  <2>3. ~early' => ~early /\ ~FromLater(licFile', clock)
    BY <1>6 DEF InstallLicense
  <2>4. ReadsTheClock'
    BY <1>0, <2>1, <2>2, <2>3 DEF ReadsTheClock, FromLater
  <2>5. NeverBehind'
    BY <1>0, <2>1, <2>3 DEF NeverBehind
  <2> QED BY <1>1, <2>1, <2>4, <2>5 DEF RewindInv, Forgiving
<1>7. CASE DeleteWatermark \/ Killed \/ OperatorRestarts
  <2>1. /\ UNCHANGED <<clock, licFile, answer, setBack, early>> /\ Upset
        /\ upsets' = upsets + 1 /\ (wm' = wm \/ wm' = NoFile)
    BY <1>7 DEF DeleteWatermark, Killed, OperatorRestarts, Upset, files, history
  <2>2. ReadsTheClock' /\ NeverBehind'
    BY <1>0, <2>1 DEF ReadsTheClock, NeverBehind
  <2> QED BY <1>1, <2>1, <2>2 DEF RewindInv, Forgiving
<1>8. CASE CheckByHand
  <2>1. /\ Verified /\ clock' = clock /\ licFile' = licFile /\ UNCHANGED history
        /\ upsets' = upsets + 1 /\ Upset /\ setBack' = setBack
    BY <1>8 DEF CheckByHand, Upset, history
  <2>2. ReadsTheClock' /\ NeverBehind'
    BY <1>0, <2>1, ChecksInOrder DEF NeverBehind
  <2> QED BY <1>1, <2>1, <2>2 DEF RewindInv, Forgiving
<1>9. CASE UNCHANGED vars
  BY <1>9 DEF vars, RewindInv, ReadsTheClock, NeverBehind, Forgiving, SmallRewind,
     Closed, Bearable, CaughtUp, CatchesUp, Allowance
<1> QED BY <1>2, <1>3, <1>4, <1>5, <1>6, <1>7, <1>8, <1>9 DEF Next, Upsets

(* One step of the clock backwards, of at most one recheck interval for    *)
(* each tolerated rewind, costs no license that stays in its window.       *)
THEOREM SmallRewindForgiven == Spec => []SmallRewindIsForgiven
<1>1. TypeOK /\ RewindInv => SmallRewindIsForgiven
  <2> SUFFICES ASSUME TypeOK, RewindInv,
                      RecheckTicks > 0, upsets <= 1 /\ ~early,
                      setBack <= MaxTimeRewinds * RecheckTicks + TimeRewindTolerance,
                      InWindow(wm, licFile)
               PROVE  answer # "time_rewind"
    BY DEF SmallRewindIsForgiven
  <2>1. CASE setBack = 0
    BY <2>1 DEF RewindInv, NeverBehind
  <2>2. CASE setBack # 0
    <3>1. SmallRewind
      BY <2>2 DEF SmallRewind, TypeOK
    <3>2. ~Closed
      <4>1. wm.lastSeenAt \in Nat /\ licFile.notAfter \in Nat
        BY SupervisorAssumption DEF InWindow, TypeOK, Watermark, LicenseDoc, Time
      <4> QED BY <4>1 DEF Closed, InWindow
    <3> QED BY <3>1, <3>2 DEF RewindInv, Forgiving, Bearable
  <2> QED BY <2>1, <2>2
<1>2. Init => Typed
  BY SupervisorAssumption DEF Init, Typed, TypeOK, FromLater
<1>3. Typed => TypeOK
  BY DEF Typed
<1> QED BY <1>1, <1>2, <1>3, TypeStep, RewindInit, RewindStep, PTL DEF Spec
=============================================================================
