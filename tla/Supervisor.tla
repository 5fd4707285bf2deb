----------------------------- MODULE Supervisor -----------------------------
(***************************************************************************)
(* The licensed application over its life: register() of examples/nextjs/  *)
(* instrumentation.ts verifies once at startup and then from a timer, and  *)
(* exits with 78 when it is refused; Docker (restart: unless-stopped) or   *)
(* PM2 (max_restarts, restart_delay) starts it again.  Time passes in      *)
(* ticks.  The timer counts elapsed ticks; the license is compared with    *)
(* the system clock, which somebody may set.                               *)
(*                                                                         *)
(* A verification is one step here: this module asks what happens between  *)
(* verifications, Verifier.tla what happens inside one.                    *)
(***************************************************************************)
EXTENDS License

CONSTANTS
  Licenses,       \* license documents an operator may install
  RecheckTicks,   \* LICENSE_RECHECK_MS; 0: no recheck
  RestartDelay,   \* restart_delay, or Docker's back-off
  Supervisors,    \* "docker", "pm2"
  MaxRestarts,    \* refused starts in a row after which PM2 stops trying
  MaxTime,        \* bound: the last reading of the clock, where it stops
  MaxUpsets       \* bound: things operators and the outside world do

ASSUME SupervisorAssumption ==
  /\ Licenses \subseteq LicenseDoc
  /\ RecheckTicks \in Nat
  /\ RestartDelay \in Nat
  /\ Supervisors \subseteq {"docker", "pm2"}
  /\ MaxRestarts \in Nat \ {0}
  /\ MaxTime \in Nat \ {0}
  /\ MaxUpsets \in Nat

VARIABLES
  supervisor, \* who starts the application again
  clock,      \* the system clock
  licFile,    \* license.json
  wm,         \* the watermark
  app,        \* "starting", "serving", "down" (to be restarted), "errored"
  timer,      \* ticks until the recheck, or until the restart
  restarts,   \* refused starts in a row
  answer,     \* the last answer of a verification
  stale,      \* history: ticks served since the license stopped being good
  setBack,    \* history: ticks the clock was set back, all in all
  setBacks,   \* history: how often it was set back
  early,      \* history: the clock was too early for the license, see below
  upsets      \* how much operators and the outside world did

files == <<licFile, wm>>
history == <<setBack, setBacks, early>>
vars == <<supervisor, clock, licFile, wm, app, timer, restarts, answer, stale, setBack,
          setBacks, early, upsets>>

(* No time gate tells apart rewind counts past the limit, or looks at      *)
(* verifyCount and firstSeenAt: the model levels them.                     *)
Essential(w) ==
  [w EXCEPT !.verifyCount = 1, !.firstSeenAt = w.lastSeenAt,
            !.timeRewindCount = IF @ > MaxTimeRewinds THEN MaxTimeRewinds + 1 ELSE @]

(* A whole verification on the licensed hardware: what it answers and what *)
(* it leaves in the watermark file.                                        *)
Loads(l, w) == DocumentVerdict(l) = "pass" /\ (w = NoFile \/ SameLicense(w, l))

VerdictOn(l, w, t) ==
  IF DocumentVerdict(l) # "pass" THEN DocumentVerdict(l)
  ELSE IF ~Loads(l, w) THEN "watermark_tampered"
  ELSE TimeVerdict(w, l, t)

Verdict == VerdictOn(licFile, wm, clock)

BugSavesOnlySuccesses ==
  /\ answer' = Verdict
  /\ wm' = IF Verdict = "ok"
             THEN Essential(AdvanceWatermark(wm, licFile, clock)) ELSE wm

Verified ==
  /\ answer' = Verdict
  /\ wm' = IF Loads(licFile, wm)
             THEN Essential(AdvanceWatermark(wm, licFile, clock)) ELSE wm

(* History: n more ticks served although a verification would refuse.  All *)
(* that are more than an interval are one too many.                        *)
AtMostOneTooMany(n) == IF n > RecheckTicks THEN RecheckTicks + 1 ELSE n

Watch(n) ==
  stale' = IF app' = "serving" /\ Verdict' # "ok"
             THEN AtMostOneTooMany(stale + n) ELSE 0

(* History: a clock that reads less than the license's date of issue, or   *)
(* is set back before the license's window has opened.  AdvanceWatermark   *)
(* takes the first for a rewind that has happened; in the second case the  *)
(* application is refused, and every start it is given counts a rewind.    *)
FromLater(l, t) == l # NoFile /\ l.issuedAt > t
NotOpen(w, l) == w # NoFile /\ l # NoFile /\ w.lastSeenAt < l.notBefore

-----------------------------------------------------------------------------
Init ==
  /\ supervisor \in Supervisors
  /\ clock \in 1..MaxTime
  /\ licFile \in Licenses
  /\ wm = NoFile
  /\ app = "starting"
  /\ timer = 0 /\ restarts = 0
  /\ answer = "none"
  /\ stale = 0 /\ setBack = 0 /\ setBacks = 0 /\ upsets = 0
  /\ early = FromLater(licFile, clock)

(* After max_restarts refused starts in a row PM2 stops trying.            *)
GivesUp == supervisor = "pm2"

(* process.exit(78), and what the supervisor makes of it: refused is the   *)
(* number of refused starts in a row.                                      *)
Exit(refused) ==
  IF GivesUp /\ refused >= MaxRestarts
    THEN app' = "errored" /\ timer' = 0 /\ restarts' = refused
    ELSE /\ app' = "down" /\ timer' = RestartDelay
         /\ restarts' = IF GivesUp THEN refused ELSE 0

BugIntervalOffByOne ==
  app' = "serving" /\ timer' = RecheckTicks + 1 /\ restarts' = 0

(* register(): verify before the first request, then arm the timer.        *)
Serve == app' = "serving" /\ timer' = RecheckTicks /\ restarts' = 0

Boot ==
  /\ app = "starting"
  /\ Verified
  /\ IF Verdict = "ok" THEN Serve ELSE Exit(restarts + 1)
  /\ UNCHANGED <<supervisor, clock, licFile, history, upsets>>
  /\ Watch(0)

BugRecheckOnlyLogs ==
  /\ app = "serving" /\ RecheckTicks > 0 /\ timer = 0
  /\ Verified
  /\ Serve
  /\ UNCHANGED <<supervisor, clock, licFile, history, upsets>>
  /\ Watch(0)

BugRecheckTooOften ==
  /\ app = "serving" /\ RecheckTicks > 0 /\ timer < RecheckTicks
  /\ Verified
  /\ IF Verdict = "ok" THEN Serve ELSE Exit(0)
  /\ UNCHANGED <<supervisor, clock, licFile, history, upsets>>
  /\ Watch(0)

(* setInterval's callback.                                                 *)
RecheckFires ==
  /\ app = "serving" /\ RecheckTicks > 0 /\ timer = 0
  /\ Verified
  /\ IF Verdict = "ok" THEN Serve ELSE Exit(0)
  /\ UNCHANGED <<supervisor, clock, licFile, history, upsets>>
  /\ Watch(0)

BugRestartsAtOnce ==
  /\ app = "down"
  /\ app' = "starting"
  /\ UNCHANGED <<supervisor, clock, files, timer, restarts, answer, history, upsets>>
  /\ Watch(0)

Restart ==
  /\ app = "down" /\ timer = 0
  /\ app' = "starting"
  /\ UNCHANGED <<supervisor, clock, files, timer, restarts, answer, history, upsets>>
  /\ Watch(0)

(* A tick passes.  Whatever is due happens before it: starts, checks and   *)
(* restarts take much less than a tick.                                    *)
Due ==
  \/ app = "starting"
  \/ timer = 0 /\ (app = "down" \/ (app = "serving" /\ RecheckTicks > 0))

Tick ==
  /\ ~Due
  /\ clock' = IF clock < MaxTime THEN clock + 1 ELSE clock
  /\ timer' = IF timer > 0 THEN timer - 1 ELSE 0
  /\ UNCHANGED <<supervisor, files, app, restarts, answer, history, upsets>>
  /\ Watch(1)

-----------------------------------------------------------------------------
(* Operators and the outside world.                                        *)
Upset ==
  /\ upsets < MaxUpsets
  /\ upsets' = upsets + 1

SetClock ==
  /\ Upset
  /\ \E t \in (1..MaxTime) \ {clock} :
       /\ clock' = t
       /\ setBack' = setBack + (IF t < clock THEN clock - t ELSE 0)
       /\ setBacks' = setBacks + (IF t < clock THEN 1 ELSE 0)
       /\ early' = \/ early
                   \/ FromLater(licFile, t)
                   \/ t < clock /\ NotOpen(wm, licFile)
  /\ UNCHANGED <<supervisor, files, app, timer, restarts, answer>>
  /\ Watch(0)

InstallLicense ==
  /\ Upset
  /\ licFile' \in (Licenses \union {NoFile}) \ {licFile}
  /\ early' = (early \/ FromLater(licFile', clock))
  /\ UNCHANGED <<supervisor, clock, wm, app, timer, restarts, answer, setBack, setBacks>>
  /\ Watch(0)

DeleteWatermark ==
  /\ Upset
  /\ wm # NoFile
  /\ wm' = NoFile
  /\ UNCHANGED <<supervisor, clock, licFile, app, timer, restarts, answer, history>>
  /\ Watch(0)

(* verifier -once by hand: it advances the same watermark.                 *)
CheckByHand ==
  /\ Upset
  /\ Verified
  /\ UNCHANGED <<supervisor, clock, licFile, app, timer, restarts, history>>
  /\ Watch(0)

(* The application crashes for a reason of its own and is restarted.       *)
Killed ==
  /\ Upset
  /\ app \in {"starting", "serving"}
  /\ Exit(0)
  /\ UNCHANGED <<supervisor, clock, files, answer, history>>
  /\ Watch(0)

(* pm2 restart by hand.                                                    *)
OperatorRestarts ==
  /\ Upset
  /\ app = "errored"
  /\ app' = "starting" /\ restarts' = 0
  /\ UNCHANGED <<supervisor, clock, files, timer, answer, history>>
  /\ Watch(0)

Upsets ==
  \/ SetClock
  \/ InstallLicense
  \/ DeleteWatermark
  \/ CheckByHand
  \/ Killed
  \/ OperatorRestarts

Next ==
  \/ Boot
  \/ RecheckFires
  \/ Restart
  \/ Tick
  \/ Upsets

Spec == Init /\ [][Next]_vars

(* The event loop runs its timers, the supervisor restarts, time passes.   *)
Fairness ==
  WF_vars(Boot) /\ WF_vars(RecheckFires) /\ WF_vars(Restart) /\ WF_vars(Tick)

FairSpec == Spec /\ Fairness
-----------------------------------------------------------------------------
(* The types; the application gives up only under PM2, and nothing is left *)
(* of restart_delay when it starts.                                        *)
TypeOK ==
  /\ supervisor \in Supervisors
  /\ clock \in 1..MaxTime
  /\ licFile \in Licenses \union {NoFile}
  /\ wm \in Watermark \union {NoFile}
  /\ app \in {"starting", "serving", "down", "errored"}
  /\ timer \in Nat
  /\ restarts \in Nat
  /\ answer \in Reasons \union {"none"}
  /\ stale \in Nat /\ setBack \in Nat /\ setBacks \in Nat
  /\ early \in BOOLEAN
  /\ upsets \in 0..MaxUpsets
  /\ app = "errored" => GivesUp
  /\ app = "starting" => timer = 0

(* instrumentation.ts:71-73: "we don't want to keep serving stale".  The   *)
(* application serves at most one interval past the moment from which a    *)
(* verification would refuse, whether the license ran out, was replaced or *)
(* removed, or the clock was set.                                          *)
NeverServesStale == RecheckTicks > 0 => stale <= RecheckTicks

(* One step of the clock backwards does not cost a license that is inside  *)
(* its window, and was when the clock was set, as long as the clock has    *)
(* caught up when the limit is reached: the rechecks until then number at  *)
(* most MaxTimeRewinds (watermark.go:11-19 with the interval of            *)
(* instrumentation.ts:74).  Except when the clock was too early for the    *)
(* license: then what the rewind may use of the limit is not there.        *)
InWindow(w, l) ==
  /\ w # NoFile /\ l # NoFile
  /\ w.lastSeenAt >= l.notBefore
  /\ l.expires => w.lastSeenAt <= l.notAfter

SmallRewindIsForgiven ==
  /\ RecheckTicks > 0
  /\ upsets <= 1 /\ ~early
  /\ setBack <= MaxTimeRewinds * RecheckTicks + TimeRewindTolerance
  /\ InWindow(wm, licFile)
  => answer # "time_rewind"

(* Nothing a verification holds against the license lasts.  A refusal for  *)
(* offline_too_long does not: it saves the watermark before it refuses     *)
(* (docs/max-offline-days.md:201-215).                                     *)
Acceptable == Verdict \in {"ok", "offline_too_long"}

(* When from some time on nothing is wrong any more (the renewed license   *)
(* is in place, the clock is right), the application ends up serving and   *)
(* stays there, without anybody restarting it; with PM2 unless it gave up  *)
(* first (ecosystem.config.js:51-55, docker-compose.yml:26).               *)
ServesAgain ==
  <>[]Acceptable =>
    <>[](app = "serving" \/ (GivesUp /\ app = "errored"))

(* And when from some time on a verification would refuse, it stops.       *)
StopsServing ==
  RecheckTicks > 0 /\ <>[]~Acceptable => <>[](app # "serving")

(* README.md:295: a license is refused for time_rewind when the clock was  *)
(* set back more than MaxTimeRewinds times.                                *)
RewindsAreCountedOnce == setBacks <= MaxTimeRewinds => answer # "time_rewind"
=============================================================================
