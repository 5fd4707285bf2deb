----------------------------- MODULE HighWater -----------------------------
(***************************************************************************)
(* What the watermark promises, without files, keys or steps (the comments *)
(* of watermark.go and of types.go, "monotonic", "the counter never        *)
(* resets"): per device a mark, the latest time the verifier has believed, *)
(* and a count of strikes.  Both only rise until somebody deletes the      *)
(* file.  "ok" is answered only together with a durable mark that is at    *)
(* least the time it was answered for, and never past the last strike.     *)
(***************************************************************************)
EXTENDS Integers

CONSTANTS
  Owners,       \* license identifiers
  Nobody,       \* no owner yet
  MaxStrikes,   \* strikes that are tolerated
  Believers,    \* the processes that answer
  Answers       \* everything they may answer, "ok", "none", ... included

VARIABLES owner, mark, strikes, answer

hwVars == <<owner, mark, strikes, answer>>

HWInit ==
  /\ owner = Nobody
  /\ mark = 0
  /\ strikes = 0
  /\ answer = [b \in Believers |-> "none"]

(* Believe a time: the mark and the strikes rise, or stay, and b answers.  *)
Observe(b) ==
  /\ owner' \in Owners /\ owner \in {Nobody, owner'}
  /\ mark' \in Nat /\ mark' >= mark
  /\ strikes' \in Nat /\ strikes' >= strikes
  /\ \E a \in Answers :
       /\ answer' = [answer EXCEPT ![b] = a]
       /\ a = "ok" => strikes' <= MaxStrikes
       /\ strikes' > MaxStrikes => a = "time_rewind"

(* Answer something else, or nothing, and leave the mark alone.            *)
Refuse(b) ==
  /\ \E a \in Answers \ {"ok"} : answer' = [answer EXCEPT ![b] = a]
  /\ UNCHANGED <<owner, mark, strikes>>

Forget ==
  /\ owner' = Nobody /\ mark' = 0 /\ strikes' = 0
  /\ UNCHANGED answer

HWNext ==
  \/ \E b \in Believers : Observe(b) \/ Refuse(b)
  \/ Forget

HWSpec == HWInit /\ [][HWNext]_hwVars
=============================================================================
