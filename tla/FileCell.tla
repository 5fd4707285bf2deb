------------------------------ MODULE FileCell ------------------------------
(***************************************************************************)
(* What an atomically replaced file promises: it is one cell.  A writer    *)
(* replaces the whole of it in one step and only then reports success; a   *)
(* writer that fails changes nothing; a power loss may bring back a        *)
(* document the cell held earlier, never a part of one.                    *)
(***************************************************************************)
CONSTANTS Writers, Values, Absent

VARIABLES
  cell,     \* the document
  past,     \* documents a power loss may bring back
  acked,    \* what each writer was last told: "none", "ok", "error"
  wrote     \* whether its document is in place and it was not told yet

CellInit ==
  /\ cell \in Values \union {Absent}
  /\ past = {cell}
  /\ acked = [w \in Writers |-> "none"]
  /\ wrote = [w \in Writers |-> FALSE]

(* A write replaces the document; its writer is told now or later.         *)
Replace(w) ==
  /\ \E v \in Values :
       cell' = v /\ past \union {v} \subseteq past' /\ past' \subseteq past \union Values
  /\ \/ acked' = [acked EXCEPT ![w] = "ok"] /\ UNCHANGED wrote
     \/ wrote' = [wrote EXCEPT ![w] = TRUE] /\ UNCHANGED acked

(* A write starts, ends, fails or dies: only what its writer is told       *)
(* changes, and only who wrote is told "ok".                               *)
Report(w) ==
  /\ \E r \in {"none", "error", "ok"} :
       /\ r = "ok" => wrote[w]
       /\ acked' = [acked EXCEPT ![w] = r]
  /\ wrote' = [wrote EXCEPT ![w] = FALSE]
  /\ UNCHANGED <<cell, past>>

Settle == past' = {cell} /\ UNCHANGED <<cell, acked, wrote>>

Revert ==
  /\ \E v \in past : cell' = v /\ past' = {v}
  /\ acked' = [w \in Writers |-> "none"]
  /\ wrote' = [w \in Writers |-> FALSE]

CellNext ==
  \/ \E w \in Writers : Replace(w) \/ Report(w)
  \/ Settle
  \/ Revert

CellSpec == CellInit /\ [][CellNext]_<<cell, past, acked, wrote>>
=============================================================================
