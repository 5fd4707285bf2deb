----------------------------- MODULE MCSigning -----------------------------
(* An instance of Signing for TLC: one command at a time.                   *)
EXTENDS Signing, TLC

CONSTANTS here, licA, licB, elsewhere, i1

None == [bare |-> FALSE, at |-> ZeroTime]
DayTwo == [bare |-> TRUE, at |-> 2]
AtOnce == [bare |-> FALSE, at |-> 3]

Annual ==
  [permanent |-> FALSE, notBefore |-> None, notAfter |-> DayTwo, maxOfflineDays |-> 1]
SameDay == [Annual EXCEPT !.notBefore = DayTwo]
Unlimited ==
  [permanent |-> TRUE, notBefore |-> AtOnce, notAfter |-> None, maxOfflineDays |-> 0]
Backwards == [Annual EXCEPT !.notBefore = AtOnce, !.notAfter = [bare |-> FALSE, at |-> 2]]
Mixed == [Unlimited EXCEPT !.notAfter = DayTwo]

AllOrders == {Annual, SameDay, Unlimited, Backwards, Mixed}

Delivered == [fp |-> elsewhere, recomputedFp |-> elsewhere]
Edited == [fp |-> here, recomputedFp |-> elsewhere]
AllSnapshots == {Delivered, Edited}
=============================================================================
