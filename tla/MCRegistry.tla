---------------------------- MODULE MCRegistry -----------------------------
(* An instance of Registry for TLC: two runs at a time.                     *)
EXTENDS Registry, TLC

CONSTANTS licA, licB, licC, deviceA, deviceB, r1, r2

Annual == [permanent |-> FALSE, notBefore |-> 0, notAfter |-> 9, maxOfflineDays |-> 1]
Unlimited == [permanent |-> TRUE, notBefore |-> 0, notAfter |-> 0, maxOfflineDays |-> 0]
BothOrders == {Annual, Unlimited}
Symmetry == Permutations(Runs) \union Permutations(Ids)
              \union Permutations(Machines)
=============================================================================
