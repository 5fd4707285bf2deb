---------------------------- MODULE MCSupervisor ----------------------------
(* Instances of Supervisor for TLC: a time-bound license with an offline    *)
(* cap, the license that renews it and outlives the bound of the clock, and *)
(* a permanent one.                                                         *)
EXTENDS Supervisor, TLC

CONSTANTS here, licA, licB

Capped ==
  Issue([hwFp |-> here, recomputedFp |-> here, permanent |-> FALSE,
         notBefore |-> ZeroTime, notAfter |-> 5, maxOfflineDays |-> 1], licA, 1)
Renewed ==
  Issue([hwFp |-> here, recomputedFp |-> here, permanent |-> FALSE,
         notBefore |-> 5, notAfter |-> 9, maxOfflineDays |-> 1], licB, 3)
Permanent ==
  Issue([hwFp |-> here, recomputedFp |-> here, permanent |-> TRUE,
         notBefore |-> ZeroTime, notAfter |-> ZeroTime, maxOfflineDays |-> 0],
        licA, 1)

RenewalLicenses == {Capped, Renewed}
OneLicense == {Permanent}
=============================================================================
