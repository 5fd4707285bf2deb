CONSTANTS
  here = here
  licA = licA
  licB = licB
  NoFile = NoFile
  Garbage = Garbage
  Ids = {licA, licB}
  Fingerprints = {here}
  TimeRewindTolerance = 1
  MaxTimeRewinds = 3
  Day = 3
  Licenses <- OneLicense
  RecheckTicks = 1
  RestartDelay = 1
  Supervisors = {"docker"}
  MaxRestarts = 2
  MaxTime = 9
  MaxUpsets = 1
SPECIFICATION Spec
INVARIANTS RewindsAreCountedOnce
