CONSTANTS
  here = here
  licA = licA
  licB = licB
  NoFile = NoFile
  Garbage = Garbage
  Ids = {licA, licB}
  Fingerprints = {here}
  TimeRewindTolerance = 1
  MaxTimeRewinds = 1
  Day = 3
  Licenses <- RenewalLicenses
  RecheckTicks = 3
  RestartDelay = 1
  Supervisors = {"docker", "pm2"}
  MaxRestarts = 2
  MaxTime = 9
  MaxUpsets = 3
SPECIFICATION FairSpec
INVARIANTS TypeOK NeverServesStale SmallRewindIsForgiven
PROPERTIES ServesAgain StopsServing
