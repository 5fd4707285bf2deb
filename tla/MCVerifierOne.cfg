CONSTANTS
  here = here
  elsewhere = elsewhere
  licA = licA
  licB = licB
  NoFile = NoFile
  Garbage = Garbage
  Unavailable = Unavailable
  app = app
  cli = cli
  Disks = {"rw", "ro", "denied"}
  Ids = {licA, licB}
  Fingerprints = {here}
  TimeRewindTolerance = 1
  MaxTimeRewinds = 1
  Day = 1
  Procs = {app}
  NodeProcs = {}
  Licenses <- CoreLicenses
  MaxTime = 4
  MaxVerifyCount = 4
  ClockMayBeSetBack = TRUE
SPECIFICATION Spec
INVARIANTS TypeOK OwnWatermarkIsSound GrantsAreRemembered
PROPERTIES OkNeverGoesBack RefusalsAreFinal WatermarkOnlyRises ImplementsHighWater
