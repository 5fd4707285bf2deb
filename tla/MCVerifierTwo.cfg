CONSTANTS
  here = here
  elsewhere = elsewhere
  licA = licA
  licB = licB
  NoFile = NoFile
  Garbage = Garbage
  Unavailable = Unavailable
  app = app
  cli = cli
  Disks = {"rw", "ro", "denied"}
  Ids = {licA}
  Fingerprints = {here, elsewhere}
  TimeRewindTolerance = 0
  MaxTimeRewinds = 1
  Day = 1
  Procs = {app, cli}
  NodeProcs = {app}
  Licenses <- OddLicenses
  MaxTime = 3
  MaxVerifyCount = 3
  ClockMayBeSetBack = TRUE
SPECIFICATION SettledSpec
INVARIANTS OwnWatermarkIsSound
PROPERTIES OkIsBacked OnlyTheIssuedIsAccepted
