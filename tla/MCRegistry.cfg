CONSTANTS
  licA = licA
  licB = licB
  licC = licC
  deviceA = deviceA
  deviceB = deviceB
  r1 = r1
  r2 = r2
  NoFile = NoFile
  Garbage = Garbage
  Null = Null
  Ids = {licA, licB, licC}
  Fingerprints = {deviceA, deviceB}
  TimeRewindTolerance = 0
  MaxTimeRewinds = 3
  Day = 2
  Runs = {r1, r2}
  Orders <- BothOrders
  Machines = {deviceA, deviceB}
  MaxUpsets = 2
SYMMETRY Symmetry
SPECIFICATION Spec
INVARIANTS TypeOK RowsAreWhole ExpiresTellsNull
PROPERTIES DoneMeansStored RowsStay OnlyFaultsFail
CHECK_DEADLOCK FALSE
