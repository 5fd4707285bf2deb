CONSTANTS
  here = here
  elsewhere = elsewhere
  licA = licA
  licB = licB
  i1 = i1
  NoFile = NoFile
  Garbage = Garbage
  Ids = {licA, licB}
  Fingerprints = {here, elsewhere}
  TimeRewindTolerance = 0
  MaxTimeRewinds = 3
  Day = 2
  Issuers = {i1}
  Orders <- AllOrders
  Here = here
  Snapshots <- AllSnapshots
  MaxKeys = 2
  MaxTime = 3
SPECIFICATION Spec
INVARIANTS TypeOK UnforcedKeepsPair
PROPERTIES WhatIsSignedVerifies NeverReplacesUnforced SignedCanBeUsed
