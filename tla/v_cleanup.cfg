SPECIFICATION Spec
CONSTANTS
  c1 = c1
  k1 = k1
  s1 = s1
  Call = {c1}
  NoCall = NoCall
  Submitter = {s1}
  Recoverer = {}
  Canceller = {k1}
  SweepLimit = 2
  RecoverTries = 1
  CancelTries = 1
  CasTries = 1
  StopModel = "settled"
PROPERTIES ReportedCleanupIsReal
