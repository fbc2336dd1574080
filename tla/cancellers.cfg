SPECIFICATION CancelSpec
CONSTANTS
  c1 = c1
  k1 = k1
  k2 = k2
  s1 = s1
  Call = {c1}
  NoCall = NoCall
  Submitter = {s1}
  Recoverer = {}
  Canceller = {k1, k2}
  SweepLimit = 3
  RecoverTries = 1
  CancelTries = 2
  CasTries = 2
  StopModel = "lingering"
INVARIANTS TypeOK CancelledMeansStopped
PROPERTIES CancellationIntentKept CancellationCompletes
