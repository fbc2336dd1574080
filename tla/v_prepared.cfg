SPECIFICATION Spec
CONSTANTS
  c1 = c1
  c2 = c2
  r1 = r1
  k1 = k1
  s1 = s1
  Call = {c1, c2}
  NoCall = NoCall
  Submitter = {s1}
  Recoverer = {r1}
  Canceller = {k1}
  SweepLimit = 2
  RecoverTries = 2
  CancelTries = 2
  CasTries = 1
  StopModel = "settled"
SYMMETRY CallSymmetry
INVARIANTS PreparedIsCancellable
