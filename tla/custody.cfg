SPECIFICATION Spec
CONSTANTS
  run = run
  t1 = t1
  t2 = t2
  s = s
  g1 = g1
  g2 = g2
  Scope = {run}
  Trial = {t1, t2}
  Cli = {s}
  Seeder = {g1, g2}
  MaxTurn = 2
  Uses = 1
SYMMETRY CustodySymmetry
CONSTRAINT OneRivalOfTheTrial
INVARIANTS TypeOK ReleasedIsNewest ReleasedIsIdle OneClient
PROPERTIES LineageNeverGoesBack NoTakeover
\* Every actor stops when its work is done, and a blocked claim stays blocked.
CHECK_DEADLOCK FALSE
