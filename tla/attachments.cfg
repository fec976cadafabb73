CONSTANTS
  f1 = f1  f2 = f2  m1 = m1  m2 = m2  c1 = c1  c2 = c2  w1 = w1  w2 = w2  s1 = s1  s2 = s2
  None = None
  Files = {f1, f2}
  Messages = {m1, m2}
  Scanners = {w1, w2}
  Sweepers = {s1, s2}
  Thread <- TwoThreads
  Nature <- FitAndInfected
  MaxFaults = 1
SPECIFICATION FairSpec
INVARIANTS ReachableIsScanned OneScanPerFile
PROPERTIES UploadsEnd
CHECK_DEADLOCK FALSE
