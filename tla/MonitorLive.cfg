CONSTANTS
  d1 = d1  d2 = d2  d3 = d3
  h1 = h1  h2 = h2
  Device = {d1, d2}
  Host = {h1, h2}
  HostOf <- MCOwn
  NoDevice = NoDevice
  Run = {m1}
  Byol = TRUE
  Overlap = FALSE
  ScaleToZero = FALSE
  Flaky <- MCReads
  MaxCrash = 1
SPECIFICATION FairSpec
PROPERTIES ForgottenLeftPanorama ServingRecorded GoneReclaimed LedgerSpec
