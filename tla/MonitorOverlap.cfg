CONSTANTS
  d1 = d1  d2 = d2  d3 = d3
  h1 = h1  h2 = h2
  Device = {d1}
  Host = {h1, h2}
  HostOf <- MCOwn
  NoDevice = NoDevice
  Run = {m1, m2}
  Byol = TRUE
  Overlap = TRUE
  ScaleToZero = FALSE
  Flaky <- MCAnyCall
  MaxCrash = 0
SPECIFICATION Spec
INVARIANTS DelicensedAreGone
