CONSTANTS
  d1 = d1  d2 = d2  d3 = d3
  h1 = h1  h2 = h2
  Device = {d1, d2, d3}
  Host = {h1, h2}
  HostOf <- MCReuse
  NoDevice = NoDevice
  Run = {m1}
  Byol = TRUE
  Overlap = FALSE
  ScaleToZero = TRUE
  Flaky <- MCAnyCall
  MaxCrash = 1
SPECIFICATION Spec
INVARIANTS TypeOK ServingUntouched DelicensedAreGone
PROPERTIES ReleasedUnlessEmpty
