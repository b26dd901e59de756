CONSTANTS
  i1 = i1  i2 = i2   z1 = z1  z2 = z2  r1 = r1
  t1 = t1  t2 = t2  t3 = t3  t4 = t4  l2 = l2  l3 = l3
  If = {i1}
  Zone = {z1, z2}
  Router = {r1}
  Mode = {l3, l2}
  ModeOf <- MCModes
  Task = {t1}
  IfOf <- MCIfOf
  ZoneFor <- MCZoneFor
  RouterFor <- MCOneVr
  Script <- MCTunnels
  Op <- MCStates
  Dhcp = {}
  Commit = {t1}
  NoGroup = NoGroup
  Flaky = {"read", "write"}
  Overlap = FALSE
SPECIFICATION FairSpec
PROPERTIES Converges
