CONSTANTS
  r1 = r1  r2 = r2  r3 = r3  b1 = b1  b2 = b2
  t1 = t1  t2 = t2  t3 = t3  t4 = t4  t5 = t5  t6 = t6  t7 = t7
  Rule = {r1, r2, r3}
  Body = {b1, b2}
  None = None
  Kinds = {"nat", "security"}
  Initial <- MCInitial
  Task = {t1, t2, t3, t4, t5, t6, t7}
  Idle = Idle
  State <- MCState
  Operation <- MCOperation
  Name <- MCName
  Asked <- MCAsked
  Location <- MCLocation
  Existing <- MCExisting
  Commit = {t1, t5}
  CheckMode = {t5}
  Incomplete = {t7}
  Flaky = {"read", "write", "lost", "commit", "rejected"}
  Admin = {"add", "delete", "edit", "commit"}
SPECIFICATION Spec
INVARIANTS TypeOK
PROPERTIES OkMeansAsked OkMeansMoved
