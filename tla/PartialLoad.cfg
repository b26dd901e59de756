CONSTANTS
  d1 = d1  d2 = d2  f1 = f1  f2 = f2  g1 = g1  g2 = g2  s1 = s1  s2 = s2
  x1 = x1  x2 = x2  x3 = x3
  Device = {d1, d2}
  File = {f1, f2}
  Group = {g1, g2}
  Obj = {"tag"}
  Rule = {"nat"}
  Report = {}
  Own <- MCOwn
  Text = {x1, x2, x3}
  Has <- MCHas
  Kept <- MCKept
  Local <- MCLocal
  Slot = {s1, s2}
  None = None
  Prompt = Prompt
SYMMETRY MCSymmetry
SPECIFICATION Spec
INVARIANTS TypeOK FromOfFile SelectionExists GreenMeansLoaded NoFalseAssurance
