SPECIFICATION Spec
CONSTANTS
  Ids = {f1, f2}
  Owners = {o1, o2}
  Vals = {v1}
  Absent = Absent
  MaxOps = 3
  MaxCustom = 1
  MaxFaults = 2
  Garbage = Garbage
  BadText = BadText
  None = None
SYMMETRY Symmetry
INVARIANT AckedReplayed
