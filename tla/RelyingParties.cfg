SPECIFICATION Spec
CONSTANTS
  c1 = c1  f1 = f1  w1 = w1  w2 = w2
  Code = {c1}
  Family = {f1}
  Worker = {w1, w2}
  CodeTTL = 2
  MaxTime = 2
  MaxVersion = 1
  MaxRotations = 2
SYMMETRY Interchangeable
INVARIANTS SecretsAreSpentOnce 
