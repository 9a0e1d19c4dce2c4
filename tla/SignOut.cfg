SPECIFICATION SessionsSpec
CONSTANTS
  u = u  v = v  p = p  q = q
  Web = {u, v}
  Worker = {p, q}
  MaxVersion = 1
  MaxRotations = 1
  MaxFaults = 0
PROPERTY LoggedOutStaysOut
