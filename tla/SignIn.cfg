SPECIFICATION Spec
CONSTANTS
  u1 = u1  u2 = u2  m1 = m1  m2 = m2  s1 = s1  q1 = q1  q2 = q2
  NoSubject = NoSubject  Nobody = Nobody
  Account = {u1, u2}
  Mailbox = {m1, m2}
  Subject = {s1}
  Request = {q1, q2}
  MaxAttempts = 2
  MaxFailures = 1
  SendsPerWindow = 1
  MaxWindows = 1
SYMMETRY Interchangeable
INVARIANTS  SquatsAreUnmistakable CodeGuessesAreCapped
