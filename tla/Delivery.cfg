\* Two rows, two dispatchers, an emit made twice, two relayed requests over two keys; two leases that lapse or processes that die.
SPECIFICATION MCSpec
CONSTANTS
  w1 = w1  w2 = w2  m1 = m1  m2 = m2
  Rows = 2
  Worker = {w1, w2}
  Emission = {m1, m2}
  MaxAttempts = 2
  Batch = 2
  Budget = 1
  MaxLapses = 2
  MaxChanges = 2
  q1 = q1  q2 = q2  u1 = u1  u2 = u2  k1 = k1  k2 = k2
  Request = {q1, q2}
  Recipient = {u1, u2}
  Me = u1
  DedupeKey = {k1, k2}
  Ceiling = 1
CHECK_DEADLOCK FALSE
INVARIANTS InboxAndQueueAgree AcceptedMailsRender RepeatsArePaidFor SecretsEndWithTheirMail
PROPERTY EveryMailSettles
