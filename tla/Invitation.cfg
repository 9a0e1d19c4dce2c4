SPECIFICATION Spec
CONSTANTS
  Request = {r1, r2}
  MaxAttempts = 5
CHECK_DEADLOCK FALSE
INVARIANTS
  GuessesAreCapped
  ConfirmedIsDecided
PROPERTIES DecidesOnce
