\* Seats and verdicts: three accounts, two of them subjects, two proposals, two racing requests.
SPECIFICATION Spec
CONSTANTS
  a = a  b = b  d = d
  p1 = p1  p2 = p2
  User = {a, b, d}
  Id = {p1, p2}
  MinOwners = 2
  Kinds = {"removal", "admission", "suspension", "reinstatement", "admin_admission"}
  Subjects = {a, d}
  Elevated = {d}
  Holdable = {d}
  MaxInFlight = 2
SYMMETRY ProposalsInterchangeable
INVARIANTS OpenConsiliumIsLive
PROPERTIES ExecutionsAreBacked DecisionsAreFinal RegisterSpec SeatsMoveLawfully
