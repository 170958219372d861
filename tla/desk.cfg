\* Two registrations, of one address or of two, and an agent; one browser and
\* what others do meanwhile.
SPECIFICATION Spec
CONSTANTS
  Registrations = {"r1", "r2"}
  Emails = {"e1", "e2"}
  Provisioned <- Given
  MaxRoleChanges = 1
  Browsers = {b1}
  Tickets = {"t1"}
  Comments = {"c1"}
  nobody = "nobody"
CHECK_DEADLOCK FALSE
INVARIANT OneAccountPerEmail
INVARIANT TurnedAwayForACause
INVARIANT ShownWasAllowed
INVARIANT NotesAreByStaff
INVARIANT NothingLeftBehind
