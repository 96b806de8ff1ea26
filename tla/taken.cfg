\* Two registrations of one login pass CheckLogin together.
SPECIFICATION Spec
CONSTANTS
  Clients = {c1, c2}
  Logins = {ann}
  Passwords = {p1}
  MaxUserId = 2
  None = None
INVARIANT TakenIsConflict
