\* Two clients register and log in with the same logins, and come back later.
SPECIFICATION SessionsSpec
CONSTANTS
  Clients = {c1, c2}
  Logins = {ann, bob}
  Passwords = {p1, p2}
  MaxUserId = 2
  None = None
  TokenExpireHours = 1
  MaxHours = 3
SYMMETRY Symmetry
INVARIANTS UserHasBalance OneUserPerLogin TokenNamesUser ConflictIsTrue AdmittedHasBalance DeactivatedIsOut
PROPERTY SessionIsKept
