CONSTANTS
  a1 = a1  a2 = a2  a3 = a3  n1 = n1  n2 = n2  n3 = n3
  h1 = h1  h2 = h2  r1 = r1  r2 = r2
  Admins <- ThreeAdmins
  Numbers <- ThreeNumbers
  Passwords <- TwoPasswords
  SeedAdmin = a1
  SeedNumber = n1
  Requests <- TwoRequests
  MaxServed = 5
SPECIFICATION Spec
INVARIANTS TypeOK SuperAdminRemains SetupOnce PasswordsKept
SYMMETRY Symmetry
CHECK_DEADLOCK FALSE
