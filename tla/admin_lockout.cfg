CONSTANTS
  a1 = a1  a2 = a2  a3 = a3  n1 = n1  n2 = n2  n3 = n3
  h1 = h1  h2 = h2  r1 = r1  r2 = r2
  Admins <- TwoAdmins
  Numbers <- TwoNumbers
  Passwords <- OnePassword
  SeedAdmin = a1
  SeedNumber = n1
  Requests <- TwoRequests
  MaxServed = 6
SPECIFICATION Spec
INVARIANT LastSuperAdminStays
CHECK_DEADLOCK FALSE
