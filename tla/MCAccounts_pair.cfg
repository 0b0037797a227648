CONSTANTS
  Workers = {w1, w2}
  Names = {Admin, u}
  Admin = Admin
  Passwords = {AdminPassword, p}
  AdminPassword = AdminPassword
  Salts = {s1, s2}
  Garbage = Garbage
  OtherRow = OtherRow
  NoRow = NoRow
SPECIFICATION Spec
SYMMETRY Alike
INVARIANTS TypeOK NameOnce AdminThere LoginRight RegisterRight
