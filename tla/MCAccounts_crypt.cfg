CONSTANTS
  Workers = {w1, w2}
  Names = {Admin, u}
  Admin = Admin
  Passwords = {AdminPassword, p}
  AdminPassword = AdminPassword
  Salts = {s1, s2, s3, s4}
  Garbage = Garbage
  OtherRow = OtherRow
  NoRow = NoRow
SPECIFICATION Spec
SYMMETRY Alike
INVARIANTS HashVerifies
