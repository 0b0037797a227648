CONSTANTS
  Workers = {w1, w2}
  Users = {u1, u2}
  Tokens = {t1, t2, t3}
  Nodes = {n1, n2}
  Nobody = Nobody
  Null = Null
  NoToken = NoToken
  Hasty = {t3}
SPECIFICATION Spec
SYMMETRY Alike
INVARIANTS TypeOK StoreSound OwnSessionOnly
PROPERTIES AdminByLogin
