SPECIFICATION Spec
CONSTANTS
  Id = {i1, i2, i3}
  Name = {n1, n2}
  Request = {r1, r2}
  Nobody = Nobody
  MaxViews = 1
SYMMETRY Alike
INVARIANTS TypeOK ViewsCounted SessionOfNamedAccount CookieIsLive ConnectionIsFreed
