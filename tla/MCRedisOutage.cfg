SPECIFICATION OutageSpec
CONSTANTS
  u1 = u1
  u2 = u2
  u3 = u3
  o1 = o1
  r1 = r1
  r2 = r2
  w1 = w1
  w2 = w2
  Users = {u1, u2, u3}
  Orders = {o1}
  Publishers = {u1, u2, u3}
  NoUser = NoUser
  Requests = {r1, r2}
  Workers = {w1, w2}
  Meanwhile = 1
SYMMETRY Symmetry
INVARIANTS
  TypeOK
  WonIsTaker
  WinnerStillMatches
  RebuildIsExact
  OneWinnerOfThoseAsked
PROPERTY GrabImplementsLifecycle
