SPECIFICATION FairSpec
CONSTANTS
  u1 = u1
  u2 = u2
  o1 = o1
  w1 = w1
  r1 = r1
  r2 = r2
  Users = {u1, u2}
  Orders = {o1}
  Publishers = {u1}
  NoUser = NoUser
  Requests = {r1, r2}
  Workers = {w1}
PROPERTIES
  ConsumedMarkerReturns
  WantedOrderIsTaken
  KeysVanish
