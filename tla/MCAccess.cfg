SPECIFICATION ASpec
CONSTANTS
  s1 = s1
  s2 = s2
  admin = admin
  trader = trader
  viewer = viewer
  guest = guest
  auto = auto
  empty = empty
  long = long
  x = x
  y = y
  Sessions = {s1, s2}
  Strings = {admin, trader, viewer, guest, auto, empty, long, x, y}
  Credentials <- MCCredentials
  Admin = admin
  Trader = trader
  Viewer = viewer
  Guest = guest
  AutoName = auto
  Empty = empty
  TooLong = long
INVARIANTS
  AccessSound
PROPERTIES
  AccountsKept
