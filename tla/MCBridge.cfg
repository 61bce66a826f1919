SPECIFICATION BFairSpec
CONSTANTS
  Browsers = {b1}
  Asked = {"viewer", "badlogin", "submit"}
  Given = {"trader", "badlogin"}
  MaxCommands = 4
  MaxConnects = 2
INVARIANTS
  OneConnection
  InOrder
  RefusedForCause
PROPERTIES
  LiveAgain
  QueueSent
