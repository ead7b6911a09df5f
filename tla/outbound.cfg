SPECIFICATION SpecMC
CONSTANTS
  s1 = s1
  Messages <- TwoMessages
  Sessions = {s1}
  SessionOf <- OneNumber
  Restored = {s1}
  Slots = {w1, w2}
  ResultAcks <- AckOnly
  Deletable <- FirstOnly
  BatchLimit = 2
  MaxSends = 2
  Possible <- All
  MaxUpsets = 1
  NoMessage = NoMessage
  Off = Off
  Call = Call
  Launches = {1, 2}
SYMMETRY SlotSymmetry
INVARIANTS AtMostOnce DispatchExclusive SingleBrowser
PROPERTIES ImplementsLife
CHECK_DEADLOCK FALSE
