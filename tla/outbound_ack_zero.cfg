SPECIFICATION SpecAlone
CONSTANTS
  s1 = s1
  Messages <- OneMessage
  Sessions = {s1}
  SessionOf <- OneNumber
  Restored = {s1}
  Slots = {w1, w2}
  ResultAcks <- AckOrZero
  Deletable <- NoDeletes
  BatchLimit = 2
  MaxSends = 2
  Possible <- All
  MaxUpsets = 0
  NoMessage = NoMessage
  Off = Off
  Call = Call
  Launches = {1}
SYMMETRY SlotSymmetry
INVARIANT AtMostOnce
CHECK_DEADLOCK FALSE
