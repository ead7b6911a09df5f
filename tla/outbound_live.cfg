SPECIFICATION FairSpecMC
CONSTANTS
  s1 = s1
  Messages <- TwoMessages
  Sessions = {s1}
  SessionOf <- OneNumber
  Restored = {s1}
  Slots = {w1}
  ResultAcks <- AckOrZero
  Deletable <- NoDeletes
  BatchLimit = 2
  MaxSends = 2
  Possible <- Graceful
  MaxUpsets = 1
  NoMessage = NoMessage
  Off = Off
  Call = Call
  Launches = {1}
PROPERTY EventuallyHanded
CHECK_DEADLOCK FALSE
