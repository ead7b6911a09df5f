SPECIFICATION SpecOthers
CONSTANTS
  Deliveries <- Two
  Workers = {w1, w2}
  MaxAttempts = 2
  BatchLimit = 2
  MaxStops = 1
  First = w1
  None = None
PROPERTIES
  CapturedSettles TroubleIsTold CachesCatchUp CutOff
CHECK_DEADLOCK FALSE
