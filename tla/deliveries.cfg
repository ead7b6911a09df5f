SPECIFICATION SpecDeliveries
CONSTANTS
  Deliveries <- Two
  Workers = {w1, w2}
  MaxAttempts = 2
  BatchLimit = 2
  MaxStops = 1
  First = w1
  None = None
INVARIANT PostsAreBounded
PROPERTIES EveryDeliverySettles AlertsGoAway
CHECK_DEADLOCK FALSE
