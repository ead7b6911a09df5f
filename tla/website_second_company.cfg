SPECIFICATION Spec
CONSTANTS
  Clicks = {c1, c2}
  NoOrder = NoOrder
  MaxFaults = 1
PROPERTY NoSecondCompany
CHECK_DEADLOCK FALSE
