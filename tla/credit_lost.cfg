SPECIFICATION QuoteSpec
CONSTANTS
  Orders = {1, 2}
  Payments = {1, 2}
  Late = {}
  Odd = {}
  Web = {w1}
  Pump = Pump
  Plans <- TwoPlans
  Month = 2
  Grace = 0
  FirstPlan = 1
  FirstEnd = 0
  MaxDay = 1
  MaxCrashes = 1
  None = None
  Off = Off
  Servers = {s1, s2}
  TopPlan = 2
  Cycle = 1
  Trial = 1
  Soon = 0
  PeriodGrace = 1
  Catchup = 1
  Charges = {c1}
  Prices = {299, 500, 1001}
  Rates = {5, 18}
  FirstDays <- Days
  Strides = {13}
  Least = 100
  Clicks = {b1, b2}
  Runs = {"d1", "d2", "d3"}
  Known <- Releases
  LastDay = 4
  MaxEvents = 2
  MaxPeriods = 3
  MaxSubs = 2
  MaxCalls = 2
  MaxTurns = 5
  MaxStops = 2
  MaxFaults = 1
PROPERTY EveryDayIsCredited
CHECK_DEADLOCK FALSE
