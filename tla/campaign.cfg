SPECIFICATION FairSpec
CONSTANTS
  Recipients = {1, 2, 3}
  Pumps = {p1}
  BatchSize = 2
  Breaker = 2
  Unsendable = {2}
  Twice = {"start", "failure"}
  MaxEvents = 3
  NoOne = NoOne
INVARIANTS SentIsCounted CompletedIsHandled
PROPERTY CampaignFinishes
CHECK_DEADLOCK FALSE
